\* Two messages of one conversation, each of this tab or of another one, with up to
\* three streams open at once: both of one turn and one of the other.
CONSTANTS
    a = a
    Convs <- OneConv
    NumMessages = 2
    MaxStreams = 3
    MaxLists = 1
SPECIFICATION ClientSpec
INVARIANTS OneSendInFlight SendingIsFollowed
PROPERTIES NotPermanentlyLost TurnReleasesComposer
