------------------------------ MODULE Composer ------------------------------
(***************************************************************************)
(* A tool invoked from the browser with a slash: the composer's picker and *)
(* argument entry (Composer.tsx, slashTools.ts), the text it posts, and    *)
(* the worker's reading of that text (direct-tool.ts, tools.ts).           *)
(*                                                                         *)
(* A text is a draft's parts and not its characters: whether blanks lead   *)
(* it, the token behind the slash, and what follows the token.  One        *)
(* conversation; going to another and back is a refetch of its tools.      *)
(***************************************************************************)
EXTENDS Naturals, Sequences, SequencesExt

CONSTANTS
  Token,          \* what a user may type behind the slash, tool names included
  Begins, Within, \* <<token, name>>: the name starts with it, or contains it
  NoTool, NoMessage

Arg(name, type) == [name |-> name, type |-> type]

\* TOOL_MANIFESTS
Manifests == <<
  [name |-> "get_current_datetime", readOnly |-> TRUE,  args |-> <<Arg("timezone", "string")>>],
  [name |-> "calculator", readOnly |-> TRUE,  args |-> <<Arg("expression", "string")>>],
  [name |-> "bash",       readOnly |-> FALSE, args |-> <<Arg("command", "string")>>],
  [name |-> "read_file",  readOnly |-> TRUE,
   args |-> <<Arg("path", "string"), Arg("offset", "number"), Arg("limit", "number")>>],
  [name |-> "write_file", readOnly |-> FALSE,
   args |-> <<Arg("path", "string"), Arg("content", "string"), Arg("expected_hash", "string")>>],
  [name |-> "edit_file",  readOnly |-> FALSE,
   args |-> <<Arg("path", "string"), Arg("old_string", "string"), Arg("new_string", "string")>>],
  [name |-> "subagent",   readOnly |-> FALSE,
   args |-> <<Arg("task", "string"), Arg("context", "string"), Arg("tools", "array")>>] >>

\* ALWAYS_ENABLED_TOOLS; each of the others has an env flag of its own.
AlwaysEnabled == {"get_current_datetime", "calculator", "subagent"}

Name == {Manifests[i].name : i \in DOMAIN Manifests}

ASSUME ComposerAssumption ==
  /\ Name \subseteq Token
  /\ Begins \subseteq Within /\ Within \subseteq Token \X Name
  /\ \A n \in Name : <<n, n>> \in Begins
  /\ NoTool \notin Token

VARIABLES
  enabled,    \* names in the workers' DEFAULT_TOOLS
  tools,      \* the names the browser fetched, {} while it has none
  value,      \* the draft
  forcedPlain, highlightIndex, selectedTool, argValues,
  message     \* the turn under way and what came of it

draftVars    == <<value, forcedPlain, highlightIndex, selectedTool, argValues>>
composerVars == <<enabled, tools, value, forcedPlain, highlightIndex, selectedTool, argValues, message>>

\* A single text: blank, some words, a JSON object, a list with commas, or
\* commas alone.
Text == {"blank", "words", "object", "list", "commas"}

Empty == [kind |-> "empty"]
Chat  == [kind |-> "chat"]
Draft == {Empty, Chat}
           \cup [kind : {"slash"}, leading : BOOLEAN, token : Token, rest : Text]

Manifest(n) == CHOOSE t \in ToSet(Manifests) : t.name = n
ReadOnly(n) == Manifest(n).readOnly
ArgNames(n) == {arg.name : arg \in ToSet(Manifest(n).args)}
SingleArg(n) == Len(Manifest(n).args) = 1

\* toolEnabled, over the environments a deployment may have.
Deployments == {AlwaysEnabled \cup gated : gated \in SUBSET (Name \ AlwaysEnabled)}

-----------------------------------------------------------------------------
(* slashTools.ts *)

\* matchTools: those the token begins, then those that contain it.
MatchTools(token) ==
  LET listed(R) == SelectSeq([i \in DOMAIN Manifests |-> Manifests[i].name],
                             LAMBDA n : n \in tools /\ <<token, n>> \in R)
  IN  listed(Begins) \o listed(Within \ Begins)

NoArgs == [a \in {} |-> [as |-> "text", of |-> "blank"]]

\* buildArgsJson: one field's value; none when the field, or the list, is
\* empty.
ArgValue(arg, text) ==
  [as |-> IF arg.type = "array" THEN "items" ELSE "text", of |-> text]
Omitted(arg, text) == text = "blank" \/ (arg.type = "array" /\ text = "commas")

BuildArgs(n, values) ==
  LET said == {arg \in ToSet(Manifest(n).args) : ~Omitted(arg, values[arg.name])}
  IN  [a \in {arg.name : arg \in said} |->
         ArgValue(CHOOSE arg \in said : arg.name = a, values[a])]

\* A message's content, trimmed by the composer and by the gateway.
Command(token, rest, args) == [kind |-> "slash", token |-> token, rest |-> rest, args |-> args]

\* Mutant: a single argument is sent as it was typed.
BuildCommandRaw(n, args) ==
  IF SingleArg(n) /\ DOMAIN args # {}
    THEN Command(n, args[CHOOSE a \in DOMAIN args : TRUE].of, NoArgs)
    ELSE Command(n, IF DOMAIN args = {} THEN "blank" ELSE "json", args)

\* buildCommand: the bare name, or the name and the arguments as JSON.
BuildCommand(n, args) == Command(n, IF DOMAIN args = {} THEN "blank" ELSE "json", args)

Trimmed(draft) == IF draft.kind = "chat" THEN Chat ELSE Command(draft.token, draft.rest, NoArgs)

-----------------------------------------------------------------------------
(* direct-tool.ts *)

\* The object that a typed JSON object is.
TypedObject == [a \in {"typed"} |-> [as |-> "text", of |-> "words"]]

\* resolveDirectArgs
ResolveDirectArgs(n, content) ==
  CASE content.rest = "blank"  -> NoArgs
    [] content.rest = "json"   -> content.args
    [] content.rest = "object" -> TypedObject
    [] OTHER -> IF SingleArg(n)
                THEN [a \in ArgNames(n) |-> [as |-> "text", of |-> content.rest]]
                ELSE NoArgs

-----------------------------------------------------------------------------
(* The composer. *)

ResetAll ==
  /\ value' = Empty /\ forcedPlain' = FALSE /\ highlightIndex' = 1
  /\ selectedTool' = NoTool /\ argValues' = NoArgs

ComposerInit ==
  /\ enabled \in Deployments
  /\ tools = {}
  /\ value = Empty /\ forcedPlain = FALSE /\ highlightIndex = 1
  /\ selectedTool = NoTool /\ argValues = NoArgs
  /\ message = NoMessage

\* The inputs and buttons are disabled while a turn is under way.
Usable == message = NoMessage

\* The picker is open.
IsSlashCommand ==
  /\ value.kind = "slash" /\ ~value.leading
  /\ ~forcedPlain /\ tools # {} /\ selectedTool = NoTool

Matches == IF IsSlashCommand THEN MatchTools(value.token) ELSE <<>>

\* onSend, with what the user did: the path taken, the tool and its fields.
Submit(content, via, tool, fields) ==
  /\ message' = [state |-> "posted", content |-> content, via |-> via, tool |-> tool,
                 fields |-> fields, ran |-> NoTool, args |-> NoArgs]
  /\ ResetAll
  /\ UNCHANGED <<enabled, tools>>

\* A single argument takes the text typed so far.
EnterArgEntry(n) ==
  /\ selectedTool' = n
  /\ argValues' = [a \in ArgNames(n) |-> IF SingleArg(n) THEN value.rest ELSE "blank"]
  /\ value' = Empty /\ highlightIndex' = 1
  /\ UNCHANGED <<forcedPlain, enabled, tools, message>>

Changes(draft) ==
  /\ Usable /\ selectedTool = NoTool
  /\ value' = draft /\ forcedPlain' = FALSE /\ highlightIndex' = 1
  /\ UNCHANGED <<selectedTool, argValues, enabled, tools, message>>

Escapes ==
  /\ \/ selectedTool # NoTool /\ ResetAll
     \/ /\ IsSlashCommand /\ forcedPlain' = TRUE
        /\ UNCHANGED <<value, highlightIndex, selectedTool, argValues>>
  /\ UNCHANGED <<enabled, tools, message>>

\* ArrowDown and ArrowUp.
Highlights(i) ==
  /\ Usable /\ i \in DOMAIN Matches
  /\ highlightIndex' = i
  /\ UNCHANGED <<value, forcedPlain, selectedTool, argValues, enabled, tools, message>>

\* The mouse on a row; Tab takes the highlighted one.
Picks(i) ==
  /\ Usable /\ i \in DOMAIN Matches
  /\ EnterArgEntry(Matches[i])

Highlighted == Matches[IF highlightIndex <= Len(Matches) THEN highlightIndex ELSE Len(Matches)]

\* Mutant: any tool of one argument is run at once.
FreehandAnyTool == value.token \in tools /\ SingleArg(value.token)

\* A bound read-only tool is named in full, and resolveFreehand can place
\* the text: the token is sent with the text as it is.
Freehand ==
  /\ value.token \in tools /\ ReadOnly(value.token)
  /\ Len(Manifest(value.token).args) <= 1

\* Enter while the picker is open.
EnterOnPicker ==
  /\ Usable /\ Matches # <<>>
  /\ \/ /\ Freehand
        /\ Submit(Command(value.token, value.rest, NoArgs), "freehand", value.token,
                  [a \in ArgNames(value.token) |-> value.rest])
     \/ ~Freehand /\ EnterArgEntry(Highlighted)

\* The Send button, or Enter while the picker is closed.
SubmitDraft ==
  /\ Usable /\ selectedTool = NoTool /\ value # Empty
  /\ Submit(Trimmed(value), "draft", NoTool, NoArgs)

Fills(a, text) ==
  /\ Usable /\ selectedTool # NoTool /\ a \in ArgNames(selectedTool)
  /\ argValues' = [argValues EXCEPT ![a] = text]
  /\ UNCHANGED <<value, forcedPlain, highlightIndex, selectedTool, enabled, tools, message>>

\* The Run button, or Enter in a field.
SubmitArgs ==
  /\ Usable /\ selectedTool # NoTool
  /\ Submit(BuildCommand(selectedTool, BuildArgs(selectedTool, argValues)),
            "argEntry", selectedTool, argValues)

-----------------------------------------------------------------------------
(* Around it. *)

\* getBoundTools is answered, with the manifests of the deployment of that
\* moment, or fails.
Fetches ==
  /\ tools' \in {enabled, {}}
  /\ UNCHANGED <<enabled, draftVars, message>>

\* Gateway and workers are restarted with other flags.
Redeploys ==
  /\ enabled' \in Deployments
  /\ UNCHANGED <<tools, draftVars, message>>

\* processMessage: a bound tool's call, or the model's turn.
Dispatches ==
  /\ message # NoMessage /\ message.state = "posted"
  /\ LET content == message.content
         direct  == content.kind = "slash" /\ content.token \in enabled
     IN  message' = [message EXCEPT
           !.state = IF direct THEN "tool" ELSE "model",
           !.ran   = IF direct THEN content.token ELSE NoTool,
           !.args  = IF direct THEN ResolveDirectArgs(content.token, content) ELSE NoArgs]
  /\ UNCHANGED <<enabled, tools, draftVars>>

\* The turn ends, or its POST failed: the composer is usable again.
TurnOver ==
  /\ message # NoMessage
  /\ message' = NoMessage
  /\ UNCHANGED <<enabled, tools, draftVars>>

ComposerNext ==
  \/ \E draft \in Draft : Changes(draft)
  \/ \E i \in DOMAIN Manifests : Highlights(i) \/ Picks(i)
  \/ Escapes \/ EnterOnPicker \/ SubmitDraft \/ SubmitArgs
  \/ selectedTool # NoTool /\ \E a \in ArgNames(selectedTool), text \in Text : Fills(a, text)
  \/ Fetches \/ Redeploys \/ Dispatches \/ TurnOver

ComposerSpec == ComposerInit /\ [][ComposerNext]_composerVars

-----------------------------------------------------------------------------
(* Properties. *)

\* The turn under way is dispatched in this step.
Dispatched ==
  message # NoMessage /\ message' # NoMessage /\ message.state # message'.state

\* What the fields of arg entry say is what runs: the picked tool and each
\* field that says something, as one text or split at its commas, whatever
\* the text looks like.  Only a tool disabled since is left to the model.
RunsWhatWasEntered ==
  [][Dispatched /\ message.via = "argEntry" =>
       IF message.tool \notin enabled THEN message'.state = "model"
       ELSE /\ message'.ran = message.tool
            /\ \A arg \in ToSet(Manifest(message.tool).args) :
                 LET said == message.fields[arg.name] IN
                 IF said = "blank" \/ (said = "commas" /\ arg.type = "array")
                 THEN arg.name \notin DOMAIN message'.args
                 ELSE /\ arg.name \in DOMAIN message'.args
                      /\ message'.args[arg.name].of = said
                      /\ message'.args[arg.name].as = "items" <=> arg.type = "array"]_composerVars

\* Enter on the open picker runs nothing that changes anything, and a
\* read-only tool with the text it was given, but for a text that is a JSON
\* object itself: both ends take a text apart in the same way.
FreehandReadsOnly ==
  [][Dispatched /\ message.via = "freehand" /\ message'.state = "tool" =>
       /\ ReadOnly(message'.ran) /\ message'.ran = message.tool
       /\ \A a \in ArgNames(message.tool) :
            message.fields[a] \in Text \ {"blank", "object"} =>
              a \in DOMAIN message'.args /\ message'.args[a].of = message.fields[a]]_composerVars

\* "reaching a mutating tool through the UI always requires the explicit
\* picker/arg-entry step" (docs/FEATURE-slash-tools.md).
MutatingOnlyFromArgEntry ==
  message # NoMessage /\ message.state = "tool" /\ ~ReadOnly(message.ran) =>
    message.via = "argEntry"
=============================================================================
