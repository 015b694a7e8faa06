--------------------------- MODULE ComposerProofs ---------------------------
(***************************************************************************)
(* What a slash command may do, for any tokens and any way of matching     *)
(* them: arg entry runs what its fields say, and Enter on the open picker  *)
(* runs nothing that changes anything.  The browser and the worker each    *)
(* take the tools from a deployment of their own moment, so all the proofs *)
(* have of a message is how its text was made (Posted).                    *)
(***************************************************************************)
EXTENDS Composer, TLAPS

MessageFields == {"state", "content", "via", "tool", "fields", "ran", "args"}

\* What a message's content says, by the way it was posted.
Posted(msg) ==
  /\ msg = [x \in MessageFields |-> msg[x]]
  /\ msg.via = "argEntry" => msg.content = BuildCommand(msg.tool, BuildArgs(msg.tool, msg.fields))
  /\ msg.via = "freehand" =>
       \E rest :
         /\ msg.content = Command(msg.tool, rest, NoArgs)
         /\ msg.fields = [a \in ArgNames(msg.tool) |-> rest]
         /\ ReadOnly(msg.tool) /\ Len(Manifest(msg.tool).args) <= 1

ComposerInv ==
  /\ enabled \in Deployments
  /\ message # NoMessage => Posted(message)

-----------------------------------------------------------------------------
(* The manifests. *)

\* A deployment's tools are known, and a manifest's arguments have names of
\* their own.
LEMMA Deployed ==
  ASSUME NEW tool, NEW names \in Deployments, tool \in names
  PROVE  tool \in Name
BY DEF Deployments, AlwaysEnabled, Name, Manifests

Distinct(list) ==
  /\ DOMAIN list = 1..Len(list) /\ Len(list) \in Nat
  /\ \A i, j \in DOMAIN list : list[i].name = list[j].name => i = j

LEMMA Lone == \A x, tx : Distinct(<<Arg(x, tx)>>)
  BY DEF Distinct

LEMMA Triple ==
  \A x, y, z, tx, ty, tz : x # y /\ x # z /\ y # z => Distinct(<<Arg(x, tx), Arg(y, ty), Arg(z, tz)>>)
<1> SUFFICES ASSUME NEW x, NEW y, NEW z, NEW tx, NEW ty, NEW tz, x # y, x # z, y # z
             PROVE  Distinct(<<Arg(x, tx), Arg(y, ty), Arg(z, tz)>>)
  OBVIOUS
<1>1. PICK list : list = <<Arg(x, tx), Arg(y, ty), Arg(z, tz)>>
  OBVIOUS
<1>2. /\ DOMAIN list = 1..3 /\ Len(list) = 3
      /\ list[1].name = x /\ list[2].name = y /\ list[3].name = z
  BY <1>1 DEF Arg
<1>3. Distinct(list)
  BY <1>2 DEF Distinct
<1> QED BY <1>1, <1>3

LEMMA ManifestShape ==
  ASSUME NEW tool \in Name
  PROVE  Distinct(Manifest(tool).args)
<1>1. \A i \in DOMAIN Manifests : Distinct(Manifests[i].args)
  <2>1. DOMAIN Manifests = 1..7
    BY DEF Manifests
  <2>2. Distinct(Manifests[1].args) /\ Distinct(Manifests[2].args) /\ Distinct(Manifests[3].args)
    BY Lone DEF Manifests
  <2>3. Distinct(Manifests[4].args)
    BY Triple DEF Manifests
  <2>4. Distinct(Manifests[5].args)
    BY Triple DEF Manifests
  <2>5. Distinct(Manifests[6].args)
    BY Triple DEF Manifests
  <2>6. Distinct(Manifests[7].args)
    BY Triple DEF Manifests
  <2> QED BY <2>1, <2>2, <2>3, <2>4, <2>5, <2>6
<1>2. \E t \in ToSet(Manifests) : t.name = tool
  BY DEF Name, ToSet
<1>3. Manifest(tool) \in ToSet(Manifests)
  BY <1>2 DEF Manifest
<1> QED BY <1>1, <1>3 DEF ToSet

\* The arguments of arg entry, one by one.
LEMMA BuiltArgs ==
  ASSUME NEW tool \in Name, NEW values, NEW arg \in ToSet(Manifest(tool).args)
  PROVE  LET args == BuildArgs(tool, values) IN
         /\ arg.name \in DOMAIN args <=> ~Omitted(arg, values[arg.name])
         /\ arg.name \in DOMAIN args => args[arg.name] = ArgValue(arg, values[arg.name])
<1> DEFINE said == {x \in ToSet(Manifest(tool).args) : ~Omitted(x, values[x.name])}
<1>1. \A x, y \in ToSet(Manifest(tool).args) : x.name = y.name => x = y
  BY ManifestShape DEF Distinct, ToSet
<1>2. BuildArgs(tool, values) = [a \in {x.name : x \in said} |->
                                   ArgValue(CHOOSE x \in said : x.name = a, values[a])]
  BY DEF BuildArgs
<1>3. arg.name \in {x.name : x \in said} <=> arg \in said
  BY <1>1
<1>4. arg \in said => (CHOOSE x \in said : x.name = arg.name) = arg
  BY <1>1
<1> HIDE DEF said
<1>5. arg.name \in DOMAIN BuildArgs(tool, values) <=> arg \in said
  BY <1>2, <1>3
<1>6. arg \in said => BuildArgs(tool, values)[arg.name] = ArgValue(arg, values[arg.name])
  BY <1>2, <1>3, <1>4
<1> QED BY <1>5, <1>6 DEF said

\* What the worker makes of them is what the composer made.
LEMMA EntryResolves ==
  ASSUME NEW tool, NEW values
  PROVE  LET args == BuildArgs(tool, values) IN
         ResolveDirectArgs(tool, BuildCommand(tool, args)) = args
<1>1. PICK args : args = BuildArgs(tool, values)
  OBVIOUS
<1>2. args = [a \in DOMAIN args |-> args[a]]
  BY <1>1 DEF BuildArgs
<1>3. CASE DOMAIN args = {}
  <2>1. args = NoArgs
    BY <1>2, <1>3 DEF NoArgs
  <2> QED BY <1>1, <1>3, <2>1 DEF ResolveDirectArgs, BuildCommand, Command
<1>4. CASE DOMAIN args # {}
  BY <1>1, <1>4 DEF ResolveDirectArgs, BuildCommand, Command
<1> QED BY <1>3, <1>4

\* A single text for a tool of at most one argument becomes that argument.
LEMMA FreehandResolves ==
  ASSUME NEW tool \in Name, Len(Manifest(tool).args) <= 1, NEW a \in ArgNames(tool),
         NEW rest \in Text \ {"blank", "object"}
  PROVE  LET args == ResolveDirectArgs(tool, Command(tool, rest, NoArgs)) IN
         a \in DOMAIN args /\ args[a].of = rest
<1>1. SingleArg(tool)
  <2>1. PICK arg \in ToSet(Manifest(tool).args) : TRUE
    BY DEF ArgNames
  <2>2. PICK i \in DOMAIN Manifest(tool).args : TRUE
    BY <2>1 DEF ToSet
  <2>3. PICK n : n = Len(Manifest(tool).args)
    OBVIOUS
  <2>4. i \in 1..n /\ n \in Nat /\ n <= 1
    BY <2>3, ManifestShape DEF Distinct
  <2>5. n = 1
    BY <2>4
  <2> QED BY <2>3, <2>5, Zenon DEF SingleArg
<1>2. rest \in {"words", "list", "commas"}
  BY DEF Text
<1>3. ResolveDirectArgs(tool, Command(tool, rest, NoArgs)) =
        [x \in ArgNames(tool) |-> [as |-> "text", of |-> rest]]
  BY <1>1, <1>2 DEF ResolveDirectArgs, Command
<1> QED BY <1>3

-----------------------------------------------------------------------------
LEMMA ComposerInvInit == ComposerInit => ComposerInv
  BY DEF ComposerInit, ComposerInv

\* A submission says how it was made.
LEMMA SubmitStep ==
  ASSUME NEW content, NEW via, NEW tool, NEW fields, Submit(content, via, tool, fields),
         via = "argEntry" => content = BuildCommand(tool, BuildArgs(tool, fields)),
         via = "freehand" =>
           \E rest :
             /\ content = Command(tool, rest, NoArgs)
             /\ fields = [a \in ArgNames(tool) |-> rest]
             /\ ReadOnly(tool) /\ Len(Manifest(tool).args) <= 1
  PROVE  Posted(message') /\ UNCHANGED enabled
<1>1. message' = [state |-> "posted", content |-> content, via |-> via, tool |-> tool,
                  fields |-> fields, ran |-> NoTool, args |-> NoArgs]
  BY DEF Submit
<1>2. message' = [x \in MessageFields |-> message'[x]]
  BY <1>1 DEF MessageFields
<1>3. /\ message'.content = content /\ message'.via = via /\ message'.tool = tool
      /\ message'.fields = fields
  BY <1>1
<1> QED BY <1>2, <1>3 DEF Posted, Submit

\* The dispatch of a message, and nothing else, changes its state; what it says
\* stays.
LEMMA ComposerStep ==
  ASSUME ComposerInv, [ComposerNext]_composerVars
  PROVE  ComposerInv' /\ (Dispatched => Dispatches)
<1>1. CASE UNCHANGED composerVars
  BY <1>1 DEF composerVars, ComposerInv, Posted, Dispatched
<1>2. CASE Escapes \/ Fetches \/ (\E draft \in Draft : Changes(draft))
           \/ (\E i \in DOMAIN Manifests : Highlights(i) \/ Picks(i))
           \/ (\E a \in ArgNames(selectedTool), text \in Text : Fills(a, text))
           \/ (EnterOnPicker /\ ~Freehand)
  <2>1. UNCHANGED <<enabled, message>>
    BY <1>2 DEF Escapes, Fetches, Changes, Highlights, Picks, Fills, EnterOnPicker, EnterArgEntry
  <2> QED BY <2>1 DEF ComposerInv, Posted, Dispatched
<1>3. CASE Redeploys
  BY <1>3 DEF Redeploys, ComposerInv, Posted, Dispatched
<1>4. CASE EnterOnPicker /\ Freehand
  <2>1. PICK content, fields :
          /\ content = Command(value.token, value.rest, NoArgs)
          /\ fields = [a \in ArgNames(value.token) |-> value.rest]
    OBVIOUS
  <2>2. Submit(content, "freehand", value.token, fields) /\ message = NoMessage
    BY <1>4, <2>1 DEF EnterOnPicker, Usable
  <2>3. Posted(message') /\ UNCHANGED enabled
    BY <1>4, <2>1, <2>2, SubmitStep DEF Freehand
  <2> QED BY <2>2, <2>3 DEF ComposerInv, Dispatched
<1>5. CASE SubmitDraft
  <2>1. Submit(Trimmed(value), "draft", NoTool, NoArgs) /\ message = NoMessage
    BY <1>5 DEF SubmitDraft, Usable
  <2>2. Posted(message') /\ UNCHANGED enabled
    BY <2>1, SubmitStep
  <2> QED BY <2>1, <2>2 DEF ComposerInv, Dispatched
<1>6. CASE SubmitArgs
  <2>1. PICK content : content = BuildCommand(selectedTool, BuildArgs(selectedTool, argValues))
    OBVIOUS
  <2>2. Submit(content, "argEntry", selectedTool, argValues) /\ message = NoMessage
    BY <1>6, <2>1 DEF SubmitArgs, Usable
  <2>3. Posted(message') /\ UNCHANGED enabled
    BY <2>1, <2>2, SubmitStep
  <2> QED BY <2>2, <2>3 DEF ComposerInv, Dispatched
<1>7. CASE Dispatches
  <2>1. Posted(message) /\ UNCHANGED enabled
    BY <1>7 DEF Dispatches, ComposerInv
  <2>2. \E state, ran, args : message' = [message EXCEPT !.state = state, !.ran = ran, !.args = args]
    BY <1>7 DEF Dispatches
  <2>3. message' = [x \in MessageFields |-> message'[x]]
    BY <2>1, <2>2 DEF Posted, MessageFields
  <2>4. \A x \in {"content", "via", "tool", "fields"} : message'[x] = message[x]
    BY <2>1, <2>2 DEF Posted, MessageFields
  <2>5. Posted(message')
    BY <2>1, <2>3, <2>4 DEF Posted
  <2> QED BY <1>7, <2>1, <2>5 DEF ComposerInv
<1>8. CASE TurnOver
  BY <1>8 DEF TurnOver, ComposerInv, Dispatched
<1> QED BY <1>1, <1>2, <1>3, <1>4, <1>5, <1>6, <1>7, <1>8 DEF ComposerNext

\* What a dispatch makes of a message.
LEMMA DispatchStep ==
  ASSUME ComposerInv, Dispatches
  PROVE  /\ Posted(message)
         /\ \A x \in {"content", "via", "tool", "fields"} : message'[x] = message[x]
         /\ LET content == message.content
                direct  == content.kind = "slash" /\ content.token \in enabled
            IN  /\ message'.state = IF direct THEN "tool" ELSE "model"
                /\ direct => message'.ran = content.token
                /\ direct => message'.args = ResolveDirectArgs(content.token, content)
<1>1. Posted(message) /\ DOMAIN message = MessageFields
  BY DEF Dispatches, ComposerInv, Posted
<1> QED BY <1>1 DEF Dispatches, MessageFields

LEMMA ComposerInvHolds == ComposerSpec => []ComposerInv
<1>1. ComposerInit => ComposerInv
  BY ComposerInvInit
<1>2. ComposerInv /\ [ComposerNext]_composerVars => ComposerInv'
  BY ComposerStep
<1> QED BY <1>1, <1>2, PTL DEF ComposerSpec

\* The picked tool runs with what its fields say, however the text looks, unless
\* the tool was disabled since.
THEOREM EntryRuns == ComposerSpec => RunsWhatWasEntered
<1> DEFINE Runs ==
      Dispatched /\ message.via = "argEntry" =>
       IF message.tool \notin enabled THEN message'.state = "model"
       ELSE /\ message'.ran = message.tool
            /\ \A arg \in ToSet(Manifest(message.tool).args) :
                 LET said == message.fields[arg.name] IN
                 IF said = "blank" \/ (said = "commas" /\ arg.type = "array")
                 THEN arg.name \notin DOMAIN message'.args
                 ELSE /\ arg.name \in DOMAIN message'.args
                      /\ message'.args[arg.name].of = said
                      /\ message'.args[arg.name].as = "items" <=> arg.type = "array"
<1>1. ComposerInv /\ [ComposerNext]_composerVars => Runs
  <2> SUFFICES ASSUME ComposerInv, [ComposerNext]_composerVars, Dispatched, message.via = "argEntry"
               PROVE  Runs
    OBVIOUS
  <2>1. PICK tool, fields, args :
           tool = message.tool /\ fields = message.fields /\ args = BuildArgs(tool, fields)
    OBVIOUS
  <2>2. Dispatches
    BY ComposerStep
  <2>3. message.content = BuildCommand(tool, args)
    BY <2>1, <2>2, DispatchStep DEF Posted
  <2>4. message.content.kind = "slash" /\ message.content.token = tool
    BY <2>3 DEF BuildCommand, Command
  <2>5. message'.state = (IF tool \in enabled THEN "tool" ELSE "model")
        /\ (tool \in enabled =>
              message'.ran = tool /\ message'.args = ResolveDirectArgs(tool, message.content))
    BY <2>2, <2>4, DispatchStep
  <2>6. CASE tool \notin enabled
    BY <2>1, <2>5, <2>6
  <2>7. CASE tool \in enabled
    <3>1. tool \in Name
      BY <2>7, Deployed DEF ComposerInv
    <3>2. message'.ran = tool /\ message'.args = args
      BY <2>1, <2>3, <2>5, <2>7, EntryResolves
    <3>3. ASSUME NEW arg \in ToSet(Manifest(tool).args)
          PROVE  IF fields[arg.name] = "blank" \/ (fields[arg.name] = "commas" /\ arg.type = "array")
                 THEN arg.name \notin DOMAIN args
                 ELSE /\ arg.name \in DOMAIN args
                      /\ args[arg.name].of = fields[arg.name]
                      /\ args[arg.name].as = "items" <=> arg.type = "array"
      <4>1. /\ arg.name \in DOMAIN args <=> ~Omitted(arg, fields[arg.name])
            /\ arg.name \in DOMAIN args => args[arg.name] = ArgValue(arg, fields[arg.name])
        BY <2>1, <3>1, BuiltArgs
      <4> QED BY <4>1 DEF Omitted, ArgValue
    <3> QED BY <2>1, <2>7, <3>2, <3>3
  <2> QED BY <2>6, <2>7
<1>2. ComposerSpec => [][Runs]_composerVars
  <2> HIDE DEF Runs
  <2> QED BY <1>1, ComposerInvHolds, PTL DEF ComposerSpec
<1> QED BY <1>2 DEF RunsWhatWasEntered

\* Enter on the open picker runs a read-only tool, with the text it was given.
THEOREM EnterOnlyReads == ComposerSpec => FreehandReadsOnly
<1> DEFINE Reads ==
      Dispatched /\ message.via = "freehand" /\ message'.state = "tool" =>
       /\ ReadOnly(message'.ran) /\ message'.ran = message.tool
       /\ \A a \in ArgNames(message.tool) :
            message.fields[a] \in Text \ {"blank", "object"} =>
              a \in DOMAIN message'.args /\ message'.args[a].of = message.fields[a]
<1>1. ComposerInv /\ [ComposerNext]_composerVars => Reads
  <2> SUFFICES ASSUME ComposerInv, [ComposerNext]_composerVars, Dispatched,
                      message.via = "freehand", message'.state = "tool"
               PROVE  Reads
    OBVIOUS
  <2>1. Dispatches
    BY ComposerStep
  <2>2. PICK tool : tool = message.tool
    OBVIOUS
  <2>3. PICK rest :
          /\ message.content = Command(tool, rest, NoArgs)
          /\ message.fields = [a \in ArgNames(tool) |-> rest]
          /\ ReadOnly(tool) /\ Len(Manifest(tool).args) <= 1
    BY <2>1, <2>2, DispatchStep DEF Posted
  <2>4. message.content.kind = "slash" /\ message.content.token = tool
    BY <2>3 DEF Command
  <2>5. tool \in enabled /\ message'.ran = tool
        /\ message'.args = ResolveDirectArgs(tool, message.content)
    BY <2>1, <2>4, DispatchStep
  <2>6. tool \in Name
    BY <2>5, Deployed DEF ComposerInv
  <2>7. ASSUME NEW a \in ArgNames(tool), message.fields[a] \in Text \ {"blank", "object"}
        PROVE  a \in DOMAIN message'.args /\ message'.args[a].of = message.fields[a]
    <3>1. message.fields[a] = rest
      BY <2>3
    <3> QED BY <2>3, <2>5, <2>6, <2>7, <3>1, FreehandResolves
  <2> QED BY <2>2, <2>3, <2>5, <2>7
<1>2. ComposerSpec => [][Reads]_composerVars
  <2> HIDE DEF Reads
  <2> QED BY <1>1, ComposerInvHolds, PTL DEF ComposerSpec
<1> QED BY <1>2 DEF FreehandReadsOnly
=============================================================================
