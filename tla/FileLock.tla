------------------------------ MODULE FileLock ------------------------------
(***************************************************************************)
(* Tool calls of write_file and edit_file that change the same files from  *)
(* several worker processes, and the file_locks rows they coordinate       *)
(* through (packages/worker/src/tools/file-lock.ts, write-file.ts,         *)
(* edit-file.ts, atomic-write.ts, and the lock statements of db.ts).       *)
(*                                                                         *)
(* A file's content is the set of its lines; an edit replaces one line and *)
(* a write replaces them all.  A path may be a symbolic link to another    *)
(* one that is none.  Each call runs in a process of its own, under the    *)
(* owner token randomUUID() gave it, so a token is named by its call.      *)
(***************************************************************************)
EXTENDS Naturals

CONSTANTS
  Path, Line, Call,
  ToolOf,      \* the tool each call runs: "write" or "edit"
  PathOf,      \* the path argument
  OldLine,     \* an edit's old_string
  NewLine,     \* an edit's new_string; the one line a write leaves
  InitFile,    \* the files and links before any call
  InitLink,
  Absent,      \* no regular file at a path
  NoLink,      \* no symbolic link at a path
  NoHash,      \* expected_hash left out
  NoCall       \* no file_locks row for a key

Content == SUBSET Line

ASSUME FileLockAssumption ==
  /\ ToolOf \in [Call -> {"write", "edit"}]
  /\ PathOf \in [Call -> Path]
  /\ OldLine \in [Call -> Line] /\ NewLine \in [Call -> Line]
  /\ InitFile \in [Path -> {Absent} \cup Content]
  /\ InitLink \in [Path -> Path \cup {NoLink}]
  /\ \A p \in Path : InitLink[p] \in Path => InitLink[InitLink[p]] = NoLink
  /\ \A old \in Content : old # Absent /\ old # NoHash
  /\ NoHash # Absent
  /\ NoLink \notin Path /\ NoCall \notin Call

VARIABLES
  \* the shared directory
  file, link,
  \* the file_locks table, by lock_key
  owner, expired,
  \* each tool call
  stage, key, late, expected, snapshot, lost, deaf, outcome,
  \* history, read by no action: a holder's process has missed its lease; a
  \* call went into its read-modify-write, or was in it, with another key
  \* than its path had by then
  stalled, misled

fileVars == <<file, link>>
lockVars == <<owner, expired>>
lockedVars == <<file, link, owner, expired, stage, key, late, expected, snapshot, lost, deaf, outcome, stalled, misled>>

Holding == {"locked", "read", "writing", "renamed"}
Changing == {"locked", "read", "writing"}
Stage   == {"idle", "waiting", "releasing", "returned", "dead"} \cup Holding
Outcome == {"none", "ok", "refused", "aborted", "untrusted", "timeout", "failed"}

LockTypeOK ==
  /\ file \in [Path -> {Absent} \cup Content]
  /\ link \in [Path -> Path \cup {NoLink}]
  /\ owner \in [Path -> Call \cup {NoCall}]
  /\ expired \in [Path -> BOOLEAN]
  /\ stage \in [Call -> Stage]
  /\ key \in [Call -> Path]
  /\ late \in [Call -> BOOLEAN]
  /\ expected \in [Call -> {Absent, NoHash} \cup Content]
  /\ snapshot \in [Call -> {Absent} \cup Content]
  /\ lost \in [Call -> BOOLEAN]
  /\ deaf \in [Call -> BOOLEAN]
  /\ outcome \in [Call -> Outcome]
  /\ stalled \in BOOLEAN /\ misled \in BOOLEAN

LockInit ==
  /\ file = InitFile
  /\ link = InitLink
  /\ owner = [k \in Path |-> NoCall]
  /\ expired = [k \in Path |-> FALSE]
  /\ stage = [c \in Call |-> "idle"]
  /\ key = PathOf
  /\ late = [c \in Call |-> FALSE]
  /\ expected = [c \in Call |-> NoHash]
  /\ snapshot = [c \in Call |-> Absent]
  /\ lost = [c \in Call |-> FALSE]
  /\ deaf = [c \in Call |-> FALSE]
  /\ outcome = [c \in Call |-> "none"]
  /\ stalled = FALSE /\ misled = FALSE

\* What fs.readFile of a path returns: links are followed.
Reading(p) == IF link[p] \in Path THEN file[link[p]] ELSE file[p]

\* realpath, or the path itself when there is nothing at its end.
CanonicalLockKey(p) ==
  IF link[p] \in Path /\ file[link[p]] # Absent THEN link[p] ELSE p

\* Some call that is to change a file holds the lock of another key.
Misled ==
  \E c \in Call : stage[c] \in Changing /\ key[c] # CanonicalLockKey(PathOf[c])

\* The file a call leaves, given the one it read.
Result(c, old) ==
  IF ToolOf[c] = "edit" THEN (old \ {OldLine[c]}) \cup {NewLine[c]} ELSE {NewLine[c]}

\* Mutant: a write's expected_hash is never compared.
AnchorOnly(c, old) == ToolOf[c] = "edit" => old # Absent /\ OldLine[c] \in old

\* What the call checks inside the lock: the anchor of an edit, the
\* precondition of a write on a file that exists.
Applies(c, old) ==
  IF ToolOf[c] = "edit"
    THEN old # Absent /\ OldLine[c] \in old
    ELSE old = Absent \/ expected[c] = NoHash \/ expected[c] = old

(***************************************************************************)
(* Outside the lock.                                                       *)
(***************************************************************************)

\* The model reads a file and keeps the hash of what it saw for a write.
SeeFile(c) ==
  /\ stage[c] = "idle"
  /\ ToolOf[c] = "write"
  /\ expected' = [expected EXCEPT ![c] = Reading(PathOf[c])]
  /\ expected[c] # Reading(PathOf[c])
  /\ Reading(PathOf[c]) # Absent
  /\ UNCHANGED <<file, link, owner, expired, stage, key, late, snapshot, lost, deaf, outcome, stalled, misled>>

\* execute() up to withFileLock: the lock key is taken from the directory
\* as it is now, before the lock is.
Begin(c) ==
  /\ stage[c] = "idle"
  /\ stage' = [stage EXCEPT ![c] = "waiting"]
  /\ key' = [key EXCEPT ![c] = CanonicalLockKey(PathOf[c])]
  /\ UNCHANGED <<file, link, owner, expired, late, expected, snapshot, lost, deaf, outcome, stalled, misled>>

\* Mutant: a lease that never expires.
FreeWhenGone(k) == owner[k] = NoCall

\* Where the ON CONFLICT ... WHERE expires_at < now() lets the row be taken.
Free(k) == owner[k] = NoCall \/ expired[k]

TakeRow(c) ==
  /\ owner' = [owner EXCEPT ![key[c]] = c]
  /\ expired' = [expired EXCEPT ![key[c]] = FALSE]

Acquire(c) ==
  /\ stage[c] = "waiting"
  /\ Free(key[c])
  /\ TakeRow(c)
  /\ stage' = [stage EXCEPT ![c] = "locked"]
  /\ UNCHANGED <<file, link, key, late, expected, snapshot, lost, deaf, outcome, stalled>>
  /\ misled' = (misled \/ Misled')

\* acquireTimeoutMs passes; the loop tries once more before it gives up.
DeadlinePasses(c) ==
  /\ stage[c] = "waiting"
  /\ ~late[c]
  /\ late' = [late EXCEPT ![c] = TRUE]
  /\ UNCHANGED <<file, link, owner, expired, stage, key, expected, snapshot, lost, deaf, outcome, stalled, misled>>

GiveUp(c) ==
  /\ stage[c] = "waiting"
  /\ ~Free(key[c])
  /\ late[c]
  /\ stage' = [stage EXCEPT ![c] = "returned"]
  /\ outcome' = [outcome EXCEPT ![c] = "timeout"]
  /\ UNCHANGED <<file, link, owner, expired, key, late, expected, snapshot, lost, deaf, stalled, misled>>

\* The acquire statement fails: before it ran, or after it took the row.
AcquireFails(c) ==
  /\ stage[c] = "waiting"
  /\ UNCHANGED lockVars \/ (Free(key[c]) /\ TakeRow(c))
  /\ stage' = [stage EXCEPT ![c] = "returned"]
  /\ outcome' = [outcome EXCEPT ![c] = "failed"]
  /\ UNCHANGED <<file, link, key, late, expected, snapshot, lost, deaf, stalled, misled>>

(***************************************************************************)
(* Under the lock.                                                         *)
(***************************************************************************)

\* Mutant: the loss is not looked at once fn is over.
LeaveUnchecked(c, result) ==
  /\ outcome' = [outcome EXCEPT ![c] = result]
  /\ stage' = [stage EXCEPT ![c] = IF lost[c] THEN "returned" ELSE "releasing"]

\* fn is over with this result: a loss the heartbeat heard of is reported
\* in place of a success, and the finally block skips the release then.
Leave(c, result) ==
  /\ outcome' = [outcome EXCEPT ![c] = IF result = "ok" /\ lost[c] THEN "untrusted" ELSE result]
  /\ stage' = [stage EXCEPT ![c] = IF lost[c] THEN "returned" ELSE "releasing"]

\* Mutant: the lock is given back once the file is read.
ReadThenUnlock(c) ==
  /\ stage[c] = "locked"
  /\ snapshot' = [snapshot EXCEPT ![c] = Reading(PathOf[c])]
  /\ owner' = [owner EXCEPT ![key[c]] = NoCall]
  /\ stage' = [stage EXCEPT ![c] = "read"]
  /\ UNCHANGED <<file, link, expired, key, late, expected, lost, deaf, outcome, stalled, misled>>

ReadUnderLock(c) ==
  /\ stage[c] = "locked"
  /\ snapshot' = [snapshot EXCEPT ![c] = Reading(PathOf[c])]
  /\ stage' = [stage EXCEPT ![c] = "read"]
  /\ UNCHANGED <<file, link, owner, expired, key, late, expected, lost, deaf, outcome, stalled, misled>>

Validate(c) ==
  /\ stage[c] = "read"
  /\ \/ Applies(c, snapshot[c]) /\ ~lost[c]
        /\ stage' = [stage EXCEPT ![c] = "writing"] /\ UNCHANGED outcome
     \/ Applies(c, snapshot[c]) /\ lost[c] /\ Leave(c, "aborted")
     \/ ~Applies(c, snapshot[c]) /\ Leave(c, "refused")
  /\ UNCHANGED <<file, link, owner, expired, key, late, expected, snapshot, lost, deaf, stalled, misled>>

\* writeFileAtomic: the temporary file becomes the path's own entry, which
\* replaces a link and leaves the file it pointed at.
Rename(c) ==
  /\ stage[c] = "writing"
  /\ file' = [file EXCEPT ![PathOf[c]] = Result(c, snapshot[c])]
  /\ link' = [link EXCEPT ![PathOf[c]] = NoLink]
  /\ stage' = [stage EXCEPT ![c] = "renamed"]
  /\ UNCHANGED <<owner, expired, key, late, expected, snapshot, lost, deaf, outcome, stalled>>
  /\ misled' = (misled \/ Misled')

\* mkdir, the temporary file's write or the rename throws.
WriteFails(c) ==
  /\ stage[c] = "writing"
  /\ Leave(c, "failed")
  /\ UNCHANGED <<file, link, owner, expired, key, late, expected, snapshot, lost, deaf, stalled, misled>>

FinishWrite(c) ==
  /\ stage[c] = "renamed"
  /\ Leave(c, "ok")
  /\ UNCHANGED <<file, link, owner, expired, key, late, expected, snapshot, lost, deaf, stalled, misled>>

\* Mutant: the DELETE names the key and not the token.
ReleaseAny(c) ==
  /\ stage[c] = "releasing"
  /\ owner' = [owner EXCEPT ![key[c]] = NoCall]
  /\ expired' = [expired EXCEPT ![key[c]] = FALSE]
  /\ stage' = [stage EXCEPT ![c] = "returned"]
  /\ UNCHANGED <<file, link, key, late, expected, snapshot, lost, deaf, outcome, stalled, misled>>

\* The DELETE, and its error swallowed.
Release(c) ==
  /\ stage[c] = "releasing"
  /\ IF owner[key[c]] = c THEN
          /\ owner' = [owner EXCEPT ![key[c]] = NoCall]
          /\ expired' = [expired EXCEPT ![key[c]] = FALSE]
     ELSE UNCHANGED lockVars
  /\ stage' = [stage EXCEPT ![c] = "returned"]
  /\ UNCHANGED <<file, link, key, late, expected, snapshot, lost, deaf, outcome, stalled, misled>>

ReleaseFails(c) ==
  /\ stage[c] = "releasing"
  /\ stage' = [stage EXCEPT ![c] = "returned"]
  /\ UNCHANGED <<file, link, owner, expired, key, late, expected, snapshot, lost, deaf, outcome, stalled, misled>>

(***************************************************************************)
(* The heartbeat: the statement runs, and its answer comes back later.     *)
(* deaf says that an answer of "not yours" is on its way.                  *)
(***************************************************************************)
HeartbeatOn(c) == stage[c] \in Holding

Renew(c) ==
  /\ HeartbeatOn(c)
  /\ IF owner[key[c]] = c
       THEN expired' = [expired EXCEPT ![key[c]] = FALSE] /\ UNCHANGED deaf
       ELSE deaf' = [deaf EXCEPT ![c] = TRUE] /\ UNCHANGED expired
  /\ UNCHANGED <<file, link, owner, stage, key, late, expected, snapshot, lost, outcome, stalled, misled>>

HearLoss(c) ==
  /\ HeartbeatOn(c)
  /\ deaf[c]
  /\ ~lost[c]
  /\ lost' = [lost EXCEPT ![c] = TRUE]
  /\ UNCHANGED <<file, link, owner, expired, stage, key, late, expected, snapshot, deaf, outcome, stalled, misled>>

\* Time passes the expires_at of a row that nobody renews.
Lapse(k) ==
  /\ owner[k] # NoCall
  /\ ~expired[k]
  /\ ~HeartbeatOn(owner[k])
  /\ expired' = [expired EXCEPT ![k] = TRUE]
  /\ UNCHANGED <<file, link, owner, stage, key, late, expected, snapshot, lost, deaf, outcome, stalled, misled>>

\* It passes that of a holder whose process stalls, or whose renewals all
\* fail, for a whole lease.
Stall(k) ==
  /\ owner[k] # NoCall
  /\ ~expired[k]
  /\ HeartbeatOn(owner[k])
  /\ expired' = [expired EXCEPT ![k] = TRUE]
  /\ stalled' = TRUE
  /\ UNCHANGED <<file, link, owner, stage, key, late, expected, snapshot, lost, deaf, outcome, misled>>

Crash(c) ==
  /\ stage[c] \notin {"idle", "returned", "dead"}
  /\ stage' = [stage EXCEPT ![c] = "dead"]
  /\ UNCHANGED <<file, link, owner, expired, key, late, expected, snapshot, lost, deaf, outcome, stalled, misled>>

Finished == /\ \A c \in Call : stage[c] \in {"returned", "dead"}
            /\ UNCHANGED lockedVars

CallStep(c) ==
  \/ SeeFile(c) \/ Begin(c)
  \/ Acquire(c) \/ DeadlinePasses(c) \/ GiveUp(c) \/ AcquireFails(c)
  \/ ReadUnderLock(c) \/ Validate(c)
  \/ Rename(c) \/ WriteFails(c) \/ FinishWrite(c)
  \/ Release(c) \/ ReleaseFails(c)
  \/ Renew(c) \/ HearLoss(c) \/ Crash(c)

LockNext ==
  \/ \E c \in Call : CallStep(c)
  \/ \E k \in Path : Lapse(k) \/ Stall(k)
  \/ Finished

\* A live process takes its next step, clocks run; crashes, failures and
\* stalls need never happen.
LockFairness ==
  /\ \A c \in Call :
       /\ WF_lockedVars(Acquire(c) \/ GiveUp(c)) /\ WF_lockedVars(DeadlinePasses(c))
       /\ WF_lockedVars(ReadUnderLock(c)) /\ WF_lockedVars(Validate(c))
       /\ WF_lockedVars(Rename(c)) /\ WF_lockedVars(FinishWrite(c)) /\ WF_lockedVars(Release(c))
       /\ WF_lockedVars(Renew(c))
  /\ \A k \in Path : WF_lockedVars(Lapse(k))

LockSpec     == LockInit /\ [][LockNext]_lockedVars
FairLockSpec == LockSpec /\ LockFairness

(***************************************************************************)
(* Properties.                                                             *)
(***************************************************************************)

\* As long as no process has stalled past its lease, two calls that lock
\* the same key are never both between their acquire and the end of their
\* read-modify-write.
OneHolder ==
  \A c, d \in Call :
    stage[c] \in Holding /\ stage[d] \in Holding /\ key[c] = key[d] => c = d \/ stalled

\* The locks held so far covered the files they were taken for.
KeysTrue == ~stalled /\ ~misled

\* As long as besides no lock was got with an outdated key, no call has
\* renamed its result over another content than it read and checked,
\* through a link or not and whatever renames have done to the links: no
\* change of another tool call is silently discarded.
WrittenOverWhatWasRead ==
  [][\A c \in Call : stage[c] = "writing" /\ stage'[c] = "renamed" /\ KeysTrue
       => snapshot[c] = Reading(PathOf[c])]_lockedVars

\* Nor has a write that names an expected_hash replaced a file that holds
\* anything else than what the model had seen.
ExpectedOrRefused ==
  [][\A c \in Call : stage[c] = "writing" /\ stage'[c] = "renamed" /\ expected[c] # NoHash /\ KeysTrue
       => Reading(PathOf[c]) \in {expected[c], Absent}]_lockedVars

\* Stalls allowed: a call that heard that its lock went to another owner
\* never returns a success (withFileLock's guarantee (2)).
ObservedLossNeverOk == \A c \in Call : lost[c] => outcome[c] # "ok"

\* Stalls allowed: a row nobody may take yet only goes away by its owner's
\* own release, and never changes hands.
LiveLockKept ==
  [][\A k \in Path : owner[k] # NoCall /\ ~expired[k] /\ owner'[k] # owner[k]
       => owner'[k] = NoCall /\ stage[owner[k]] = "releasing"]_lockedVars

\* A call returns, with a timeout if it must, whatever the others do.
EveryCallReturns ==
  \A c \in Call : stage[c] = "waiting" ~> stage[c] \in {"returned", "dead"}

\* In the end every path can be locked again: a crashed holder, a failed
\* release and an acquire whose answer was lost included.
EveryLockFrees == <>[](\A k \in Path : Free(k))

\* docs/FEATURE-multi-conversation-harness-analysis.md 150-151: a holder
\* whose lease was reclaimed is never told it succeeded.
ReclaimedNeverOk ==
  [][\A c \in Call : stage[c] = "renamed" /\ outcome'[c] = "ok" => owner[key[c]] = c]_lockedVars
=============================================================================
