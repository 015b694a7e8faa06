--------------------------- MODULE FileLockProofs ---------------------------
(***************************************************************************)
(* What FileLock promises for every set of calls, paths, links and lines:  *)
(* the promises that survive stalls, and, as long as no process has        *)
(* stalled and no lock was got with an outdated key, that each call's      *)
(* read-modify-write is atomic with respect to the others.                 *)
(***************************************************************************)
EXTENDS FileLock, TLAPS

(***************************************************************************)
(* Any instance.  The type invariant is not inductive by itself: that a    *)
(* rename leaves a set of lines needs the checks that precede it.          *)
(***************************************************************************)
ValidBeforeWrite == \A c \in Call : stage[c] = "writing" => Applies(c, snapshot[c])

\* A success is final, and decided while no loss was known.
OkUnlost == \A c \in Call : outcome[c] = "ok" => ~lost[c] /\ stage[c] \in {"releasing", "returned", "dead"}

HashOnlyForWrites == \A c \in Call : expected[c] # NoHash => ToolOf[c] = "write"

LockInv == LockTypeOK /\ ValidBeforeWrite /\ OkUnlost /\ HashOnlyForWrites

\* The file a checked edit or write leaves is a set of lines.
LEMMA ResultType ==
  ASSUME NEW c \in Call, NEW old \in {Absent} \cup Content, Applies(c, old)
  PROVE  Result(c, old) \in Content
  BY FileLockAssumption DEF Applies, Result, Content

\* Reading a path and deriving its key stay within the directory.
LEMMA PathTypes ==
  ASSUME LockTypeOK, NEW p \in Path
  PROVE  Reading(p) \in {Absent} \cup Content /\ CanonicalLockKey(p) \in Path
  BY FileLockAssumption DEF LockTypeOK, Reading, CanonicalLockKey

\* The note an action takes is a truth value.
LEMMA MisledType ==
  ASSUME misled' = (misled \/ Misled')
  PROVE  misled' \in BOOLEAN
  BY Zenon DEF Misled

\* Every step of a call keeps the variables in their ranges.
LEMMA CallTypeStep ==
  ASSUME LockInv, NEW c \in Call, CallStep(c)
  PROVE  LockTypeOK'
<1> USE FileLockAssumption DEF LockInv, LockTypeOK, Stage, Holding, Outcome
<1>1. CASE SeeFile(c)
  BY <1>1, PathTypes DEF SeeFile
<1>2. CASE Begin(c)
  BY <1>2, PathTypes DEF Begin
<1>3. CASE Acquire(c)
  <2>1. misled' \in BOOLEAN
    BY <1>3, MisledType DEF Acquire
  <2>2. /\ owner' \in [Path -> Call \cup {NoCall}] /\ expired' \in [Path -> BOOLEAN]
        /\ stage' \in [Call -> Stage]
        /\ UNCHANGED <<file, link, key, late, expected, snapshot, lost, deaf, outcome, stalled>>
    BY <1>3 DEF Acquire, TakeRow
  <2> QED BY <2>1, <2>2
<1>4. CASE AcquireFails(c)
  <2>1. owner' \in [Path -> Call \cup {NoCall}] /\ expired' \in [Path -> BOOLEAN]
    <3>1. CASE UNCHANGED lockVars
      BY <3>1 DEF lockVars
    <3>2. CASE TakeRow(c)
      BY <3>2 DEF TakeRow
    <3> QED BY <1>4, <3>1, <3>2 DEF AcquireFails
  <2> QED BY <1>4, <2>1 DEF AcquireFails
<1>5. CASE DeadlinePasses(c)
  BY <1>5 DEF DeadlinePasses
<1>6. CASE GiveUp(c)
  BY <1>6 DEF GiveUp
<1>7. CASE ReadUnderLock(c)
  BY <1>7, PathTypes DEF ReadUnderLock
<1>8. CASE Validate(c)
  BY <1>8 DEF Validate, Leave
<1>9. CASE WriteFails(c) \/ FinishWrite(c)
  BY <1>9 DEF WriteFails, FinishWrite, Leave
<1>10. CASE Rename(c)
  <2>1. Result(c, snapshot[c]) \in Content
    BY <1>10, ResultType DEF Rename, ValidBeforeWrite
  <2>2. misled' \in BOOLEAN
    BY <1>10, MisledType DEF Rename
  <2>3. /\ file' \in [Path -> {Absent} \cup Content] /\ link' \in [Path -> Path \cup {NoLink}]
        /\ stage' \in [Call -> Stage]
        /\ UNCHANGED <<owner, expired, key, late, expected, snapshot, lost, deaf, outcome, stalled>>
    BY <1>10, <2>1 DEF Rename
  <2> QED BY <2>2, <2>3
<1>11. CASE Release(c)
  <2>1. owner' \in [Path -> Call \cup {NoCall}] /\ expired' \in [Path -> BOOLEAN]
    BY <1>11 DEF Release, lockVars
  <2> QED BY <1>11, <2>1 DEF Release
<1>12. CASE ReleaseFails(c) \/ HearLoss(c) \/ Crash(c)
  BY <1>12 DEF ReleaseFails, HearLoss, Crash
<1>13. CASE Renew(c)
  BY <1>13 DEF Renew
<1> QED BY <1>1, <1>2, <1>3, <1>4, <1>5, <1>6, <1>7, <1>8, <1>9, <1>10, <1>11, <1>12, <1>13 DEF CallStep

\* What a step of one call leaves alone of another call's state.
LEMMA OtherCalls ==
  ASSUME LockTypeOK, NEW c \in Call, CallStep(c), NEW d \in Call, d # c
  PROVE  /\ stage'[d] = stage[d] /\ key'[d] = key[d] /\ snapshot'[d] = snapshot[d]
         /\ expected'[d] = expected[d] /\ lost'[d] = lost[d] /\ outcome'[d] = outcome[d]
<1> USE DEF LockTypeOK
<1>1. CASE SeeFile(c) \/ Begin(c) \/ DeadlinePasses(c) \/ GiveUp(c)
  BY <1>1 DEF SeeFile, Begin, DeadlinePasses, GiveUp
<1>2. CASE Acquire(c) \/ AcquireFails(c)
  BY <1>2 DEF Acquire, AcquireFails
<1>3. CASE ReadUnderLock(c) \/ Rename(c)
  BY <1>3 DEF ReadUnderLock, Rename
<1>4. CASE Validate(c) \/ WriteFails(c) \/ FinishWrite(c)
  BY <1>4 DEF Validate, WriteFails, FinishWrite, Leave
<1>5. CASE Release(c) \/ ReleaseFails(c) \/ Renew(c) \/ HearLoss(c) \/ Crash(c)
  BY <1>5 DEF Release, ReleaseFails, Renew, HearLoss, Crash
<1> QED BY <1>1, <1>2, <1>3, <1>4, <1>5 DEF CallStep

\* A call's own step keeps the parts of the invariant about it.
LEMMA OwnStep ==
  ASSUME LockInv, NEW c \in Call, CallStep(c)
  PROVE  /\ stage'[c] = "writing" => Applies(c, snapshot[c])'
         /\ outcome'[c] = "ok" => ~lost'[c] /\ stage'[c] \in {"releasing", "returned", "dead"}
         /\ expected'[c] # NoHash => ToolOf[c] = "write"
<1> USE DEF LockInv, LockTypeOK, ValidBeforeWrite, OkUnlost, HashOnlyForWrites, Holding, Applies
<1>1. CASE SeeFile(c) \/ Begin(c)
  BY <1>1 DEF SeeFile, Begin
<1>2. CASE DeadlinePasses(c) \/ GiveUp(c)
  BY <1>2 DEF DeadlinePasses, GiveUp
<1>3. CASE Acquire(c) \/ AcquireFails(c)
  BY <1>3 DEF Acquire, AcquireFails
<1>4. CASE ReadUnderLock(c) \/ Rename(c)
  BY <1>4 DEF ReadUnderLock, Rename
<1>5. CASE Validate(c)
  BY <1>5 DEF Validate, Leave
<1>6. CASE WriteFails(c) \/ FinishWrite(c)
  BY <1>6 DEF WriteFails, FinishWrite, Leave
<1>7. CASE Release(c) \/ ReleaseFails(c) \/ Crash(c)
  BY <1>7 DEF Release, ReleaseFails, Crash
<1>8. CASE Renew(c) \/ HearLoss(c)
  BY <1>8 DEF Renew, HearLoss, HeartbeatOn
<1> QED BY <1>1, <1>2, <1>3, <1>4, <1>5, <1>6, <1>7, <1>8 DEF CallStep

LEMMA LockInvStep == LockInv /\ [LockNext]_lockedVars => LockInv'
<1> SUFFICES ASSUME LockInv, [LockNext]_lockedVars PROVE LockInv'
  OBVIOUS
<1> USE DEF LockInv
<1>1. ASSUME NEW c \in Call, CallStep(c) PROVE LockInv'
  <2>1. LockTypeOK'
    BY <1>1, CallTypeStep
  <2>2. ValidBeforeWrite'
    BY <1>1, OwnStep, OtherCalls DEF ValidBeforeWrite, Applies
  <2>3. OkUnlost'
    BY <1>1, OwnStep, OtherCalls DEF OkUnlost
  <2>4. HashOnlyForWrites'
    BY <1>1, OwnStep, OtherCalls DEF HashOnlyForWrites
  <2> QED BY <2>1, <2>2, <2>3, <2>4
<1>2. ASSUME NEW k \in Path, Lapse(k) \/ Stall(k) PROVE LockInv'
  BY <1>2 DEF Lapse, Stall, LockTypeOK, ValidBeforeWrite, OkUnlost, HashOnlyForWrites, Applies
<1>3. CASE Finished \/ UNCHANGED lockedVars
  BY <1>3 DEF Finished, lockedVars, LockTypeOK, ValidBeforeWrite, OkUnlost, HashOnlyForWrites, Applies
<1> QED BY <1>1, <1>2, <1>3 DEF LockNext

LEMMA LockInvInit == LockInit => LockInv
<1> SUFFICES ASSUME LockInit PROVE LockInv
  OBVIOUS
<1>1. LockTypeOK
  BY FileLockAssumption DEF LockInit, LockTypeOK, Stage, Outcome
<1>2. ValidBeforeWrite /\ OkUnlost /\ HashOnlyForWrites
  BY DEF LockInit, ValidBeforeWrite, OkUnlost, HashOnlyForWrites
<1> QED BY <1>1, <1>2 DEF LockInv

LEMMA LockInvHolds == LockSpec => []LockInv
  BY LockInvInit, LockInvStep, PTL DEF LockSpec

\* Every variable keeps its type: a rename never leaves a file built from
\* the absence of one (edit_file's read inside the lock).
THEOREM LockTypeCorrect == LockSpec => []LockTypeOK
  BY LockInvHolds, PTL DEF LockInv

\* withFileLock never reports a success once the heartbeat has heard of the
\* loss, however the stalls, reclaims and renewals fall.
THEOREM LossIsReported == LockSpec => []ObservedLossNeverOk
<1>1. LockInv => ObservedLossNeverOk
  BY DEF LockInv, OkUnlost, ObservedLossNeverOk
<1> QED BY <1>1, LockInvHolds, PTL

\* A row under a live owner leaves it only by that owner's own release: a
\* late release, a renewal or an acquire of another token never touches it.
THEOREM LiveLockStays == LockSpec => LiveLockKept
<1> DEFINE Kept == \A k \in Path : owner[k] # NoCall /\ ~expired[k] /\ owner'[k] # owner[k]
                      => owner'[k] = NoCall /\ stage[owner[k]] = "releasing"
<1>1. LockInv /\ [LockNext]_lockedVars => Kept
  <2> SUFFICES ASSUME LockInv, [LockNext]_lockedVars, NEW k \in Path,
                      owner[k] # NoCall, ~expired[k], owner'[k] # owner[k]
               PROVE  owner'[k] = NoCall /\ stage[owner[k]] = "releasing"
    OBVIOUS
  <2> USE FileLockAssumption DEF LockInv, LockTypeOK
  <2>1. ASSUME NEW c \in Call, TakeRow(c), Free(key[c]) PROVE FALSE
    BY <2>1 DEF TakeRow, Free
  <2>2. ASSUME NEW c \in Call, CallStep(c)
        PROVE  owner'[k] = NoCall /\ stage[owner[k]] = "releasing"
    <3>1. CASE Release(c)
      BY <3>1 DEF Release, lockVars
    <3>2. CASE SeeFile(c) \/ Begin(c) \/ DeadlinePasses(c) \/ GiveUp(c)
      BY <3>2 DEF SeeFile, Begin, DeadlinePasses, GiveUp
    <3>3. CASE Acquire(c) \/ AcquireFails(c)
      BY <2>1, <3>3 DEF Acquire, AcquireFails, lockVars
    <3>4. CASE ReadUnderLock(c) \/ Validate(c) \/ Rename(c) \/ WriteFails(c) \/ FinishWrite(c)
      BY <3>4 DEF ReadUnderLock, Validate, Rename, WriteFails, FinishWrite
    <3>5. CASE ReleaseFails(c) \/ Renew(c) \/ HearLoss(c) \/ Crash(c)
      BY <3>5 DEF ReleaseFails, Renew, HearLoss, Crash
    <3> QED BY <2>2, <3>1, <3>2, <3>3, <3>4, <3>5 DEF CallStep
  <2>3. CASE \E p \in Path : Lapse(p) \/ Stall(p)
    BY <2>3 DEF Lapse, Stall
  <2>4. CASE Finished \/ UNCHANGED lockedVars
    BY <2>4 DEF Finished, lockedVars
  <2> QED BY <2>2, <2>3, <2>4 DEF LockNext
<1> QED BY <1>1, LockInvHolds, PTL DEF LockSpec, LiveLockKept

(***************************************************************************)
(* Until a process stalls.                                                 *)
(***************************************************************************)
HolderOwns ==
  \A c \in Call : stage[c] \in Holding /\ ~stalled => owner[key[c]] = c /\ ~expired[key[c]]

\* A stall is not forgotten.
LEMMA StallIsForEver ==
  ASSUME LockInv, [LockNext]_lockedVars, ~stalled'
  PROVE  ~stalled
<1>1. ASSUME NEW c \in Call, CallStep(c) PROVE stalled' = stalled
  <2>1. CASE SeeFile(c) \/ Begin(c) \/ DeadlinePasses(c) \/ GiveUp(c)
    BY <2>1 DEF SeeFile, Begin, DeadlinePasses, GiveUp
  <2>2. CASE Acquire(c) \/ AcquireFails(c) \/ Release(c) \/ ReleaseFails(c)
    BY <2>2 DEF Acquire, AcquireFails, Release, ReleaseFails
  <2>3. CASE ReadUnderLock(c) \/ Validate(c) \/ Rename(c) \/ WriteFails(c) \/ FinishWrite(c)
    BY <2>3 DEF ReadUnderLock, Validate, Rename, WriteFails, FinishWrite
  <2>4. CASE Renew(c) \/ HearLoss(c) \/ Crash(c)
    BY <2>4 DEF Renew, HearLoss, Crash
  <2> QED BY <1>1, <2>1, <2>2, <2>3, <2>4 DEF CallStep
<1> QED BY <1>1 DEF LockNext, Lapse, Stall, Finished, lockedVars

\* While it holds the lock a call's row stays its own and unexpired.
LEMMA HolderStep ==
  ASSUME LockInv, HolderOwns, [LockNext]_lockedVars
  PROVE  HolderOwns'
<1> SUFFICES ASSUME NEW d \in Call, stage'[d] \in Holding, ~stalled'
             PROVE  owner'[key'[d]] = d /\ ~expired'[key'[d]]
  BY DEF HolderOwns
<1>0. ~stalled
  BY StallIsForEver
<1> USE <1>0, FileLockAssumption DEF LockInv, LockTypeOK, HolderOwns, Holding
<1>1. ASSUME NEW c \in Call, CallStep(c), c # d
      PROVE  owner'[key'[d]] = d /\ ~expired'[key'[d]]
  <2>1. stage[d] \in Holding /\ key'[d] = key[d] /\ owner[key[d]] = d /\ ~expired[key[d]]
    BY <1>1, OtherCalls
  <2>2. ASSUME TakeRow(c), Free(key[c]) PROVE owner'[key[d]] = d /\ ~expired'[key[d]]
    BY <2>1, <2>2 DEF TakeRow, Free
  <2>3. CASE SeeFile(c) \/ Begin(c) \/ DeadlinePasses(c) \/ GiveUp(c)
    BY <2>1, <2>3 DEF SeeFile, Begin, DeadlinePasses, GiveUp
  <2>4. CASE Acquire(c) \/ AcquireFails(c)
    BY <2>1, <2>2, <2>4 DEF Acquire, AcquireFails, lockVars
  <2>5. CASE ReadUnderLock(c) \/ Validate(c) \/ Rename(c) \/ WriteFails(c) \/ FinishWrite(c)
    BY <2>1, <2>5 DEF ReadUnderLock, Validate, Rename, WriteFails, FinishWrite
  <2>6. CASE Release(c)
    BY <1>1, <2>1, <2>6 DEF Release, lockVars
  <2>7. CASE ReleaseFails(c) \/ Renew(c) \/ HearLoss(c) \/ Crash(c)
    BY <2>1, <2>7 DEF ReleaseFails, Renew, HearLoss, Crash
  <2> QED BY <1>1, <2>3, <2>4, <2>5, <2>6, <2>7 DEF CallStep
<1>2. CASE CallStep(d)
  <2>1. CASE Acquire(d)
    BY <2>1 DEF Acquire, TakeRow
  <2>2. CASE SeeFile(d) \/ Begin(d) \/ DeadlinePasses(d) \/ GiveUp(d) \/ AcquireFails(d)
    BY <2>2 DEF SeeFile, Begin, DeadlinePasses, GiveUp, AcquireFails
  <2>3. CASE ReadUnderLock(d) \/ Validate(d) \/ Rename(d) \/ WriteFails(d) \/ FinishWrite(d)
    BY <2>3 DEF ReadUnderLock, Validate, Rename, WriteFails, FinishWrite, Leave
  <2>4. CASE Release(d) \/ ReleaseFails(d) \/ Crash(d)
    BY <2>4 DEF Release, ReleaseFails, Crash
  <2>5. CASE Renew(d) \/ HearLoss(d)
    BY <2>5 DEF Renew, HearLoss, HeartbeatOn
  <2> QED BY <1>2, <2>1, <2>2, <2>3, <2>4, <2>5 DEF CallStep
<1>3. CASE \E k \in Path : Lapse(k) \/ Stall(k)
  BY <1>3 DEF Lapse, Stall, HeartbeatOn
<1>4. CASE Finished \/ UNCHANGED lockedVars
  BY <1>4 DEF Finished, lockedVars
<1> QED BY <1>1, <1>2, <1>3, <1>4 DEF LockNext

\* As long as no process has stalled past its lease, two calls that lock the
\* same key are never both between acquire and the end of their
\* read-modify-write.
THEOREM HoldersExclude == LockSpec => []OneHolder
<1>1. LockInit => HolderOwns
  BY FileLockAssumption DEF LockInit, HolderOwns, Holding
<1>2. LockInv /\ HolderOwns /\ [LockNext]_lockedVars => HolderOwns'
  BY HolderStep
<1>3. HolderOwns => OneHolder
  BY DEF HolderOwns, OneHolder
<1> QED BY <1>1, <1>2, <1>3, LockInvHolds, PTL DEF LockSpec

(***************************************************************************)
(* ... and until a lock is got, or the links change under one, with        *)
(* another key than the path has by then: a key stands for the file that   *)
(* is read through the path, so two calls on one file exclude each other.  *)
(***************************************************************************)
KeyTrue ==
  ~misled => \A c \in Call : stage[c] \in Changing => key[c] = CanonicalLockKey(PathOf[c])

\* A link leads to no other link: renames only ever remove links.
NoChains == \A p \in Path : link[p] \in Path => link[link[p]] = NoLink

\* What a call has read is still there when it is about to write.
FreshSnapshot ==
  KeysTrue => \A c \in Call : stage[c] \in {"read", "writing"} => snapshot[c] = Reading(PathOf[c])

AtomicInv == LockInv /\ HolderOwns /\ NoChains /\ KeyTrue /\ FreshSnapshot

\* Nothing but a rename changes a file or a link, and nothing but an acquire
\* brings a call under the lock; no step takes an outdated key for a true one.
LEMMA QuietStep ==
  ASSUME LockInv, [LockNext]_lockedVars, \A c \in Call : ~Rename(c) /\ ~Acquire(c)
  PROVE  /\ UNCHANGED <<file, link, misled>>
         /\ \A d \in Call : stage'[d] \in Changing => stage[d] \in Changing /\ key'[d] = key[d]
<1> USE DEF LockInv, LockTypeOK, Changing
<1>1. ASSUME NEW c \in Call, CallStep(c)
      PROVE  /\ UNCHANGED <<file, link, misled>>
             /\ \A d \in Call : stage'[d] \in Changing => stage[d] \in Changing /\ key'[d] = key[d]
  <2>1. CASE SeeFile(c) \/ Begin(c) \/ DeadlinePasses(c) \/ GiveUp(c)
    BY <2>1 DEF SeeFile, Begin, DeadlinePasses, GiveUp
  <2>2. CASE AcquireFails(c) \/ Release(c) \/ ReleaseFails(c)
    BY <2>2 DEF AcquireFails, Release, ReleaseFails
  <2>3. CASE ReadUnderLock(c) \/ Validate(c)
    BY <2>3 DEF ReadUnderLock, Validate, Leave
  <2>4. CASE WriteFails(c) \/ FinishWrite(c)
    BY <2>4 DEF WriteFails, FinishWrite, Leave
  <2>5. CASE Renew(c) \/ HearLoss(c) \/ Crash(c)
    BY <2>5 DEF Renew, HearLoss, Crash
  <2> QED BY <1>1, <2>1, <2>2, <2>3, <2>4, <2>5 DEF CallStep
<1> QED BY <1>1 DEF LockNext, Lapse, Stall, Finished, lockedVars

\* A misled lock is not forgotten.
LEMMA MisledIsForEver ==
  ASSUME LockInv, [LockNext]_lockedVars, ~misled'
  PROVE  ~misled
<1>1. ASSUME NEW c \in Call, Rename(c) \/ Acquire(c) PROVE ~misled
  BY <1>1 DEF Rename, Acquire
<1>2. CASE \A c \in Call : ~Rename(c) /\ ~Acquire(c)
  BY <1>2, QuietStep
<1> QED BY <1>1, <1>2

\* The two actions that may outdate a key take note of it.
LEMMA KeyStep ==
  ASSUME LockInv, KeyTrue, [LockNext]_lockedVars
  PROVE  KeyTrue'
<1>1. ASSUME NEW c \in Call, Rename(c) \/ Acquire(c) PROVE KeyTrue'
  BY <1>1 DEF Rename, Acquire, KeyTrue, Misled
<1>2. CASE \A c \in Call : ~Rename(c) /\ ~Acquire(c)
  BY <1>2, QuietStep DEF KeyTrue, CanonicalLockKey
<1> QED BY <1>1, <1>2

LEMMA ChainStep ==
  ASSUME LockInv, NoChains, [LockNext]_lockedVars
  PROVE  NoChains'
<1>1. ASSUME NEW c \in Call, Rename(c) PROVE NoChains'
  BY <1>1, FileLockAssumption DEF Rename, NoChains, LockInv, LockTypeOK
<1>2. ASSUME NEW c \in Call, Acquire(c) PROVE NoChains'
  BY <1>2 DEF Acquire, NoChains
<1>3. CASE \A c \in Call : ~Rename(c) /\ ~Acquire(c)
  BY <1>3, QuietStep DEF NoChains
<1> QED BY <1>1, <1>2, <1>3

\* A call's step towards its write starts from what it just read.
LEMMA OwnSnapshot ==
  ASSUME AtomicInv, NEW c \in Call, CallStep(c), stage'[c] \in {"read", "writing"}, KeysTrue
  PROVE  snapshot'[c] = Reading(PathOf[c])
<1> USE FileLockAssumption DEF AtomicInv, LockInv, LockTypeOK, FreshSnapshot
<1>1. CASE ReadUnderLock(c)
  BY <1>1 DEF ReadUnderLock
<1>2. CASE Validate(c)
  BY <1>2 DEF Validate, Leave
<1>3. CASE SeeFile(c) \/ Begin(c) \/ DeadlinePasses(c) \/ GiveUp(c)
  BY <1>3 DEF SeeFile, Begin, DeadlinePasses, GiveUp
<1>4. CASE Acquire(c) \/ AcquireFails(c) \/ Release(c) \/ ReleaseFails(c)
  BY <1>4 DEF Acquire, AcquireFails, Release, ReleaseFails
<1>5. CASE Rename(c) \/ WriteFails(c) \/ FinishWrite(c)
  BY <1>5 DEF Rename, WriteFails, FinishWrite, Leave
<1>6. CASE Renew(c) \/ HearLoss(c) \/ Crash(c)
  BY <1>6 DEF Renew, HearLoss, Crash
<1> QED BY <1>1, <1>2, <1>3, <1>4, <1>5, <1>6 DEF CallStep

\* A rename of one call leaves alone what another one has read: both have
\* true keys, and they differ.
LEMMA RenameApart ==
  ASSUME AtomicInv, KeyTrue', KeysTrue, ~misled', NEW c \in Call, NEW d \in Call,
         Rename(c), stage'[d] \in {"read", "writing"}
  PROVE  Reading(PathOf[d])' = Reading(PathOf[d]) /\ snapshot'[d] = snapshot[d] /\ stage'[d] = stage[d]
<1> DEFINE p == PathOf[c]
           q == PathOf[d]
<1> USE FileLockAssumption DEF AtomicInv, LockInv, LockTypeOK, KeysTrue
<1>1. c # d /\ stage[d] \in {"read", "writing"} /\ stage'[d] = stage[d] /\ snapshot'[d] = snapshot[d]
  BY DEF Rename
<1>2. key[c] = CanonicalLockKey(p) /\ key[d] = CanonicalLockKey(q)
  BY <1>1 DEF KeyTrue, Changing, Rename
<1>3. key[c] # key[d]
  BY <1>1 DEF HolderOwns, Holding, Rename
<1>4. p \in Path /\ q \in Path /\ p # q
  BY <1>2, <1>3
<1>5. link'[q] = link[q] /\ (\A r \in Path : r # p => file'[r] = file[r])
  BY <1>4 DEF Rename
<1>6. CASE link[q] = p
  <2>1. key[c] = p
    BY <1>2, <1>4, <1>6 DEF NoChains, CanonicalLockKey
  <2>2. file[p] = Absent
    BY <1>2, <1>3, <1>4, <1>6, <2>1 DEF CanonicalLockKey
  <2>3. key[d] = q
    BY <1>2, <2>2, <1>6 DEF CanonicalLockKey
  <2>4. file'[p] # Absent
    <3>1. Result(c, snapshot[c]) \in Content
      BY ResultType DEF Rename, ValidBeforeWrite
    <3> QED BY <1>4, <3>1 DEF Rename
  <2>5. key'[d] = CanonicalLockKey(q)'
    BY <1>1 DEF KeyTrue, Changing
  <2>6. CanonicalLockKey(q)' = p
    BY <1>4, <1>5, <1>6, <2>4 DEF CanonicalLockKey
  <2>7. key'[d] = key[d]
    BY DEF Rename
  <2> QED BY <1>4, <2>3, <2>5, <2>6, <2>7
<1>7. CASE link[q] # p
  <2>1. Reading(q)' = Reading(q)
    BY <1>4, <1>5, <1>7 DEF Reading
  <2> QED BY <1>1, <2>1
<1> QED BY <1>6, <1>7

LEMMA FreshStep ==
  ASSUME AtomicInv, [LockNext]_lockedVars, KeyTrue'
  PROVE  FreshSnapshot'
<1> SUFFICES ASSUME NEW d \in Call, stage'[d] \in {"read", "writing"}, ~stalled', ~misled'
             PROVE  snapshot'[d] = Reading(PathOf[d])'
  BY DEF FreshSnapshot, KeysTrue
<1>0. KeysTrue
  BY StallIsForEver, MisledIsForEver DEF AtomicInv, KeysTrue
<1>1. ASSUME NEW c \in Call, Rename(c) PROVE snapshot'[d] = Reading(PathOf[d])'
  BY <1>0, <1>1, RenameApart DEF AtomicInv, FreshSnapshot
<1>2. ASSUME \A c \in Call : ~Rename(c) PROVE snapshot'[d] = Reading(PathOf[d])'
  <2>1. file' = file /\ link' = link
    <3>1. ASSUME NEW c \in Call, Acquire(c) PROVE file' = file /\ link' = link
      BY <3>1 DEF Acquire
    <3>2. CASE \A c \in Call : ~Acquire(c)
      BY <1>2, <3>2, QuietStep DEF AtomicInv
    <3> QED BY <3>1, <3>2
  <2>2. ASSUME NEW c \in Call, CallStep(c) PROVE snapshot'[d] = Reading(PathOf[d])
    <3>1. CASE c = d
      BY <1>0, <2>2, <3>1, OwnSnapshot
    <3>2. CASE c # d
      BY <1>0, <2>2, <3>2, OtherCalls DEF AtomicInv, LockInv, FreshSnapshot
    <3> QED BY <3>1, <3>2
  <2>3. ASSUME \A c \in Call : ~CallStep(c) PROVE snapshot'[d] = Reading(PathOf[d])
    BY <1>0, <2>3 DEF LockNext, Lapse, Stall, Finished, lockedVars, AtomicInv, FreshSnapshot
  <2> QED BY <2>1, <2>2, <2>3 DEF Reading
<1> QED BY <1>1, <1>2

LEMMA AtomicInvHolds == LockSpec => []AtomicInv
<1>1. LockInit => AtomicInv
  BY LockInvInit, FileLockAssumption
  DEF LockInit, AtomicInv, HolderOwns, Holding, NoChains, KeyTrue, Changing, FreshSnapshot
<1>2. AtomicInv /\ [LockNext]_lockedVars => AtomicInv'
  BY LockInvStep, HolderStep, ChainStep, KeyStep, FreshStep DEF AtomicInv
<1> QED BY <1>1, <1>2, PTL DEF LockSpec

\* write_file and edit_file rename their result over exactly the content
\* they read under the lock, through a link or not: no other call's change
\* is lost in between.
THEOREM NoLostUpdate == LockSpec => WrittenOverWhatWasRead
<1>1. AtomicInv /\ [LockNext]_lockedVars
        => (\A c \in Call : stage[c] = "writing" /\ stage'[c] = "renamed" /\ KeysTrue
              => snapshot[c] = Reading(PathOf[c]))
  BY DEF AtomicInv, FreshSnapshot
<1> QED BY <1>1, AtomicInvHolds, PTL DEF LockSpec, WrittenOverWhatWasRead

\* A write with an expected_hash replaces the content it names or creates
\* the file.
THEOREM ExpectedHonoured == LockSpec => ExpectedOrRefused
<1>1. AtomicInv /\ [LockNext]_lockedVars
        => (\A c \in Call : stage[c] = "writing" /\ stage'[c] = "renamed" /\ expected[c] # NoHash /\ KeysTrue
              => Reading(PathOf[c]) \in {expected[c], Absent})
  BY FileLockAssumption DEF AtomicInv, LockInv, LockTypeOK, FreshSnapshot,
     ValidBeforeWrite, HashOnlyForWrites, Applies
<1> QED BY <1>1, AtomicInvHolds, PTL DEF LockSpec, ExpectedOrRefused
=============================================================================
