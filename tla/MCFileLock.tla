----------------------------- MODULE MCFileLock -----------------------------
(* Small instances of FileLock: edits and a write of one file, by its path and by a link. *)
EXTENDS FileLock, FiniteSets

CONSTANTS e1, e2, w, p, s, a, b, c, d

MCTool == [x \in Call |-> IF x = w THEN "write" ELSE "edit"]
MCOld  == [x \in Call |-> IF x = e2 THEN b ELSE a]
MCNew  == [x \in Call |-> CASE x = e1 -> c [] x = e2 -> d [] OTHER -> a]

\* An edit and the write name a symbolic link to a file, the other edit the
\* file itself.
ViaLink == [x \in Call |-> IF x = e1 THEN p ELSE s]
OneFile == [x \in Path |-> IF x = p THEN {a, b} ELSE Absent]
LinkToP == [x \in Path |-> IF x = s THEN p ELSE NoLink]

\* Bound: one call dies, fails or is late.
OneFault ==
  Cardinality({x \in Call : late[x] \/ stage[x] = "dead" \/ outcome[x] = "failed"}) <= 1
=============================================================================
