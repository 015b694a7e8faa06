\* Two deletes, two POSTs and a worker, statement by statement.
SPECIFICATION Spec
CONSTANTS
    Message = {m1, m2}
    Worker = {w1}
    Deleter = {d1, d2}
    NoMessage = NoMessage
    NoWorker = NoWorker
INVARIANTS NothingOutlives AcceptedUntilDeleted CheckedTurnsStayDead
SYMMETRY Symmetry
CHECK_DEADLOCK FALSE
