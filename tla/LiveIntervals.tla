--------------------------- MODULE LiveIntervals ----------------------------
(***************************************************************************)
(* Newpiler::cal_live_intervals (backend/linear_scan.cpp:11-50): the live  *)
(* interval of each local and param, from the result of the liveness       *)
(* analysis over the statements 0 .. NumStmts - 1.                         *)
(***************************************************************************)
EXTENDS Integers, FiniteSetsExt

CONSTANTS
    NumStmts,   \* func->stmts_.size()
    Params      \* the params, "p0", "p1", ...

VARIABLES
    liveIn,     \* live_in_ and live_out_ of each statement
    liveOut

Stmt == 0 .. NumStmts - 1

AtEntry == -1   \* start_ of every param
NotLive == -2   \* start_ of a variable that is live after no statement

LiveAfter(v)  == {n \in Stmt : v \in liveOut[n]}
LiveBefore(v) == {n \in Stmt : v \in liveIn[n]}

StartOf(v) ==
    IF v \in Params THEN AtEntry
    ELSE IF LiveAfter(v) = {} THEN NotLive ELSE Min(LiveAfter(v))

\* A mutant of EndOf, which the run of the back end must tell from it.
EndAfter(v) ==
    IF LiveAfter(v) = {} THEN NumStmts - 1 ELSE Max(LiveAfter(v))

\* The loop at linear_scan.cpp:42-48 replaces an end_ of -2 by the number of
\* the last statement.  It erases and inserts set elements while it iterates
\* over the set; as the key of an element does not change, each is replaced
\* in its place, and the model has that outcome.
EndOf(v) ==
    IF LiveBefore(v) = {} THEN NumStmts - 1 ELSE Max(LiveBefore(v))

=============================================================================
