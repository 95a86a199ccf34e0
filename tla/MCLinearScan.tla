---------------------------- MODULE MCLinearScan ----------------------------
(***************************************************************************)
(* Five variables, named T0 < T1 < p0 < t0 < t1 (the front end's names in  *)
(* the order of std::string), T1 an array of two words, over functions of  *)
(* four statements and two or three registers: every combination of the    *)
(* intervals that cal_live_intervals produces, so that registers run out,  *)
(* expire, are stolen and are handed on.                                   *)
(***************************************************************************)
EXTENDS LinearScan

CONSTANTS s3, t0, a0, none

MCCalleeSaved == <<s3>>
MCCallerSaved == <<t0>>
MCParamRegs == <<a0>>

MCVar == 1 .. 5
MCParams == {3}
MCArrays == {2}
MCWidth == [v \in MCArrays |-> 2]

Last == 3

\* A local is never live-out (-2) or live-out first at some statement and
\* live-in last at a later one.
LocalIntervals == {<<-2, 0>>, <<-2, Last>>} \cup {<<s, e>> \in (0 .. Last) \X (0 .. Last) : s < e}

ParamIntervals == {<<-1, e>> : e \in 0 .. Last}

AllInputs ==
    {[start |-> [v \in MCVar |-> iv[v][1]], end |-> [v \in MCVar |-> iv[v][2]], calls |-> c] :
        iv \in {<<i1, i2, p, i3, i4>> : i1, i2, i3, i4 \in LocalIntervals, p \in ParamIntervals},
        c \in BOOLEAN}

MCInputs == AllInputs

=============================================================================
