--------------------------- MODULE MCServiceThread ---------------------------
(***************************************************************************)
(* ServiceThread for TLC.  Nothing has to be bounded: the state space is   *)
(* finite for finite sets of clients and iteration results.                *)
(***************************************************************************)
EXTENDS ServiceThread

\* ServiceIteration() returns a delay in microseconds, or a negative number;
\* 0 stands for the values that are not negative.
MCIterationResults == {-1, 0}
=============================================================================
