---------------------------- MODULE MCCmdExec ----------------------------
(* Commands of up to 4 bytes on a stream against pipes of 2 and sub-buffers  *)
(* of 4 and 3, in arenas with room for both, for one and for neither.        *)
EXTENDS CmdExec

Ends == {[end |-> "exit", code |-> 0], [end |-> "exit", code |-> 1],
         [end |-> "signal", code |-> 9]}
MCPrograms == {[out |-> o, err |-> e, early |-> y, end |-> x.end, code |-> x.code] :
                 o \in 0 .. 4, e \in 0 .. 4, y \in BOOLEAN, x \in Ends}
MCMaxLen == [s \in Stream |-> IF s = "out" THEN 4 ELSE 3]
MCArenas == {[base |-> 16, len |-> l, cap |-> 7] : l \in {0, 1, 2, 5}}
============================================================================
