------------------------------- MODULE MCBuf -------------------------------
(* Small instance of Buf: char and i32, in arenas of 2 and 5 bytes, one of   *)
(* them at an odd address, as a buf_stack array may be or an arena that      *)
(* itself was taken from another one with buf_new2.                          *)
EXTENDS Buf

MCTypes == {[size |-> 1, align |-> 1], [size |-> 4, align |-> 4]}
MCCounts == {-1, 0, 1, 2}
MCCaps == {2, 5}
MCHeapBases == {16}
MCStackBases == {17}
============================================================================
