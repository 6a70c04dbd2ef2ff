------------------------------ MODULE Region ------------------------------
(***************************************************************************)
(* What an arena promises, whatever its layout: bytes are handed out to    *)
(* one holder at a time, a holder gives bytes back only by trimming its    *)
(* own block, and otherwise everything is given back at once.              *)
(***************************************************************************)
VARIABLE owned   \* the sets of bytes held, one per holder

Init == owned = {}

Grant == \E B \in (owned' \ owned) :
           /\ B \cap UNION owned = {}
           /\ owned' = owned \cup {B}

Trim == \E B \in owned : \E C \in SUBSET B :
          owned' = (owned \ {B}) \cup ({C} \ {{}})

Release == owned' = {}

Next == Grant \/ Trim \/ Release

Spec == Init /\ [][Next]_owned
============================================================================
