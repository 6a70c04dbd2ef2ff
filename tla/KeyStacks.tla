----------------------------- MODULE KeyStacks -----------------------------
(***************************************************************************)
(* What the map of map.h promises: each key has a stack of values.  An     *)
(* insertion puts its value on top, or is ignored if the key is bound      *)
(* already; a lookup shows the top, a deletion takes it away and so brings *)
(* back an older value when there is one.                                  *)
(***************************************************************************)
EXTENDS Integers, Sequences, FiniteSets

CONSTANTS Key, StrNull, Val, NoVal, Cap

VARIABLES stack,    \* the values bound to each key, the visible one first
          pending,  \* the call that has begun and not returned
          reply     \* the last call that returned

vars == <<stack, pending, reply>>

None == [fn |-> "none", key |-> StrNull, val |-> NoVal]
Held == Cardinality(UNION {{k} \X (1 .. Len(stack[k])) : k \in Key})
Bound(k) == stack[k] # <<>>

Init ==
  /\ stack = [k \in Key |-> <<>>]
  /\ pending = None
  /\ reply = [fn |-> "none", key |-> StrNull, ok |-> FALSE, val |-> NoVal]

Begin ==
  /\ pending = None
  /\ \E k \in Key :
       \/ \E fn \in {"lookup", "delete"} :
            pending' = [fn |-> fn, key |-> k, val |-> NoVal]
       \/ \E v \in Val : pending' = [fn |-> "insert", key |-> k, val |-> v]
  /\ UNCHANGED <<stack, reply>>

\* The call returns, with success or without, showing the value shown.
Answer(fn, k, v, ok, shown) ==
  /\ pending \in {None, [fn |-> fn, key |-> k, val |-> v]}
  /\ pending' = None
  /\ reply' = [fn |-> fn, key |-> k, ok |-> ok, val |-> shown]

Lookup(k) ==
  /\ Answer("lookup", k, NoVal, Bound(k), IF Bound(k) THEN Head(stack[k]) ELSE NoVal)
  /\ UNCHANGED stack

Delete(k) ==
  /\ Answer("delete", k, NoVal, Bound(k), NoVal)
  /\ stack' = IF Bound(k) THEN [stack EXCEPT ![k] = Tail(@)] ELSE stack

Insert(k, v) ==
  \/ Held = Cap /\ Answer("insert", k, v, FALSE, NoVal) /\ UNCHANGED stack
  \/ /\ Held < Cap
     /\ Answer("insert", k, v, TRUE, NoVal)
     /\ \/ Bound(k) /\ UNCHANGED stack
        \/ stack' = [stack EXCEPT ![k] = <<v>> \o @]

Next == \/ Begin
        \/ \E k \in Key : Lookup(k) \/ Delete(k) \/ \E v \in Val : Insert(k, v)

Spec == Init /\ [][Next]_vars
============================================================================
