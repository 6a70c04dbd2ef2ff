------------------------------ MODULE KeyBag ------------------------------
(***************************************************************************)
(* What the set of set.h promises of a sequence of calls, without slots: a *)
(* call takes effect in one step, when it returns.  It is a bag and not a  *)
(* set: inserting a key that is there already may leave one more copy of   *)
(* it.  A key is found as long as one copy is left, and an insertion is    *)
(* refused only when Cap copies are held.                                  *)
(***************************************************************************)
EXTENDS Integers, FiniteSets

CONSTANTS Key, StrNull, Cap

VARIABLES copies,   \* copies held of each key
          pending,  \* the call that has begun and not returned
          reply     \* the last call that returned

vars == <<copies, pending, reply>>

None == [fn |-> "none", key |-> StrNull]
Held == Cardinality(UNION {{k} \X (1 .. copies[k]) : k \in Key})

Init ==
  /\ copies = [k \in Key |-> 0]
  /\ pending = None
  /\ reply = [fn |-> "none", key |-> StrNull, ok |-> FALSE]

Begin == /\ pending = None
         /\ \E fn \in {"lookup", "insert", "delete"}, k \in Key :
              pending' = [fn |-> fn, key |-> k]
         /\ UNCHANGED <<copies, reply>>

\* The call (fn, k) returns, with success or without.
Answer(fn, k, ok) ==
  /\ pending \in {None, [fn |-> fn, key |-> k]}
  /\ pending' = None
  /\ reply' = [fn |-> fn, key |-> k, ok |-> ok]

Lookup(k) == Answer("lookup", k, copies[k] > 0) /\ UNCHANGED copies

Delete(k) ==
  /\ Answer("delete", k, copies[k] > 0)
  /\ copies' = IF copies[k] > 0 THEN [copies EXCEPT ![k] = @ - 1] ELSE copies

Insert(k) ==
  \/ Held = Cap /\ Answer("insert", k, FALSE) /\ UNCHANGED copies
  \/ Held < Cap /\ Answer("insert", k, TRUE)
     /\ \/ copies[k] > 0 /\ UNCHANGED copies
        \/ copies' = [copies EXCEPT ![k] = @ + 1]

Next == \/ Begin
        \/ \E k \in Key : Lookup(k) \/ Delete(k) \/ Insert(k)

Spec == Init /\ [][Next]_vars
============================================================================
