--------------------------- MODULE CmdExecProofs ---------------------------
(* Proofs about CmdExec, for every program, pipe capacity, arena, limit on   *)
(* what is read and number of interrupting signals.                          *)
EXTENDS CmdExec, NatLemmas

----------------------------------------------------------------------------
\* The inductive invariant

ArenaType == [base : Nat, len : Int, cap : Nat]
SubType == [beg : Int, cap : Int, len : Int]
PcType == {"pipe", "fork", "open", "out", "err", "wait", "done", "trapped"}
ChildType == {"none", "forked", "running", "zombie", "reaped"}
WriteEnds == Stream \X {"w"}

TypesOK ==
  /\ prog \in Programs
  /\ pc \in PcType
  /\ pfds \subseteq Fds /\ cfds \subseteq Fds
  /\ child \in ChildType
  /\ wrote \in [Stream -> Nat] /\ piped \in [Stream -> Nat]
  /\ arena \in ArenaType
  /\ sub \in [Stream -> SubType]
  /\ room \in Int
  /\ res \in [err : {0, 1, ENOMEM}, status : Nat]
  /\ intr \in Nat

\* The ends the parent holds, and whether it has a child, are told by its place.
ParentFds ==
  /\ pc = "pipe" => pfds = {} /\ child = "none"
  /\ pc = "fork" => pfds = Fds /\ child = "none"
  /\ pc = "open" => pfds = Fds
  /\ pc = "out" => pfds = {<<"out", "r">>, <<"err", "r">>}
  /\ pc = "err" => pfds = {<<"err", "r">>}
  /\ pc = "wait" => pfds = {}
  /\ pc \in {"open", "out", "err", "wait"} => child \in {"forked", "running", "zombie"}
  /\ Undisturbed => pfds = {} /\ child = "reaped"

\* The child has all ends, then the write ends it has not closed, then none; it
\* closes one when it has written all that goes there.
ChildFds ==
  /\ child \in {"none", "zombie", "reaped"} => cfds = {}
  /\ child = "forked" => cfds = Fds
  /\ child = "running" =>
       /\ cfds \subseteq WriteEnds
       /\ \A s \in Stream : <<s, "w">> \notin cfds => wrote[s] = prog[s]

\* While the parent reads, a child that has ended has not been killed by a write
\* to a pipe that nobody reads.
Ended ==
  (child \in {"zombie", "reaped"} /\ pc \notin {"done", "trapped"}) =>
    \A s \in Stream : wrote[s] = prog[s]

\* A stream the parent is through with is written and empty; one it has not come
\* to has nothing in its sub-buffer.
Through(s) == wrote[s] = prog[s] /\ piped[s] = 0
Order ==
  /\ (pc \in {"err", "wait"} \/ Undisturbed) => Through("out")
  /\ (pc = "wait" \/ Undisturbed) => Through("err")
  /\ pc \in {"pipe", "fork", "open"} => sub["out"].len = 0
  /\ pc \in {"pipe", "fork", "open", "out"} => sub["err"].len = 0

\* No byte is lost between the child and the sub-buffers.
Balance == intr = 0 => \A s \in Stream : sub[s].len + piped[s] = wrote[s]

\* Where the sub-buffers lie.
Reading(s) ==
  /\ sub[s].beg + sub[s].cap = arena.len /\ arena.len <= arena.cap
  /\ sub[s].len + room = sub[s].cap /\ 0 <= sub[s].len /\ 0 <= room
Adjacent == sub["err"].beg = sub["out"].beg + sub["out"].len
Layout ==
  intr = 0 =>
    /\ pc \in {"pipe", "fork", "open"} => arena.len <= arena.cap
    /\ pc = "out" => Reading("out")
    /\ pc = "err" => Reading("err") /\ Adjacent
    /\ (pc = "wait" \/ Undisturbed) => Adjacent /\ arena.len = sub["err"].beg + sub["err"].len

IInv ==
  TypesOK /\ ParentFds /\ ChildFds /\ Ended /\ Order /\ Balance /\ Layout /\ ZeroMeansSuccess

----------------------------------------------------------------------------
\* Facts about the data

LEMMA StreamFacts ==
  /\ Stream = {"out", "err"}
  /\ Fds = {<<"out", "r">>, <<"out", "w">>, <<"err", "r">>, <<"err", "w">>}
  /\ WriteEnds = {<<"out", "w">>, <<"err", "w">>}
  BY DEF Stream, Fds, WriteEnds

LEMMA ProgType ==
  ASSUME prog \in Programs
  PROVE  /\ prog \in ProgramType
         /\ \A s \in Stream : prog[s] \in Nat
         /\ prog.end = "exit" => prog.code \in 0 .. 255
         /\ prog.end = "signal" => prog.code \in 1 .. 126
         /\ prog.end \in {"exit", "signal"}
  BY ProgramsAssumption DEF ProgramType, Stream

\* A sub-buffer of n bytes starts where the arena ends, if it fits.
LEMMA AllocBytes ==
  ASSUME NEW a \in ArenaType, NEW n \in Nat, NEW soft, soft = FALSE,
         NEW r, r = Alloc(a, 1, 1, n, soft)
  PROVE  \/ r.out = "trap"
         \/ /\ r.out = "ok" /\ r.beg = a.len /\ r.buf = [a EXCEPT !.len = a.len + n]
            /\ n = 0 \/ a.len + n <= a.cap
  <1>0. a.len \in Int /\ a.cap \in Int /\ a.base \in Int
    BY DEF ArenaType
  <1>1. CASE n = 0
    <2>1. r.out = "ok" /\ r.beg = a.len /\ r.buf = a
      BY <1>1 DEF Alloc, Outcome
    <2>2. a = [a EXCEPT !.len = a.len + 0]
      BY <1>0 DEF ArenaType
    <2> QED
      BY <1>1, <2>1, <2>2
  <1>2. CASE n > 0 /\ ~Fits(a, 1, n)
    BY <1>2 DEF Alloc, Outcome
  <1>3. CASE n > 0 /\ Fits(a, 1, n)
    <2>1. Pad(a, 1) = 0
      <3>1. -(a.base + a.len) \in Int
        BY <1>0
      <3>2. (-(a.base + a.len)) % 1 \in 0 .. 0
        BY <3>1, ModDef
      <3> QED
        BY <3>2 DEF Pad
    <2>2. n * 1 <= a.cap - a.len
      <3>1. a.cap - a.len \in Int /\ n <= (a.cap - a.len) \div 1
        BY <1>0, <1>3 DEF Fits
      <3> QED
        BY <3>1, DivFits
    <2> DEFINE beg == a.len + Pad(a, 1)
               end == beg + n * 1
               b == [a EXCEPT !.len = end]
    <2>3. r = [out |-> "ok", beg |-> beg, buf |-> b]
      BY <1>3 DEF Alloc, Outcome
    <2>4. beg = a.len /\ end = a.len + n /\ n * 1 = n
      BY <1>0, <2>1
    <2>5. b = [a EXCEPT !.len = a.len + n]
      BY <2>4
    <2> HIDE DEF beg, end, b
    <2>6. r.out = "ok" /\ r.beg = beg /\ r.buf = b
      BY <2>3
    <2>7. r.out = "ok" /\ r.beg = a.len /\ r.buf = [a EXCEPT !.len = a.len + n]
      BY <2>4, <2>5, <2>6
    <2>8. a.len + n <= a.cap
      BY <1>0, <2>2, <2>4
    <2> QED
      BY <2>7, <2>8
  <1> QED
    BY <1>1, <1>2, <1>3

\* The parent traps, or turns to the stream s.
Turned(s, a, fds) ==
  /\ pc' = s /\ pfds' = fds
  /\ arena' = [a EXCEPT !.len = a.len + MaxLen[s]]
  /\ sub' = [sub EXCEPT ![s] = [beg |-> a.len, cap |-> MaxLen[s], len |-> 0]]
  /\ room' = MaxLen[s]
  /\ MaxLen[s] = 0 \/ a.len + MaxLen[s] <= a.cap
TrappedThere(a) == pc' = "trapped" /\ pfds' = {} /\ arena' = a /\ UNCHANGED <<sub, room>>

LEMMA OpenKinds ==
  ASSUME NEW s \in Stream, NEW a \in ArenaType, NEW fds, OpenSub(s, a, fds)
  PROVE  TrappedThere(a) \/ Turned(s, a, fds)
  <1> DEFINE r == Alloc(a, 1, 1, MaxLen[s], FALSE)
  <1>1. MaxLen[s] \in Nat
    BY ArenasAssumption
  <1>2. \/ r.out = "trap"
        \/ /\ r.out = "ok" /\ r.beg = a.len /\ r.buf = [a EXCEPT !.len = a.len + MaxLen[s]]
           /\ MaxLen[s] = 0 \/ a.len + MaxLen[s] <= a.cap
    BY <1>1, AllocBytes
  <1>3. IF r.out = "trap"
        THEN pc' = "trapped" /\ pfds' = {} /\ arena' = a /\ UNCHANGED <<sub, room>>
        ELSE /\ pc' = s /\ pfds' = fds /\ arena' = r.buf
             /\ sub' = [sub EXCEPT ![s] = [beg |-> r.beg, cap |-> MaxLen[s], len |-> 0]]
             /\ room' = MaxLen[s]
    BY DEF OpenSub
  <1> HIDE DEF r
  <1> QED
    BY <1>2, <1>3 DEF TrappedThere, Turned

\* The status is that of the exit, or the number of the signal.
Result == IF WaitStatus % 128 = 0 THEN WaitStatus \div 256 ELSE WaitStatus

LEMMA WaitResult ==
  ASSUME prog \in Programs
  PROVE  Result \in Nat /\ (Result = 0 <=> ExitedWithZero)
  <1>1. CASE prog.end = "exit"
    <2>1. PICK c \in 0 .. 255 : c = prog.code
      BY <1>1, ProgType
    <2>2. WaitStatus = c * 256
      BY <1>1, <2>1 DEF WaitStatus
    <2>3. (c * 256) % 128 = 0 /\ (c * 256) \div 256 = c
      BY <2>1
    <2>4. Result = c
      BY <2>2, <2>3 DEF Result
    <2> QED
      BY <1>1, <2>1, <2>4 DEF ExitedWithZero
  <1>2. CASE prog.end = "signal"
    <2>1. PICK c \in 1 .. 126 : c = prog.code
      BY <1>2, ProgType
    <2>2. WaitStatus = c
      BY <1>2, <2>1 DEF WaitStatus
    <2>3. c % 128 = c
      BY <2>1
    <2> QED
      BY <1>2, <2>1, <2>2, <2>3 DEF Result, ExitedWithZero
  <1> QED
    BY <1>1, <1>2, ProgType

LEMMA MakePipesKeeps ==
  ASSUME IInv, MakePipes
  PROVE  IInv'
  <1>0. TypesOK /\ ParentFds /\ ChildFds /\ Ended /\ Order /\ Balance /\ Layout /\ ZeroMeansSuccess
    BY DEF IInv
  <1>1. TypesOK'
    BY <1>0, StreamFacts DEF TypesOK, MakePipes, Finish, kid, ENOMEM, PcType, ChildType
  <1>2. ParentFds'
    BY <1>0, StreamFacts DEF TypesOK, ParentFds, MakePipes, Finish, kid, ENOMEM, Undisturbed
  <1>3. ChildFds'
    BY <1>0, StreamFacts DEF TypesOK, ChildFds, MakePipes, Finish, kid, ENOMEM
  <1>4. Ended'
    BY <1>0, StreamFacts DEF TypesOK, Ended, MakePipes, Finish, kid, ENOMEM
  <1>5. Order'
    BY <1>0, StreamFacts
    DEF TypesOK, Order, MakePipes, Finish, kid, ENOMEM, Undisturbed, Through
  <1>6. Balance'
    BY <1>0, StreamFacts DEF TypesOK, Balance, MakePipes, Finish, kid, ENOMEM
  <1>7. Layout'
    BY <1>0, StreamFacts
    DEF TypesOK, Layout, MakePipes, Finish, kid, ENOMEM, Undisturbed, Adjacent, Reading
  <1>8. ZeroMeansSuccess'
    BY <1>0, StreamFacts
    DEF TypesOK, ZeroMeansSuccess, MakePipes, Finish, kid, ENOMEM, Undisturbed, ExitedWithZero
  <1> QED
    BY <1>1, <1>2, <1>3, <1>4, <1>5, <1>6, <1>7, <1>8 DEF IInv

LEMMA ForkKeeps ==
  ASSUME IInv, Fork
  PROVE  IInv'
  <1>0. TypesOK /\ ParentFds /\ ChildFds /\ Ended /\ Order /\ Balance /\ Layout /\ ZeroMeansSuccess
    BY DEF IInv
  <1>1. TypesOK'
    BY <1>0, StreamFacts DEF TypesOK, Fork, Finish, ENOMEM, PcType, ChildType
  <1>2. ParentFds'
    BY <1>0, StreamFacts DEF TypesOK, ParentFds, Fork, Finish, ENOMEM, Undisturbed
  <1>3. ChildFds'
    BY <1>0, StreamFacts DEF TypesOK, ChildFds, Fork, Finish, ParentFds
  <1>4. Ended'
    BY <1>0, StreamFacts DEF TypesOK, Ended, Fork, Finish, ENOMEM
  <1>5. Order'
    BY <1>0, StreamFacts DEF TypesOK, Order, Fork, Finish, ENOMEM, Undisturbed, Through
  <1>6. Balance'
    BY <1>0, StreamFacts DEF TypesOK, Balance, Fork, Finish, ENOMEM
  <1>7. Layout'
    BY <1>0, StreamFacts
    DEF TypesOK, Layout, Fork, Finish, ENOMEM, Undisturbed, Adjacent, Reading
  <1>8. ZeroMeansSuccess'
    BY <1>0, StreamFacts
    DEF TypesOK, ZeroMeansSuccess, Fork, Finish, ENOMEM, Undisturbed, ExitedWithZero
  <1> QED
    BY <1>1, <1>2, <1>3, <1>4, <1>5, <1>6, <1>7, <1>8 DEF IInv

LEMMA OutOfRoomKeeps ==
  ASSUME IInv, OutOfRoom
  PROVE  IInv'
  <1>0. TypesOK /\ ParentFds /\ ChildFds /\ Ended /\ Order /\ Balance /\ Layout /\ ZeroMeansSuccess
    BY DEF IInv
  <1>1. TypesOK'
    BY <1>0, StreamFacts DEF TypesOK, OutOfRoom, Finish, kid, ENOMEM, PcType, ChildType
  <1>2. ParentFds'
    BY <1>0, StreamFacts DEF TypesOK, ParentFds, OutOfRoom, Finish, kid, ENOMEM, Undisturbed
  <1>3. ChildFds'
    BY <1>0, StreamFacts DEF TypesOK, ChildFds, OutOfRoom, Finish, kid, ENOMEM
  <1>4. Ended'
    BY <1>0, StreamFacts DEF TypesOK, Ended, OutOfRoom, Finish, kid, ENOMEM
  <1>5. Order'
    BY <1>0, StreamFacts
    DEF TypesOK, Order, OutOfRoom, Finish, kid, ENOMEM, Undisturbed, Through
  <1>6. Balance'
    BY <1>0, StreamFacts DEF TypesOK, Balance, OutOfRoom, Finish, kid, ENOMEM
  <1>7. Layout'
    BY <1>0, StreamFacts
    DEF TypesOK, Layout, OutOfRoom, Finish, kid, ENOMEM, Undisturbed, Adjacent, Reading
  <1>8. ZeroMeansSuccess'
    BY <1>0, StreamFacts
    DEF TypesOK, ZeroMeansSuccess, OutOfRoom, Finish, kid, ENOMEM, Undisturbed, ExitedWithZero
  <1> QED
    BY <1>1, <1>2, <1>3, <1>4, <1>5, <1>6, <1>7, <1>8 DEF IInv

LEMMA WaitKeeps ==
  ASSUME IInv, Wait
  PROVE  IInv'
  <1>0. TypesOK /\ ParentFds /\ ChildFds /\ Ended /\ Order /\ Balance /\ Layout /\ ZeroMeansSuccess
    BY DEF IInv
  <1>1. TypesOK'
    <2>1. res' \in [err : {0, 1, ENOMEM}, status : Nat]
      BY <1>0, WaitResult DEF TypesOK, Wait, Finish, Result
    <2> QED
      BY <1>0, <2>1 DEF TypesOK, Wait, Finish, PcType, ChildType
  <1>2. ParentFds'
    BY <1>0, StreamFacts DEF TypesOK, ParentFds, Wait, Finish, Undisturbed
  <1>3. ChildFds'
    BY <1>0, StreamFacts DEF TypesOK, ChildFds, Wait, Finish
  <1>4. Ended'
    BY <1>0, StreamFacts DEF TypesOK, Ended, Wait, Finish
  <1>5. Order'
    BY <1>0, StreamFacts DEF TypesOK, Order, Wait, Finish, Undisturbed, Through
  <1>6. Balance'
    BY <1>0, StreamFacts DEF TypesOK, Balance, Wait, Finish
  <1>7. Layout'
    BY <1>0, StreamFacts DEF TypesOK, Layout, Wait, Finish, Undisturbed, Adjacent, Reading
  <1>8. ZeroMeansSuccess'
    <2>1. res'.status = Result
      BY DEF Wait, Finish, Result
    <2> QED
      BY <1>0, <2>1, WaitResult DEF TypesOK, Wait, ZeroMeansSuccess, ExitedWithZero
  <1> QED
    BY <1>1, <1>2, <1>3, <1>4, <1>5, <1>6, <1>7, <1>8 DEF IInv

LEMMA ExecKeeps ==
  ASSUME IInv, Exec
  PROVE  IInv'
  <1>0. TypesOK /\ ParentFds /\ ChildFds /\ Ended /\ Order /\ Balance /\ Layout /\ ZeroMeansSuccess
    BY DEF IInv
  <1>1. TypesOK'
    BY <1>0, StreamFacts DEF TypesOK, Exec, parent, PcType, ChildType
  <1>2. ParentFds'
    BY <1>0, StreamFacts DEF TypesOK, ParentFds, Exec, parent, Undisturbed
  <1>3. ChildFds'
    BY <1>0, StreamFacts DEF TypesOK, ChildFds, Exec, parent
  <1>4. Ended'
    BY <1>0, StreamFacts DEF TypesOK, Ended, Exec, parent
  <1>5. Order'
    BY <1>0, StreamFacts DEF TypesOK, Order, Exec, parent, Undisturbed, Through
  <1>6. Balance'
    BY <1>0, StreamFacts DEF TypesOK, Balance, Exec, parent
  <1>7. Layout'
    BY <1>0, StreamFacts DEF TypesOK, Layout, Exec, parent, Undisturbed, Adjacent, Reading
  <1>8. ZeroMeansSuccess'
    BY <1>0, StreamFacts
    DEF TypesOK, ZeroMeansSuccess, Exec, parent, Undisturbed, ExitedWithZero
  <1> QED
    BY <1>1, <1>2, <1>3, <1>4, <1>5, <1>6, <1>7, <1>8 DEF IInv

LEMMA ChildWriteKeeps ==
  ASSUME IInv, NEW s \in Stream, ChildWrite(s)
  PROVE  IInv'
  <1>0. TypesOK /\ ParentFds /\ ChildFds /\ Ended /\ Order /\ Balance /\ Layout /\ ZeroMeansSuccess
    BY DEF IInv
  <1>1. TypesOK'
    BY <1>0, StreamFacts DEF TypesOK, ChildWrite, parent, PcType, ChildType
  <1>2. ParentFds'
    BY <1>0, StreamFacts DEF TypesOK, ParentFds, ChildWrite, parent, Undisturbed
  <1>3. ChildFds'
    BY <1>0, StreamFacts DEF TypesOK, ChildFds, ChildWrite, parent
  <1>4. Ended'
    BY <1>0, StreamFacts DEF TypesOK, Ended, ChildWrite, parent
  <1>5. Order'
    BY <1>0, StreamFacts DEF TypesOK, Order, ChildWrite, parent, Undisturbed, Through
  <1>6. Balance'
    <2>1. PICK n \in 1 .. prog[s] - wrote[s] :
            wrote' = [wrote EXCEPT ![s] = @ + n] /\ piped' = [piped EXCEPT ![s] = @ + n]
      BY DEF ChildWrite
    <2>2. prog[s] - wrote[s] \in Int /\ n \in Nat
      BY <1>0, <2>1, ProgType DEF TypesOK
    <2>3. sub' = sub /\ intr' = intr
      BY DEF ChildWrite, parent
    <2> SUFFICES ASSUME intr = 0, NEW t \in Stream
                 PROVE  sub[t].len + piped'[t] = wrote'[t]
      BY <2>3 DEF Balance
    <2>4. sub[t].len + piped[t] = wrote[t] /\ sub[t] \in SubType
          /\ piped[t] \in Nat /\ wrote[t] \in Nat
      BY <1>0 DEF Balance, TypesOK
    <2>5. sub[t].len \in Int
      BY <2>4 DEF SubType
    <2>6. CASE t = s
      <3>1. piped'[t] = piped[t] + n /\ wrote'[t] = wrote[t] + n
        BY <1>0, <2>1, <2>6 DEF TypesOK
      <3> QED
        BY <2>2, <2>4, <2>5, <3>1
    <2>7. CASE t # s
      <3>1. piped'[t] = piped[t] /\ wrote'[t] = wrote[t]
        BY <1>0, <2>1, <2>7 DEF TypesOK
      <3> QED
        BY <2>4, <3>1
    <2> QED
      BY <2>6, <2>7
  <1>7. Layout'
    BY <1>0, StreamFacts DEF TypesOK, Layout, ChildWrite, parent, Undisturbed, Adjacent, Reading
  <1>8. ZeroMeansSuccess'
    BY <1>0, StreamFacts
    DEF TypesOK, ZeroMeansSuccess, ChildWrite, parent, Undisturbed, ExitedWithZero
  <1> QED
    BY <1>1, <1>2, <1>3, <1>4, <1>5, <1>6, <1>7, <1>8 DEF IInv

LEMMA BrokenPipeKeeps ==
  ASSUME IInv, NEW s \in Stream, BrokenPipe(s)
  PROVE  IInv'
  <1>0. TypesOK /\ ParentFds /\ ChildFds /\ Ended /\ Order /\ Balance /\ Layout /\ ZeroMeansSuccess
    BY DEF IInv
  <1>1. TypesOK'
    BY <1>0, StreamFacts DEF TypesOK, BrokenPipe, parent, PcType, ChildType
  <1>2. ParentFds'
    BY <1>0, StreamFacts DEF TypesOK, ParentFds, BrokenPipe, parent, Undisturbed
  <1>3. ChildFds'
    BY <1>0, StreamFacts DEF TypesOK, ChildFds, BrokenPipe, parent
  <1>4. Ended'
    <2>1. child = "running" /\ <<s, "r">> \notin pfds /\ wrote[s] < prog[s] /\ pc' = pc
      BY DEF BrokenPipe, parent
    <2>2. wrote[s] # prog[s]
      BY <1>0, <2>1, ProgType DEF TypesOK
    <2>3. pc \notin {"pipe", "fork", "open"}
      BY <1>0, <2>1, StreamFacts DEF ParentFds
    <2>4. pc \notin {"out", "err", "wait"}
      BY <1>0, <2>1, <2>2, StreamFacts DEF ParentFds, Order, Through
    <2> QED
      BY <1>0, <2>1, <2>3, <2>4 DEF TypesOK, PcType, Ended
  <1>5. Order'
    BY <1>0, StreamFacts DEF TypesOK, Order, BrokenPipe, parent, Undisturbed, Through
  <1>6. Balance'
    BY <1>0, StreamFacts DEF TypesOK, Balance, BrokenPipe, parent
  <1>7. Layout'
    BY <1>0, StreamFacts DEF TypesOK, Layout, BrokenPipe, parent, Undisturbed, Adjacent, Reading
  <1>8. ZeroMeansSuccess'
    BY <1>0, StreamFacts
    DEF TypesOK, ZeroMeansSuccess, BrokenPipe, parent, Undisturbed, ExitedWithZero
  <1> QED
    BY <1>1, <1>2, <1>3, <1>4, <1>5, <1>6, <1>7, <1>8 DEF IInv

LEMMA ChildCloseKeeps ==
  ASSUME IInv, NEW s \in Stream, ChildClose(s)
  PROVE  IInv'
  <1>0. TypesOK /\ ParentFds /\ ChildFds /\ Ended /\ Order /\ Balance /\ Layout /\ ZeroMeansSuccess
    BY DEF IInv
  <1>1. TypesOK'
    BY <1>0, StreamFacts DEF TypesOK, ChildClose, parent, PcType, ChildType
  <1>2. ParentFds'
    BY <1>0, StreamFacts DEF TypesOK, ParentFds, ChildClose, parent, Undisturbed
  <1>3. ChildFds'
    BY <1>0, StreamFacts DEF TypesOK, ChildFds, ChildClose, parent
  <1>4. Ended'
    BY <1>0, StreamFacts DEF TypesOK, Ended, ChildClose, parent
  <1>5. Order'
    BY <1>0, StreamFacts DEF TypesOK, Order, ChildClose, parent, Undisturbed, Through
  <1>6. Balance'
    BY <1>0, StreamFacts DEF TypesOK, Balance, ChildClose, parent
  <1>7. Layout'
    BY <1>0, StreamFacts DEF TypesOK, Layout, ChildClose, parent, Undisturbed, Adjacent, Reading
  <1>8. ZeroMeansSuccess'
    BY <1>0, StreamFacts
    DEF TypesOK, ZeroMeansSuccess, ChildClose, parent, Undisturbed, ExitedWithZero
  <1> QED
    BY <1>1, <1>2, <1>3, <1>4, <1>5, <1>6, <1>7, <1>8 DEF IInv

LEMMA ChildEndKeeps ==
  ASSUME IInv, ChildEnd
  PROVE  IInv'
  <1>0. TypesOK /\ ParentFds /\ ChildFds /\ Ended /\ Order /\ Balance /\ Layout /\ ZeroMeansSuccess
    BY DEF IInv
  <1>1. TypesOK'
    BY <1>0, StreamFacts DEF TypesOK, ChildEnd, parent, PcType, ChildType
  <1>2. ParentFds'
    BY <1>0, StreamFacts DEF TypesOK, ParentFds, ChildEnd, parent, Undisturbed
  <1>3. ChildFds'
    BY <1>0, StreamFacts DEF TypesOK, ChildFds, ChildEnd, parent
  <1>4. Ended'
    BY <1>0, StreamFacts DEF TypesOK, Ended, ChildEnd, parent, ChildFds
  <1>5. Order'
    BY <1>0, StreamFacts DEF TypesOK, Order, ChildEnd, parent, Undisturbed, Through
  <1>6. Balance'
    BY <1>0, StreamFacts DEF TypesOK, Balance, ChildEnd, parent
  <1>7. Layout'
    BY <1>0, StreamFacts DEF TypesOK, Layout, ChildEnd, parent, Undisturbed, Adjacent, Reading
  <1>8. ZeroMeansSuccess'
    BY <1>0, StreamFacts
    DEF TypesOK, ZeroMeansSuccess, ChildEnd, parent, Undisturbed, ExitedWithZero
  <1> QED
    BY <1>1, <1>2, <1>3, <1>4, <1>5, <1>6, <1>7, <1>8 DEF IInv
LEMMA ReadKeeps ==
  ASSUME IInv, NEW s \in Stream, Read(s)
  PROVE  IInv'
  <1>0. TypesOK /\ ParentFds /\ ChildFds /\ Ended /\ Order /\ Balance /\ Layout /\ ZeroMeansSuccess
    BY DEF IInv
  <1>1. pc = s /\ room > 0 /\ UNCHANGED <<prog, cfds, child, wrote, pc, pfds, arena, res, intr>>
    BY DEF Read, kid
  <1>2. PICK n \in 1 .. piped[s] :
          /\ n <= room /\ room' = room - n
          /\ sub' = [sub EXCEPT ![s].len = @ + n]
          /\ piped' = [piped EXCEPT ![s] = @ - n]
    BY DEF Read, Got
  <1>3. /\ sub \in [Stream -> SubType] /\ piped \in [Stream -> Nat] /\ room \in Int
        /\ sub[s] \in SubType /\ piped[s] \in Nat /\ wrote \in [Stream -> Nat]
    BY <1>0 DEF TypesOK
  <1>4. sub[s].len \in Int /\ sub[s].cap \in Int /\ sub[s].beg \in Int /\ n \in Nat /\ n <= piped[s]
    BY <1>2, <1>3 DEF SubType
  <1>5. /\ sub'[s] = [sub[s] EXCEPT !.len = sub[s].len + n]
        /\ piped'[s] = piped[s] - n
        /\ \A t \in Stream : t # s => sub'[t] = sub[t] /\ piped'[t] = piped[t]
    BY <1>2, <1>3
  <1>6. sub'[s].len = sub[s].len + n /\ sub'[s].beg = sub[s].beg /\ sub'[s].cap = sub[s].cap
    BY <1>3, <1>5 DEF SubType
  <1>7. TypesOK'
    <2>1. sub' \in [Stream -> SubType]
      BY <1>2, <1>3, <1>4 DEF SubType
    <2>2. piped' \in [Stream -> Nat] /\ room' \in Int
      BY <1>2, <1>3, <1>4
    <2> QED
      BY <1>0, <1>1, <2>1, <2>2 DEF TypesOK
  <1>8. ParentFds'
    BY <1>0, <1>1 DEF ParentFds, Undisturbed
  <1>9. ChildFds' /\ Ended'
    BY <1>0, <1>1 DEF ChildFds, Ended
  <1>10. Order'
    BY <1>0, <1>1, <1>3, <1>4, <1>5, StreamFacts DEF Order, Through, Undisturbed
  <1>11. Balance'
    <2> SUFFICES ASSUME intr = 0, NEW t \in Stream
                 PROVE  sub'[t].len + piped'[t] = wrote[t]
      BY <1>1 DEF Balance
    <2>1. sub[t].len + piped[t] = wrote[t]
      BY <1>0 DEF Balance
    <2>2. CASE t = s
      <3>1. sub[s].len + piped[s] = wrote[s]
        BY <2>1, <2>2
      <3>2. (sub[s].len + n) + (piped[s] - n) = wrote[s]
        BY <1>3, <1>4, <3>1
      <3>3. sub'[s].len + piped'[s] = wrote[s]
        BY <1>5, <1>6, <3>2
      <3> QED
        BY <2>2, <3>3
    <2>3. CASE t # s
      BY <1>5, <2>1, <2>3
    <2> QED
      BY <2>2, <2>3
  <1>12. Layout'
    <2> SUFFICES ASSUME intr = 0 PROVE Layout'
      BY <1>1 DEF Layout
    <2>1. Reading(s)'
      BY <1>0, <1>1, <1>2, <1>3, <1>4, <1>6, StreamFacts DEF Layout, Reading
    <2>2. s = "err" => Adjacent'
      BY <1>0, <1>1, <1>5, <1>6, StreamFacts DEF Layout, Adjacent
    <2> QED
      BY <1>1, <2>1, <2>2, StreamFacts DEF Layout, Undisturbed
  <1>13. ZeroMeansSuccess'
    BY <1>0, <1>1 DEF ZeroMeansSuccess, Undisturbed, ExitedWithZero
  <1> QED
    BY <1>7, <1>8, <1>9, <1>10, <1>11, <1>12, <1>13 DEF IInv

LEMMA OpenKeeps ==
  ASSUME IInv, Open
  PROVE  IInv'
  <1>0. TypesOK /\ ParentFds /\ ChildFds /\ Ended /\ Order /\ Balance /\ Layout /\ ZeroMeansSuccess
    BY DEF IInv
  <1> DEFINE fds == pfds \ (Stream \X {"w"})
  <1>1. /\ pc = "open" /\ OpenSub("out", arena, fds)
        /\ UNCHANGED <<prog, cfds, child, wrote, piped, res, intr>>
    BY DEF Open, kid
  <1>2. arena \in ArenaType /\ sub \in [Stream -> SubType] /\ MaxLen \in [Stream -> Nat]
    BY <1>0, ArenasAssumption DEF TypesOK
  <1>3. TrappedThere(arena) \/ Turned("out", arena, fds)
    BY <1>1, <1>2, OpenKinds, StreamFacts
  <1>4. fds = {<<"out", "r">>, <<"err", "r">>}
    BY <1>0, <1>1, StreamFacts DEF ParentFds
  <1> HIDE DEF fds
  <1>5. CASE TrappedThere(arena)
    BY <1>0, <1>1, <1>5
    DEF IInv, TrappedThere, TypesOK, ParentFds, ChildFds, Ended, Order, Balance, Layout,
        ZeroMeansSuccess, Undisturbed, PcType, Through, Adjacent, Reading
  <1>6. CASE Turned("out", arena, fds)
    <2> DEFINE m == MaxLen["out"]
    <2>1. m \in Nat /\ arena.len \in Int /\ arena.cap \in Nat /\ arena.base \in Nat
      BY <1>2, StreamFacts DEF ArenaType
    <2>2. /\ pc' = "out" /\ pfds' = {<<"out", "r">>, <<"err", "r">>}
          /\ arena' = [arena EXCEPT !.len = arena.len + m]
          /\ sub' = [sub EXCEPT !["out"] = [beg |-> arena.len, cap |-> m, len |-> 0]]
          /\ room' = m /\ (m = 0 \/ arena.len + m <= arena.cap)
      BY <1>4, <1>6 DEF Turned
    <2> HIDE DEF m
    <2>3. /\ sub'["out"] = [beg |-> arena.len, cap |-> m, len |-> 0] /\ sub'["err"] = sub["err"]
          /\ sub' \in [Stream -> SubType]
      BY <1>2, <2>1, <2>2, StreamFacts DEF SubType
    <2>4. arena' \in ArenaType /\ arena'.len = arena.len + m /\ arena'.cap = arena.cap
      BY <1>2, <2>1, <2>2 DEF ArenaType
    <2>5. TypesOK'
      BY <1>0, <1>1, <2>1, <2>2, <2>3, <2>4, StreamFacts DEF TypesOK, PcType
    <2>6. ParentFds'
      BY <1>0, <1>1, <2>2 DEF ParentFds, Undisturbed
    <2>7. ChildFds'
      BY <1>0, <1>1 DEF ChildFds
    <2>8. Ended'
      BY <1>0, <1>1, <2>2 DEF Ended
    <2>9. Order'
      BY <1>0, <1>1, <2>2, <2>3 DEF Order, Undisturbed
    <2>10. Balance'
      <3>1. sub["out"].len = 0 /\ sub'["out"].len = 0
        BY <1>0, <1>1, <2>3 DEF Order
      <3> QED
        BY <1>0, <1>1, <2>3, <3>1, StreamFacts DEF Balance
    <2>11. Layout'
      BY <1>0, <1>1, <2>1, <2>2, <2>3, <2>4 DEF Layout, Reading, Undisturbed
    <2>12. ZeroMeansSuccess'
      BY <2>2 DEF ZeroMeansSuccess, Undisturbed
    <2> QED
      BY <2>5, <2>6, <2>7, <2>8, <2>9, <2>10, <2>11, <2>12 DEF IInv
  <1> QED
    BY <1>3, <1>5, <1>6

\* At the end of a stream the child has closed it, having written all of it.
LEMMA EndedStream ==
  ASSUME IInv, NEW s \in Stream, EndOfStream(s)
  PROVE  /\ Through(s) /\ (intr = 0 => sub[s].len = wrote[s])
         /\ pc = s /\ pfds \ {<<s, "r">>} = IF s = "out" THEN {<<"err", "r">>} ELSE {}
         /\ UNCHANGED <<prog, cfds, child, wrote, piped, res, intr>>
  <1>0. TypesOK /\ ParentFds /\ ChildFds /\ Ended /\ Order /\ Balance
    BY DEF IInv
  <1>1. /\ pc = s /\ piped[s] = 0 /\ <<s, "w">> \notin cfds
        /\ UNCHANGED <<prog, cfds, child, wrote, piped, res, intr>>
    BY DEF EndOfStream, HasWriter, kid
  <1>2. wrote[s] = prog[s]
    <2>1. child \in {"forked", "running", "zombie"}
      BY <1>0, <1>1, StreamFacts DEF ParentFds
    <2>2. child # "forked"
      BY <1>0, <1>1, StreamFacts DEF ChildFds
    <2> QED
      BY <1>0, <1>1, <2>1, <2>2, StreamFacts DEF ChildFds, Ended
  <1>3. intr = 0 => sub[s].len = wrote[s]
    <2>1. sub[s].len \in Int /\ wrote[s] \in Nat
      BY <1>0 DEF TypesOK, SubType
    <2> QED
      BY <1>0, <1>1, <2>1 DEF Balance
  <1> QED
    BY <1>0, <1>1, <1>2, <1>3, StreamFacts DEF Through, ParentFds

LEMMA EndOfStreamKeeps ==
  ASSUME IInv, NEW s \in Stream, EndOfStream(s)
  PROVE  IInv'
  <1>0. TypesOK /\ ParentFds /\ ChildFds /\ Ended /\ Order /\ Balance /\ Layout /\ ZeroMeansSuccess
    BY DEF IInv
  <1> DEFINE used == [arena EXCEPT !.len = @ - (sub[s].cap - sub[s].len)]
             fds == pfds \ {<<s, "r">>}
  <1>1. /\ Through(s) /\ (intr = 0 => sub[s].len = wrote[s])
        /\ pc = s /\ fds = IF s = "out" THEN {<<"err", "r">>} ELSE {}
        /\ UNCHANGED <<prog, cfds, child, wrote, piped, res, intr>>
    BY EndedStream
  <1>2. /\ arena \in ArenaType /\ sub \in [Stream -> SubType] /\ sub[s] \in SubType
        /\ MaxLen \in [Stream -> Nat]
    BY <1>0, ArenasAssumption DEF TypesOK
  <1>3. /\ sub[s].beg \in Int /\ sub[s].cap \in Int /\ sub[s].len \in Int
        /\ arena.len \in Int /\ arena.cap \in Nat /\ room \in Int
    BY <1>0, <1>2 DEF SubType, ArenaType, TypesOK
  <1>4. /\ used \in ArenaType /\ used.cap = arena.cap
        /\ used.len = arena.len - (sub[s].cap - sub[s].len)
    BY <1>2, <1>3 DEF ArenaType
  <1>5. intr = 0 => used.len = sub[s].beg + sub[s].len /\ used.len <= used.cap
    BY <1>0, <1>1, <1>3, <1>4, StreamFacts DEF Layout, Reading
  <1>6. \/ s = "out" /\ OpenSub("err", used, fds)
        \/ s = "err" /\ pc' = "wait" /\ pfds' = fds /\ arena' = used /\ UNCHANGED <<sub, room>>
    BY DEF EndOfStream
  <1> HIDE DEF used, fds
  <1>7. CASE s = "err" /\ pc' = "wait" /\ pfds' = fds /\ arena' = used /\ UNCHANGED <<sub, room>>
    <2>1. TypesOK'
      BY <1>0, <1>1, <1>4, <1>7 DEF TypesOK, PcType
    <2>2. ParentFds'
      BY <1>0, <1>1, <1>7 DEF ParentFds, Undisturbed
    <2>3. ChildFds'
      BY <1>0, <1>1 DEF ChildFds
    <2>4. Ended'
      BY <1>0, <1>1, <1>7 DEF Ended
    <2>5. Order'
      BY <1>0, <1>1, <1>7 DEF Order, Through, Undisturbed
    <2>6. Balance'
      BY <1>0, <1>1, <1>7 DEF Balance
    <2>7. Layout'
      BY <1>0, <1>1, <1>5, <1>7 DEF Layout, Adjacent, Undisturbed
    <2>8. ZeroMeansSuccess'
      BY <1>7 DEF ZeroMeansSuccess, Undisturbed
    <2> QED
      BY <2>1, <2>2, <2>3, <2>4, <2>5, <2>6, <2>7, <2>8 DEF IInv
  <1>8. CASE s = "out" /\ TrappedThere(used)
    <2>1. TypesOK'
      BY <1>0, <1>1, <1>4, <1>8 DEF TypesOK, PcType, TrappedThere
    <2>2. ParentFds'
      BY <1>8 DEF ParentFds, TrappedThere, Undisturbed
    <2>3. ChildFds'
      BY <1>0, <1>1 DEF ChildFds
    <2>4. Ended' /\ Order' /\ ZeroMeansSuccess' /\ Layout'
      BY <1>8 DEF Ended, Order, ZeroMeansSuccess, Layout, TrappedThere, Undisturbed
    <2>5. Balance'
      BY <1>0, <1>1, <1>8 DEF Balance, TrappedThere
    <2> QED
      BY <2>1, <2>2, <2>3, <2>4, <2>5 DEF IInv
  <1>9. CASE s = "out" /\ Turned("err", used, fds)
    <2> DEFINE m == MaxLen["err"]
    <2>1. m \in Nat /\ used.len \in Int /\ used.cap \in Nat
      BY <1>2, <1>4, StreamFacts DEF ArenaType
    <2>2. /\ pc' = "err" /\ pfds' = {<<"err", "r">>}
          /\ arena' = [used EXCEPT !.len = used.len + m]
          /\ sub' = [sub EXCEPT !["err"] = [beg |-> used.len, cap |-> m, len |-> 0]]
          /\ room' = m /\ (m = 0 \/ used.len + m <= used.cap)
      BY <1>1, <1>9 DEF Turned
    <2> HIDE DEF m
    <2>3. /\ sub'["err"] = [beg |-> used.len, cap |-> m, len |-> 0] /\ sub'["out"] = sub["out"]
          /\ sub' \in [Stream -> SubType]
      BY <1>2, <2>1, <2>2, StreamFacts DEF SubType
    <2>4. arena' \in ArenaType /\ arena'.len = used.len + m /\ arena'.cap = used.cap
      BY <1>4, <2>1, <2>2 DEF ArenaType
    <2>5. TypesOK'
      BY <1>0, <1>1, <2>1, <2>2, <2>3, <2>4, StreamFacts DEF TypesOK, PcType
    <2>6. ParentFds'
      BY <1>0, <1>1, <1>9, <2>2 DEF ParentFds, Undisturbed
    <2>7. ChildFds'
      BY <1>0, <1>1 DEF ChildFds
    <2>8. Ended'
      BY <1>0, <1>1, <1>9, <2>2 DEF Ended
    <2>9. Order'
      BY <1>1, <1>9, <2>2 DEF Order, Through, Undisturbed
    <2>10. Balance'
      <3>1. sub["err"].len = 0 /\ sub'["err"].len = 0
        BY <1>0, <1>1, <1>9, <2>3 DEF Order
      <3> QED
        BY <1>0, <1>1, <2>3, <3>1, StreamFacts DEF Balance
    <2>11. Layout'
      <3> SUFFICES ASSUME intr = 0 PROVE Reading("err")' /\ Adjacent'
        BY <1>1, <2>2 DEF Layout, Undisturbed
      <3>1. used.len = sub["out"].beg + sub["out"].len /\ used.len <= used.cap
        BY <1>5, <1>9
      <3> QED
        BY <2>1, <2>2, <2>3, <2>4, <3>1 DEF Reading, Adjacent
    <2>12. ZeroMeansSuccess'
      BY <2>2 DEF ZeroMeansSuccess, Undisturbed
    <2> QED
      BY <2>5, <2>6, <2>7, <2>8, <2>9, <2>10, <2>11, <2>12 DEF IInv
  <1>10. s = "out" /\ OpenSub("err", used, fds) => TrappedThere(used) \/ Turned("err", used, fds)
    BY <1>4, OpenKinds, StreamFacts
  <1> QED
    BY <1>6, <1>7, <1>8, <1>9, <1>10

\* A signal ends what Balance, Layout and ZeroMeansSuccess speak of.
LEMMA InterruptKeeps ==
  ASSUME IInv, Interrupt
  PROVE  IInv'
  <1>0. TypesOK /\ ParentFds /\ ChildFds /\ Ended /\ Order /\ Balance /\ Layout /\ ZeroMeansSuccess
    BY DEF IInv
  <1>1. /\ intr' = intr + 1 /\ UNCHANGED <<prog, cfds, child, wrote, piped, pfds, arena>>
        /\ intr \in Nat
    BY <1>0 DEF Interrupt, kid, TypesOK
  <1>2. intr' # 0
    BY <1>1
  <1>3. Balance' /\ Layout' /\ ZeroMeansSuccess' /\ ~Undisturbed'
    BY <1>2 DEF Balance, Layout, ZeroMeansSuccess, Undisturbed
  <1>4. CASE pc = "wait" /\ child # "zombie" /\ Finish(0, 0) /\ UNCHANGED <<sub, room>>
    <2>1. TypesOK'
      BY <1>0, <1>1, <1>4 DEF TypesOK, Finish, PcType
    <2> QED
      BY <1>0, <1>1, <1>3, <1>4, <2>1
      DEF IInv, Finish, ParentFds, ChildFds, Ended, Order, Through
  <1>5. ASSUME NEW s \in Stream, pc = s, Got(s, -1), UNCHANGED <<pc, res>>
        PROVE  IInv'
    <2>1. TypesOK'
      <3>1. sub \in [Stream -> SubType] /\ room \in Int
        BY <1>0 DEF TypesOK
      <3>2. sub' = [sub EXCEPT ![s].len = sub[s].len + (-1)] /\ room' = room - (-1)
        BY <1>5 DEF Got
      <3>3. sub' \in [Stream -> SubType] /\ room' \in Int
        BY <3>1, <3>2 DEF SubType
      <3> QED
        BY <1>0, <1>1, <1>5, <3>3 DEF TypesOK
    <2>2. \A t \in Stream : t # s => sub'[t] = sub[t]
      BY <1>0, <1>5 DEF Got, TypesOK
    <2>3. Order'
      BY <1>0, <1>1, <1>3, <1>5, <2>2, StreamFacts DEF Order, Through
    <2>4. ParentFds' /\ ChildFds' /\ Ended'
      BY <1>0, <1>1, <1>3, <1>5 DEF ParentFds, ChildFds, Ended
    <2> QED
      BY <1>3, <2>1, <2>3, <2>4 DEF IInv
  <1> QED
    BY <1>4, <1>5 DEF Interrupt

LEMMA StutterKeeps == IInv /\ UNCHANGED vars => IInv'
  BY DEF IInv, vars, parent, kid, TypesOK, ParentFds, ChildFds, Ended, Order, Through,
         Balance, Layout, Reading, Adjacent, ZeroMeansSuccess, Undisturbed, ExitedWithZero

LEMMA InitHolds == Init => IInv
  <1> SUFFICES ASSUME Init PROVE IInv
    OBVIOUS
  <1>1. arena \in [base : Nat, len : Nat, cap : Nat] /\ arena.len <= arena.cap
    BY ArenasAssumption DEF Init
  <1>2. TypesOK
    BY <1>1 DEF Init, TypesOK, PcType, ChildType, ArenaType, SubType, NoSub
  <1>3. Balance
    BY StreamFacts DEF Init, Balance, NoSub
  <1>4. Order
    BY StreamFacts DEF Init, Order, NoSub, Undisturbed
  <1>5. ParentFds /\ ChildFds /\ Ended /\ Layout /\ ZeroMeansSuccess
    BY <1>1 DEF Init, ParentFds, ChildFds, Ended, Layout, ZeroMeansSuccess, Undisturbed
  <1> QED
    BY <1>2, <1>3, <1>4, <1>5 DEF IInv

LEMMA NextKeeps == IInv /\ [Next]_vars => IInv'
  <1> SUFFICES ASSUME IInv, [Next]_vars PROVE IInv'
    OBVIOUS
  <1>1. CASE ParentStep
    BY <1>1, MakePipesKeeps, ForkKeeps, OpenKeeps, OutOfRoomKeeps, WaitKeeps, ReadKeeps,
       EndOfStreamKeeps DEF ParentStep
  <1>2. CASE ChildStep
    BY <1>2, ExecKeeps, ChildEndKeeps, ChildWriteKeeps, ChildCloseKeeps, BrokenPipeKeeps
    DEF ChildStep
  <1>3. CASE Interrupt
    BY <1>3, InterruptKeeps
  <1>4. CASE UNCHANGED vars
    BY <1>4, StutterKeeps
  <1> QED
    BY <1>1, <1>2, <1>3, <1>4 DEF Next

----------------------------------------------------------------------------
\* Theorems

\* The strengthening is an invariant: where parent and child are tells which ends
\* are open, what has been written and where the sub-buffers lie.
THEOREM Invariance == Spec => []IInv
  BY InitHolds, NextKeeps, PTL DEF Spec

\* What a successful call hands back is all the command wrote, for every length,
\* pipe capacity and interleaving of parent and child.
THEOREM CaptureCorrect == Spec => []CaptureComplete
  <1>1. IInv => CaptureComplete
    <2> SUFFICES ASSUME IInv, Undisturbed
                 PROVE  /\ \A s \in Stream : sub[s].len = prog[s]
                        /\ sub["err"].beg = sub["out"].beg + prog.out
                        /\ arena.len = sub["err"].beg + prog.err
      BY DEF CaptureComplete
    <2>1. intr = 0 /\ Through("out") /\ Through("err")
      BY DEF IInv, Order, Undisturbed
    <2>2. \A s \in Stream : sub[s].len \in Int /\ sub[s].len + piped[s] = wrote[s]
      BY <2>1 DEF IInv, TypesOK, SubType, Balance
    <2>3. \A s \in Stream : sub[s].len = prog[s]
      BY <2>1, <2>2, StreamFacts DEF Through
    <2>4. prog["out"] = prog.out /\ prog["err"] = prog.err
      OBVIOUS
    <2>5. Adjacent /\ arena.len = sub["err"].beg + sub["err"].len
      BY <2>1 DEF IInv, Layout
    <2> QED
      BY <2>3, <2>4, <2>5, StreamFacts DEF Adjacent
  <1> QED
    BY <1>1, Invariance, PTL

\* No read stores a byte outside its sub-buffer, in every state.
THEOREM ReadsCorrect == Spec => []ReadsStayInside
  <1>1. IInv => ReadsStayInside
    BY StreamFacts DEF IInv, Layout, Reading, ReadsStayInside
  <1> QED
    BY <1>1, Invariance, PTL

\* A successful call leaves no pipe end and no child behind.
THEOREM ReleaseCorrect == Spec => []SuccessReleasesAll
  <1>1. IInv => SuccessReleasesAll
    BY DEF IInv, ParentFds, ChildFds, SuccessReleasesAll
  <1> QED
    BY <1>1, Invariance, PTL

\* The status is 0 for exit(0) and for nothing else, whatever the code or signal.
THEOREM ExitStatusCorrect == Spec => []ZeroMeansSuccess
  <1>1. IInv => ZeroMeansSuccess
    BY DEF IInv
  <1> QED
    BY <1>1, Invariance, PTL
============================================================================
