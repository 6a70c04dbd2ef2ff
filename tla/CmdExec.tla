------------------------------ MODULE CmdExec ------------------------------
(***************************************************************************)
(* cmd_exec of io/cmd.h: a parent forks a child that runs a command with   *)
(* its stdout and stderr on two pipes; the parent drains stdout to its     *)
(* end, then stderr to its end, into two sub-buffers of an arena, and then *)
(* waits.  Parent and child are processes: their steps interleave.         *)
(*                                                                         *)
(* The operating system (pipes, read, write, waitpid) is external and      *)
(* modelled from the way cmd.h uses it.  Bytes are counted, not named.     *)
(***************************************************************************)
EXTENDS BufOps, FiniteSets

CONSTANTS
  Programs,   \* what the child may turn out to do, see ProgramsAssumption
  PipeCap,    \* bytes a pipe holds before a writer blocks
  MaxLen,     \* out_maxlen and err_maxlen, by stream
  Arenas,     \* the states the arena may be in when cmd_exec is called
  MaxIntr     \* bound: signals that interrupt the parent in a blocking call

ENOMEM == 12

Stream == {"out", "err"}
Fds == Stream \X {"r", "w"}

\* A program writes so many bytes to each stream, in any order, may close them
\* early, and ends: by exit, or by a signal.  When execl fails the child itself calls
\* exit(EXIT_FAILURE), having written what stdio had buffered before the fork.
ProgramType == [out : Nat, err : Nat, early : BOOLEAN,
                end : {"exit", "signal"}, code : Nat]

ASSUME ProgramsAssumption ==
  /\ Programs \subseteq ProgramType
  /\ \A p \in Programs : IF p.end = "exit" THEN p.code < 256 ELSE p.code \in 1..126
ASSUME PipesAssumption == PipeCap \in Nat \ {0} /\ MaxIntr \in Nat
ASSUME ArenasAssumption ==
  /\ MaxLen \in [Stream -> Nat]
  /\ \A a \in Arenas : a \in [base : Nat, len : Nat, cap : Nat] /\ a.len <= a.cap

VARIABLES
  prog,   \* what the child will do
  pc,     \* where the parent is: "pipe", "fork", "open", a stream, "wait", "done"
  pfds,   \* pipe ends the parent holds
  cfds,   \* pipe ends the child holds
  child,  \* "none", "forked", "running", "zombie" or "reaped"
  wrote,  \* bytes the child has written, by stream
  piped,  \* bytes in each pipe
  arena,  \* the arena *a
  sub,    \* bout and berr: offset, cap and len
  room,   \* the local variable cap
  res,    \* the result: err and data.status
  intr    \* signals so far

parent == <<pc, pfds, arena, sub, room, res, intr>>
kid == <<prog, cfds, child, wrote>>
vars == <<parent, kid, piped>>

NoSub == [beg |-> 0, cap |-> 0, len |-> 0]

Init ==
  /\ prog \in Programs
  /\ pc = "pipe"
  /\ pfds = {} /\ cfds = {}
  /\ child = "none"
  /\ wrote = [s \in Stream |-> 0]
  /\ piped = [s \in Stream |-> 0]
  /\ arena \in Arenas
  /\ sub = [s \in Stream |-> NoSub]
  /\ room = 0
  /\ res = [err |-> 0, status |-> 0]
  /\ intr = 0

----------------------------------------------------------------------------
\* Parent

Finish(err, status) == pc' = "done" /\ res' = [err |-> err, status |-> status]

\* err = (pipe(stdout_pipe) == -1 || pipe(stderr_pipe) == -1): the ends of the
\* first pipe stay open when the second one cannot be made.
MakePipes ==
  /\ pc = "pipe"
  /\ \/ pfds' = Fds /\ pc' = "fork" /\ UNCHANGED res
     \/ pfds' \in {{}, {"out"} \X {"r", "w"}} /\ Finish(1, 0)
  /\ UNCHANGED <<kid, piped, arena, sub, room, intr>>

Fork ==
  /\ pc = "fork"
  /\ \/ /\ child' = "forked" /\ cfds' = pfds
        /\ pc' = "open" /\ UNCHANGED res
     \/ Finish(1, 0) /\ UNCHANGED <<child, cfds>>
  /\ UNCHANGED <<prog, wrote, piped, pfds, arena, sub, room, intr>>

\* buf_new2(a, maxlen, ALLOC_NOZERO), and then the loop of that stream; no
\* ALLOC_SOFTFAIL, so the program traps when the arena has no room, and what it
\* had open closes with it.
OpenSub(s, a, fds) ==
  LET r == Alloc(a, 1, 1, MaxLen[s], FALSE) IN
  IF r.out = "trap"
  THEN pc' = "trapped" /\ pfds' = {} /\ arena' = a /\ UNCHANGED <<sub, room>>
  ELSE /\ pc' = s
       /\ pfds' = fds
       /\ arena' = r.buf
       /\ sub' = [sub EXCEPT ![s] = [beg |-> r.beg, cap |-> MaxLen[s], len |-> 0]]
       /\ room' = MaxLen[s]

\* Mutant: the parent keeps its write ends.
OpenKeepsEnds ==
  /\ pc = "open"
  /\ OpenSub("out", arena, pfds)
  /\ UNCHANGED <<kid, piped, res, intr>>

Open ==
  /\ pc = "open"
  /\ OpenSub("out", arena, pfds \ (Stream \X {"w"}))
  /\ UNCHANGED <<kid, piped, res, intr>>

\* if (cap <= 0) return ENOMEM: also when everything has been read.
OutOfRoom ==
  /\ pc \in Stream /\ room <= 0
  /\ Finish(ENOMEM, 0)
  /\ UNCHANGED <<kid, piped, pfds, arena, sub, room, intr>>

\* Mutant: the room left is not kept up to date.
GotKeepRoom(s, n) == sub' = [sub EXCEPT ![s].len = @ + n] /\ UNCHANGED room

\* bout.len += num_bytes; cap -= num_bytes
Got(s, n) ==
  /\ sub' = [sub EXCEPT ![s].len = @ + n]
  /\ room' = room - n

\* read() delivers any part of what the pipe holds.
Read(s) ==
  /\ pc = s /\ room > 0
  /\ \E n \in 1 .. piped[s] :
       /\ n <= room
       /\ Got(s, n)
       /\ piped' = [piped EXCEPT ![s] = @ - n]
  /\ UNCHANGED <<kid, pc, pfds, arena, res, intr>>

HasWriter(s) == <<s, "w">> \in pfds \cup cfds

\* Mutants: the sub-buffer keeps all it was given; the read end stays open.
EndKeepsBlock(s) ==
  LET fds == pfds \ {<<s, "r">>} IN
  /\ pc = s /\ room > 0
  /\ piped[s] = 0 /\ ~HasWriter(s)
  /\ \/ s = "out" /\ OpenSub("err", arena, fds)
     \/ s = "err" /\ pc' = "wait" /\ pfds' = fds /\ UNCHANGED <<arena, sub, room>>
  /\ UNCHANGED <<kid, piped, res, intr>>
EndKeepsFd(s) ==
  LET used == [arena EXCEPT !.len = @ - (sub[s].cap - sub[s].len)] IN
  /\ pc = s /\ room > 0
  /\ piped[s] = 0 /\ ~HasWriter(s)
  /\ \/ s = "out" /\ OpenSub("err", used, pfds)
     \/ s = "err" /\ pc' = "wait" /\ arena' = used /\ UNCHANGED <<pfds, sub, room>>
  /\ UNCHANGED <<kid, piped, res, intr>>

\* read() returns 0 when the pipe is empty and no write end is left: buf_shrink
\* gives back what the sub-buffer did not need, the read end is closed, and the
\* parent turns to the next stream.
EndOfStream(s) ==
  LET used == [arena EXCEPT !.len = @ - (sub[s].cap - sub[s].len)]
      fds  == pfds \ {<<s, "r">>}
  IN
  /\ pc = s /\ room > 0
  /\ piped[s] = 0 /\ ~HasWriter(s)
  /\ \/ s = "out" /\ OpenSub("err", used, fds)
     \/ /\ s = "err"
        /\ pc' = "wait" /\ pfds' = fds /\ arena' = used
        /\ UNCHANGED <<sub, room>>
  /\ UNCHANGED <<kid, piped, res, intr>>

\* waitpid, and WEXITSTATUS if WIFEXITED: the wait status of a child killed by
\* a signal is kept as it is.
WaitStatus == IF prog.end = "exit" THEN prog.code * 256 ELSE prog.code

\* Mutant: WEXITSTATUS whatever the way the child ended.
WaitAlwaysExited ==
  /\ pc = "wait" /\ child = "zombie"
  /\ child' = "reaped"
  /\ Finish(0, WaitStatus \div 256)
  /\ UNCHANGED <<prog, cfds, wrote, piped, pfds, arena, sub, room, intr>>

Wait ==
  /\ pc = "wait" /\ child = "zombie"
  /\ child' = "reaped"
  /\ Finish(0, IF WaitStatus % 128 = 0 THEN WaitStatus \div 256 ELSE WaitStatus)
  /\ UNCHANGED <<prog, cfds, wrote, piped, pfds, arena, sub, room, intr>>

\* A signal handled in the parent while it blocks: read returns -1, which is
\* added to the length like any count; waitpid returns -1 and leaves the status
\* as it was, 0.
Interrupt ==
  /\ intr < MaxIntr
  /\ intr' = intr + 1
  /\ \/ \E s \in Stream : /\ pc = s /\ room > 0
                          /\ piped[s] = 0 /\ HasWriter(s)
                          /\ Got(s, -1)
                          /\ UNCHANGED <<pc, res>>
     \/ pc = "wait" /\ child # "zombie" /\ Finish(0, 0) /\ UNCHANGED <<sub, room>>
  /\ UNCHANGED <<kid, piped, pfds, arena>>

ParentStep == \/ MakePipes \/ Fork \/ Open \/ OutOfRoom \/ Wait
              \/ \E s \in Stream : Read(s) \/ EndOfStream(s)

----------------------------------------------------------------------------
\* Child

\* dup2 and close leave it with the two write ends; then execl.
Exec ==
  /\ child = "forked"
  /\ child' = "running"
  /\ cfds' = cfds \ (Stream \X {"r"})
  /\ UNCHANGED <<parent, prog, wrote, piped>>

ChildWrite(s) ==
  /\ child = "running" /\ <<s, "r">> \in pfds
  /\ \E n \in 1 .. prog[s] - wrote[s] :
       /\ piped[s] + n <= PipeCap
       /\ wrote' = [wrote EXCEPT ![s] = @ + n]
       /\ piped' = [piped EXCEPT ![s] = @ + n]
  /\ UNCHANGED <<parent, prog, cfds, child>>

\* SIGPIPE: the parent trapped, nobody reads any more.
BrokenPipe(s) ==
  /\ child = "running" /\ <<s, "r">> \notin pfds
  /\ wrote[s] < prog[s]
  /\ child' = "zombie" /\ cfds' = {}
  /\ UNCHANGED <<parent, prog, wrote, piped>>

\* A stream ends before the process does: exit closes one after the other, and
\* a program may close one as soon as it is done with it.
ChildClose(s) ==
  /\ child = "running" /\ <<s, "w">> \in cfds
  /\ \A t \in (IF prog.early THEN {s} ELSE Stream) : wrote[t] = prog[t]
  /\ cfds' = cfds \ {<<s, "w">>}
  /\ UNCHANGED <<parent, prog, child, wrote, piped>>

ChildEnd ==
  /\ child = "running" /\ cfds = {}
  /\ child' = "zombie"
  /\ UNCHANGED <<parent, prog, cfds, wrote, piped>>

ChildStep ==
  \/ Exec \/ ChildEnd
  \/ \E s \in Stream : ChildWrite(s) \/ ChildClose(s) \/ BrokenPipe(s)

----------------------------------------------------------------------------
Next == ParentStep \/ ChildStep \/ Interrupt

Spec == Init /\ [][Next]_vars

\* The kernel keeps scheduling both processes, and the command is one that does
\* not stop by itself before it has written everything.
FairSpec == Spec /\ WF_vars(ParentStep) /\ WF_vars(ChildStep)

----------------------------------------------------------------------------
\* Properties

\* Interrupted calls spoil the lengths and the status: the properties about
\* them are for runs in which no signal came.
Undisturbed == pc = "done" /\ res.err = 0 /\ intr = 0

\* A successful call has captured all the child wrote to either stream, in two
\* blocks that lie one behind the other and end where the arena does
\* (cmd.h:91-92, 106-107).
CaptureComplete ==
  Undisturbed =>
    /\ \A s \in Stream : sub[s].len = prog[s]
    /\ sub["err"].beg = sub["out"].beg + prog.out
    /\ arena.len = sub["err"].beg + prog.err

\* What has been read never passes the end of the sub-buffer, and room is what
\* is left of it: no read() stores a byte outside (cmd.h:86-89).
ReadsStayInside ==
  \A s \in Stream : pc = s /\ intr = 0 =>
    /\ 0 <= sub[s].len /\ sub[s].len + room = sub[s].cap
    /\ sub[s].beg + sub[s].cap = arena.len /\ arena.len <= arena.cap

\* A successful call leaves nothing behind: no pipe end open, no child running
\* and no zombie (cmd.h:73-74, 93, 108, 111).
SuccessReleasesAll == Undisturbed => pfds = {} /\ cfds = {} /\ child = "reaped"

\* The status is 0 exactly if the command ended by exit(0): neither an exit code
\* nor a deadly signal is lost on the way (cmd.h:111-112).
ExitedWithZero == prog.end = "exit" /\ prog.code = 0
ZeroMeansSuccess == Undisturbed => (res.status = 0 <=> ExitedWithZero)

Over == pc \in {"done", "trapped"}

\* The parent comes back from a command that writes no more to stderr than a
\* pipe holds, however the processes interleave (cmd.h:80-112).
ReturnsIfErrFits == prog.err <= PipeCap ~> Over

\* "Wait for the child process to finish" (cmd.h:110): the parent comes back
\* from every command.  One that fills the stderr pipe while the parent still
\* reads stdout (the TODO of cmd.h:80) blocks both for ever.
CmdReturns == <>Over
============================================================================
