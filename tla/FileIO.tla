------------------------------- MODULE FileIO -------------------------------
(***************************************************************************)
(* io/file.h and io/file.hpp: file_exists, file_size, file_read and        *)
(* file_write, called with paths and texts that the program has made in    *)
(* its arena, while other processes change the same files between any two  *)
(* of their system calls.                                                  *)
(*                                                                         *)
(* The file system and stdio are not part of the repository: names lead to *)
(* numbered nodes, and an open stream stays with its node when the name is *)
(* given another one.  As in glibc, fwrite hands whole blocks on at once   *)
(* and leaves the rest to fclose, and fread reads whole blocks and then    *)
(* the rest, with other processes writing in between.                      *)
(***************************************************************************)
EXTENDS StrMem, SequencesExt

CONSTANTS
  Names,      \* the names that exist or may be created: sequences of characters
  Nodes,      \* what others may put there: [kind |-> "file" or "dir", data]
  BlockSize,  \* the size of stdio's buffer
  MaxChanges, \* bound on the changes others make
  MaxEvents,  \* bound on calls of the file functions, changes and resets together
  Langs       \* "c" and "cpp"

ASSUME FileAssumption ==
  /\ Names # {} /\ BlockSize \in Nat \ {0}
  /\ \A n \in Nodes : /\ n = [kind |-> n.kind, data |-> n.data] /\ n.kind \in {"file", "dir"}
                       /\ n.data \in Seq(Range(n.data)) /\ (n.kind = "dir" => n.data = <<>>)

VARIABLES
  lang,   \* the library
  fs,     \* the node each name leads to, 0 for none
  nodes,  \* the nodes
  call,   \* the call under way, or the last one
  world   \* for the bounds and the properties: how many events and changes
          \* there were, whether the call under way was left alone and the device
          \* failed it, and what the file it reads has held since it was opened

fileVars == <<lang, fs, nodes, call, world>>
vars == <<strVars, fileVars>>

EBADF == 9
ENOENT == 2
EIO == 5
EACCES == 13
EISDIR == 21

Idle == [op |-> "none", pc |-> "done", name |-> <<>>, src |-> <<>>, size |-> 0,
         node |-> 0, before |-> <<>>, nbytes |-> 0, err |-> 0, data |-> StrNull]

Init ==
  /\ StrInit
  /\ lang \in Langs
  /\ \/ nodes = <<>> /\ fs = [n \in Names |-> 0]
     \/ /\ nodes \in {<<n>> : n \in Nodes}
        /\ \E name \in Names : fs = [n \in Names |-> IF n = name THEN 1 ELSE 0]
  /\ call = Idle
  /\ world = [events |-> 0, changes |-> 0, alone |-> TRUE, failed |-> FALSE, asked |-> Idle,
             held |-> {}]

----------------------------------------------------------------------------
\* Calls

\* The name a Str leads to as a C string: up to the first terminator.
CString(s) ==
  LET end == Min({i \in Bytes : i >= s.beg /\ mem[i] = NUL}) IN
  [i \in 1 .. end - s.beg |-> mem[s.beg + i - 1]]

\* What all four functions test first, !path.buf || !path.len and IsNullTerm.
GoodPath(s) == s # StrNull /\ s.len > 0 /\ mem[s.beg + s.len] = NUL

NodeOf(name) == IF name \in Names THEN fs[name] ELSE 0
KindOf(name) == IF NodeOf(name) = 0 THEN "none" ELSE nodes[NodeOf(name)].kind
SizeOf(name) == Len(nodes[NodeOf(name)].data)

Ready == alive /\ call.pc = "done" /\ world.events < MaxEvents

\* The call comes to its end, or goes on at pc.
Done(c, err) == [c EXCEPT !.pc = "done", !.err = err]
Goes(c) == call' = c
OnlyCall == UNCHANGED <<strVars, lang, fs, nodes, world>>

\* A call begins: a path that is none is refused with EBADF at once.
Begin(op, path, src) ==
  LET name == IF GoodPath(path) THEN CString(path) ELSE <<>>
      c == [Idle EXCEPT !.op = op, !.name = name, !.src = src, !.pc = "stat"]
  IN /\ Ready
     /\ Goes(IF GoodPath(path) THEN c ELSE Done(c, EBADF))
     /\ world' = [world EXCEPT !.events = @ + 1, !.alone = TRUE, !.failed = FALSE,
                                !.held = {}, !.asked = IF op \in {"w", "a"} THEN Idle ELSE @]
     /\ UNCHANGED <<strVars, lang, fs, nodes>>

BeginExists == \E path \in Range(strs) : Begin("exists", path, <<>>)
BeginSize == \E path \in Range(strs) : Begin("size", path, <<>>)
BeginRead == \E path \in Range(strs) : Begin("read", path, <<>>)
\* The modes are "w" and "a".
BeginWrite ==
  \E path, s \in Range(strs), mode \in {"w", "a"} : s.kept = s.len /\ Begin(mode, path, View(s))

\* file_exists and file_size ask once; a directory exists, and C refuses to tell
\* its size while C++ tells it (file.hpp:44).
DirSize == 4096
Ask ==
  /\ alive /\ call.pc = "stat" /\ call.op \in {"exists", "size"}
  /\ LET kind == KindOf(call.name)
         answer ==
           CASE kind = "none" -> Done(call, ENOENT)
             [] kind = "dir" /\ call.op = "exists" -> Done(call, 0)
             [] kind = "dir" /\ call.op = "size" ->
                  IF lang = "c" THEN Done(call, EBADF) ELSE Done([call EXCEPT !.size = DirSize], 0)
             [] kind = "file" -> Done([call EXCEPT !.size = SizeOf(call.name)], 0)
     IN /\ Goes(answer)
        /\ world' = [world EXCEPT !.asked = answer]
  /\ UNCHANGED <<strVars, lang, fs, nodes>>

\* file_read: stat.
ReadStat ==
  /\ alive /\ call.pc = "stat" /\ call.op = "read"
  /\ LET kind == KindOf(call.name) IN
     Goes(CASE kind = "none" -> Done(call, ENOENT)
            [] kind = "dir" -> Done(call, EBADF)
            [] kind = "file" -> [call EXCEPT !.size = SizeOf(call.name), !.pc = "open"])
  /\ OnlyCall

\* fopen "rb", which opens a directory as well, and str_new.
ReadOpen ==
  /\ alive /\ call.pc = "open" /\ call.op = "read"
  /\ \/ /\ NodeOf(call.name) = 0
        /\ Goes(Done(call, ENOENT)) /\ OnlyCall
     \/ /\ Goes(Done(call, EACCES))
        /\ world' = [world EXCEPT !.failed = TRUE]
        /\ UNCHANGED <<strVars, lang, fs, nodes>>
     \/ /\ NodeOf(call.name) # 0
        /\ LET s == StrNew(call.size) IN
           \/ Trap(s.alloc) /\ UNCHANGED fileVars
           \/ /\ s.alloc.out = "ok"
              /\ arena' = s.alloc.buf
              /\ Goes([call EXCEPT !.pc = "data", !.node = NodeOf(call.name), !.data = s.data])
              /\ world' = [world EXCEPT !.held = {nodes[NodeOf(call.name)].data}]
              /\ UNCHANGED <<mem, strs, alive, lang, fs, nodes>>

\* What fread asks of one read(2): all the whole blocks it still wants, or, with
\* less than a block to go, the rest.
Wanted(got) ==
  LET rest == call.size - got IN
  IF rest >= BlockSize THEN (rest \div BlockSize) * BlockSize ELSE rest

\* One read(2) of fread: from the place reached it gets what the file holds now,
\* or, as read(2) may, less of it.
ReadData ==
  /\ alive /\ call.pc = "data" /\ call.op = "read"
  /\ LET data == nodes[call.node].data
         got == call.nbytes
     IN \E n \in 1 .. Min({Wanted(got), Len(data) - got}) :
          /\ mem' = Stored(call.data.beg + got, SubSeq(data, got + 1, got + n), FALSE)
          /\ Goes([call EXCEPT !.nbytes = got + n])
  /\ UNCHANGED <<arena, strs, alive, lang, fs, nodes, world>>

\* Mutant: what was read is returned, however little it is.
ReadEndShort ==
  /\ alive /\ call.pc = "data" /\ call.op = "read"
  /\ LET got == call.nbytes
         s == Str(call.data.beg, call.size, View(call.data), call.size, "none")
     IN /\ strs' = Append(strs, s)
        /\ Goes(Done([call EXCEPT !.data = s], 0))
        /\ world' = [world EXCEPT !.failed = @ \/ got < Min({call.size, Len(nodes[call.node].data)})]
  /\ UNCHANGED <<arena, mem, alive, lang, fs, nodes>>

\* fread has all, the file ends here or the device fails; fclose.
ReadEnd ==
  /\ alive /\ call.pc = "data" /\ call.op = "read"
  /\ LET got == call.nbytes
         ok == got = call.size
         s == Str(call.data.beg, call.size, View(call.data), call.size, "none")
     IN /\ strs' = IF ok THEN Append(strs, s) ELSE strs
        /\ Goes(Done([call EXCEPT !.data = IF ok THEN s ELSE StrNull], IF ok THEN 0 ELSE EIO))
        /\ world' = [world EXCEPT !.failed = @ \/ (~ok /\ got < Len(nodes[call.node].data))]
  /\ UNCHANGED <<arena, mem, alive, lang, fs, nodes>>

----------------------------------------------------------------------------
\* file_write: fopen creates the file, and "w" empties it.
WriteOpen ==
  /\ alive /\ call.pc = "stat" /\ call.op \in {"w", "a"}
  /\ LET kind == KindOf(call.name)
         new == Len(nodes) + 1
         c == [call EXCEPT !.pc = "fwrite"]
     IN
     \/ /\ Goes(Done(call, EACCES))
        /\ world' = [world EXCEPT !.failed = TRUE]
        /\ UNCHANGED <<fs, nodes>>
     \/ /\ kind = "dir"
        /\ Goes(Done(call, EISDIR))
        /\ UNCHANGED <<fs, nodes, world>>
     \/ /\ kind = "none" /\ call.name \in Names
        /\ fs' = [fs EXCEPT ![call.name] = new]
        /\ nodes' = Append(nodes, [kind |-> "file", data |-> <<>>])
        /\ Goes([c EXCEPT !.node = new])
        /\ UNCHANGED world
     \/ /\ kind = "file"
        /\ LET n == NodeOf(call.name)
               before == IF call.op = "w" THEN <<>> ELSE nodes[n].data
           IN /\ nodes' = [nodes EXCEPT ![n].data = before]
              /\ Goes([c EXCEPT !.node = n, !.before = before])
        /\ UNCHANGED <<fs, world>>
  /\ UNCHANGED <<strVars, lang>>

\* The device takes the first n bytes of text, all of them unless it fails.
Appended(text, n) ==
  /\ nodes' = [nodes EXCEPT ![call.node].data = @ \o SubSeq(text, 1, n)]
  /\ world' = [world EXCEPT !.failed = @ \/ n < Len(text)]

\* Mutant: what reached the device is not looked at.
FwriteBlind ==
  /\ alive /\ call.pc = "fwrite"
  /\ LET direct == (Len(call.src) \div BlockSize) * BlockSize IN
     \E n \in 0 .. direct :
       /\ Appended(SubSeq(call.src, 1, direct), n)
       /\ Goes([call EXCEPT !.pc = "fclose", !.nbytes = Len(call.src)])
  /\ UNCHANGED <<strVars, lang, fs>>

\* fwrite hands on the whole blocks; it comes short if that fails.
Fwrite ==
  /\ alive /\ call.pc = "fwrite"
  /\ LET direct == (Len(call.src) \div BlockSize) * BlockSize IN
     \E n \in 0 .. direct :
       /\ Appended(SubSeq(call.src, 1, direct), n)
       /\ Goes([call EXCEPT !.pc = "fclose", !.nbytes = IF n < direct THEN n ELSE Len(call.src)])
  /\ UNCHANGED <<strVars, lang, fs>>

\* fclose writes the rest, and its result is ignored.
Fclose ==
  /\ alive /\ call.pc = "fclose"
  /\ LET direct == (Len(call.src) \div BlockSize) * BlockSize
         rest == IF call.nbytes = Len(call.src) THEN SubSeq(call.src, direct + 1, Len(call.src)) ELSE <<>>
     IN \E n \in 0 .. Len(rest) : Appended(rest, n)
  /\ Goes(Done(call, IF call.nbytes = Len(call.src) THEN 0 ELSE EIO))
  /\ UNCHANGED <<strVars, lang, fs>>

----------------------------------------------------------------------------
\* Another process replaces what a name leads to, removes it, or writes into it.
Others ==
  /\ alive /\ world.changes < MaxChanges /\ world.events < MaxEvents
  /\ \E name \in Names :
       \/ /\ \E n \in Nodes : /\ nodes' = Append(nodes, n)
                              /\ fs' = [fs EXCEPT ![name] = Len(nodes) + 1]
       \/ /\ fs[name] # 0
          /\ fs' = [fs EXCEPT ![name] = 0] /\ UNCHANGED nodes
       \/ /\ KindOf(name) = "file"
          /\ \E n \in Nodes : n.kind = "file" /\ nodes' = [nodes EXCEPT ![fs[name]] = n]
          /\ UNCHANGED fs
  /\ world' = [world EXCEPT !.events = @ + 1, !.changes = @ + 1, !.alone = FALSE, !.asked = Idle,
                            !.held = IF call.pc = "data" THEN @ \cup {nodes'[call.node].data} ELSE @]
  /\ UNCHANGED <<strVars, lang, call>>

Program ==
  /\ alive /\ call.pc = "done"
  /\ \/ MakeStr /\ UNCHANGED world
     \/ /\ strs # <<>> /\ world.events < MaxEvents
        /\ Reset
        /\ world' = [world EXCEPT !.events = @ + 1]
  /\ UNCHANGED <<lang, fs, nodes, call>>

Next ==
  \/ Program
  \/ BeginExists \/ BeginSize \/ BeginRead \/ BeginWrite
  \/ Ask \/ ReadStat \/ ReadOpen \/ ReadData \/ ReadEnd
  \/ WriteOpen \/ Fwrite \/ Fclose
  \/ Others

\* Only between two calls, or after a trap, may nothing happen any more.
Stopped == (call.pc = "done" \/ ~alive) /\ UNCHANGED vars

Spec == Init /\ [][Next \/ Stopped]_vars

----------------------------------------------------------------------------
\* Properties

\* c was the i-th character of the file that is read at some time since it was
\* opened.
WasThere(c, i) == \E data \in world.held : i <= Len(data) /\ c = data[i]

\* A read that succeeds returns as many bytes as stat announced, and each of them
\* is one that the file it opened had at that place while it was open: nothing of
\* another file that the name led to before or after, nothing left over in memory,
\* also if the file grows, shrinks or is rewritten between two pieces.  Left alone,
\* and with a device that does not fail, it returns the whole file, and only a file
\* that is none is refused.  It then has the size that file_size told
\* (file.h:49-82).
ReadIsOfOneFile ==
  (alive /\ call.op = "read" /\ call.pc = "done" /\ call.name # <<>>) =>
    LET data == nodes[call.node].data
        kind == KindOf(call.name)
    IN
    /\ call.err = 0 => /\ call.data.len = call.size /\ call.data.kept = call.size
                       /\ \A i \in 1 .. call.size : WasThere(call.data.text[i], i)
    /\ (call.err = 0 /\ world.alone) => call.data.text = data /\ call.data.len = Len(data)
    /\ (world.alone /\ ~world.failed) =>
         call.err = CASE kind = "none" -> ENOENT [] kind = "dir" -> EBADF [] kind = "file" -> 0
    /\ (call.err = 0 /\ world.asked.name = call.name /\ world.asked.op = "size") =>
         world.asked.size = call.data.len

\* A write that succeeds has put the text where it belongs, but for what fclose
\* could not write, which is less than a block; if it fails after fopen it is
\* because the device did (file.h:84-106).
WriteLosesLessThanABlock ==
  (alive /\ call.op \in {"w", "a"} /\ call.pc = "done" /\ call.node # 0 /\ world.alone) =>
    LET wanted == call.before \o call.src
        data == nodes[call.node].data
    IN /\ IsPrefix(data, wanted)
       /\ call.err = 0 => Len(wanted) - Len(data) < BlockSize
       /\ ~world.failed => call.err = 0 /\ data = wanted

\* A copy made with a terminator is a path, whatever the program makes after it;
\* a formatted string is one as long as it is the last ("But buf is proper",
\* test_builtin_str.c:124), since what is made next goes over its terminator.
\* And what is taken for a path leads to the name its text spells, unless the
\* text was cut off or holds a terminator itself (file.h:21-22, str.h:42).
PathsTell ==
  \A k \in DOMAIN strs :
    LET s == strs[k] IN
    /\ (s.term = "kept" \/ (s.term = "passing" /\ s.len > 0 /\ s.beg + s.len = arena.len)) => GoodPath(s)
    /\ (GoodPath(s) /\ s.kept = s.len /\ NUL \notin Range(s.text)) => CString(s) = s.text
============================================================================
