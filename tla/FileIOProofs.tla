---------------------------- MODULE FileIOProofs ----------------------------
(* Proofs about FileIO and the strings of StrMem it is called with: for any  *)
(* texts, limits, arena and stdio buffer, and for other processes that       *)
(* change the files at any time.                                             *)
EXTENDS FileIO, SequenceTheorems, NatLemmas

----------------------------------------------------------------------------
\* Types

\* The characters of the texts and files, and what a byte of memory may hold.
Char == UNION ({Range(t) : t \in Texts} \cup {Range(n.data) : n \in Nodes})
Byte == Char \cup {NUL, Garbage}

StrType == [beg : Int, len : Int, text : Seq(Char), kept : Int,
            term : {"kept", "passing", "none"}]
NodeType == [kind : {"file", "dir"}, data : Seq(Char)]
Ops == {"none", "exists", "size", "read", "w", "a"}
Pcs == {"stat", "open", "data", "fwrite", "fclose", "done"}
CallType == [op : Ops, pc : Pcs,
             name : Seq(Byte), src : Seq(Char), size : Nat, node : Nat,
             before : Seq(Char), nbytes : Nat, err : Nat, data : StrType]
WorldType == [events : Nat, changes : Nat, alone : BOOLEAN, failed : BOOLEAN, asked : CallType,
              held : SUBSET Seq(Char)]

MemTypes ==
  /\ arena = [base |-> 64, len |-> arena.len, cap |-> Cap] /\ arena.len \in Nat
  /\ mem \in [Bytes -> Byte]
  /\ strs \in Seq(StrType)
  /\ alive \in BOOLEAN

FileTypes ==
  /\ nodes \in Seq(NodeType)
  /\ fs \in [Names -> 0 .. Len(nodes)]
  /\ call \in CallType
  /\ world \in WorldType

----------------------------------------------------------------------------
\* The invariant of the strings

\* What a string says is true of the memory: the bytes it keeps are there, a
\* terminator for good is, and so is a passing one while nothing is made after it.
Sound(s) ==
  /\ s.len = Len(s.text) /\ s.kept \in 0 .. s.len
  /\ s.beg \in Nat \/ s = StrNull
  /\ \A i \in 1 .. s.kept : mem[s.beg + i - 1] = s.text[i]
  /\ s.kept > 0 => s.beg + s.kept <= Cap
  /\ s.term = "kept" => s.beg \in Nat /\ s.len > 0 /\ s.beg + s.len < Cap
                        /\ mem[s.beg + s.len] = NUL
  /\ (s.term = "passing" /\ s.beg + s.len = arena.len) =>
       s.beg \in Nat /\ s.beg + s.len < Cap /\ mem[s.beg + s.len] = NUL

\* It ends before top, with its terminator.
Under(s, top) == s.beg + s.len <= top /\ (s.term = "kept" => s.beg + s.len < top)

\* The strings end before the bytes that file_read has taken and not yet filled.
Filling == call.pc = "data"
Top == IF Filling THEN call.data.beg ELSE arena.len

\* Texts that were cut off count in the arena with their whole length, but only so
\* many of them have been made.
Overrun == IF Len(strs) < MaxStrs THEN Len(strs) ELSE MaxStrs
Extent == arena.len <= Cap + Overrun * LongestText

StrsInv ==
  /\ MemTypes
  /\ Top \in Nat /\ Top <= arena.len
  /\ \A s \in Range(strs) : Sound(s) /\ Under(s, Top)
  /\ Extent
  /\ Filling => call.data.beg \in Nat /\ call.data.beg + call.size = arena.len
                /\ (call.size > 0 => arena.len <= Cap)

----------------------------------------------------------------------------
\* The invariant of the files

\* Where each function may be.
Steps ==
  /\ call.op = "none" => call.pc = "done"
  /\ call.op \in {"exists", "size"} => call.pc \in {"stat", "done"}
  /\ call.op = "read" => call.pc \in {"stat", "open", "data", "done"}
  /\ call.op \in {"w", "a"} => call.pc \in {"stat", "fwrite", "fclose", "done"}
  /\ (call.pc \in {"data", "fwrite", "fclose"} \/ call.node # 0) => call.node \in DOMAIN nodes
  /\ call.pc = "stat" => call.before = <<>> /\ call.node = 0 /\ ~world.failed

\* The size that was asked for last is still the file's.
AskedInv ==
  world.asked.op = "size" =>
    /\ KindOf(world.asked.name) = "file" => world.asked.size = SizeOf(world.asked.name)
    /\ call.op \notin {"w", "a"}
    /\ call.op = "read" => world.alone

\* A read that is left alone works on the file its name leads to, with the size
\* stat has told.
SameFile == KindOf(call.name) = "file" /\ call.size = SizeOf(call.name)
ReadInv ==
  call.op = "read" =>
    /\ (call.pc = "open" /\ world.alone) => SameFile
    /\ (call.pc = "data" /\ world.alone) => SameFile /\ call.node = NodeOf(call.name)
    /\ (call.pc = "done" /\ call.name # <<>>) =>
         /\ call.err = 0 => call.data.kept = call.data.len
         /\ (call.err = 0 /\ world.alone) =>
              /\ KindOf(call.name) = "file" /\ call.node = NodeOf(call.name)
              /\ call.data.text = nodes[call.node].data
              /\ call.data.len = SizeOf(call.name)
         /\ (world.alone /\ ~world.failed) =>
              call.err = CASE KindOf(call.name) = "none" -> ENOENT
                           [] KindOf(call.name) = "dir" -> EBADF
                           [] KindOf(call.name) = "file" -> 0

\* A write that is left alone has put so much of the text behind what was there:
\* first whole blocks, then the rest.
Direct == (Len(call.src) \div BlockSize) * BlockSize
Wrote(n) == nodes[call.node].data = call.before \o SubSeq(call.src, 1, n)
WriteInv ==
  (call.op \in {"w", "a"} /\ world.alone) =>
    /\ call.pc = "fwrite" => Wrote(0) /\ ~world.failed
    /\ call.pc = "fclose" =>
         \E n \in 0 .. Direct : /\ Wrote(n)
                                /\ world.failed <=> n < Direct
                                /\ call.nbytes = IF n < Direct THEN n ELSE Len(call.src)
    /\ (call.pc = "done" /\ call.node # 0) =>
         \E n \in 0 .. Len(call.src) : /\ Wrote(n)
                                       /\ ~world.failed => n = Len(call.src) /\ call.err = 0
                                       /\ call.err = 0 => n >= Direct

FileInv == FileTypes /\ Steps /\ AskedInv /\ ReadInv /\ WriteInv

\* Every byte a read has so far was in its file, at its place, since it was opened;
\* what the file holds now was in it, and if it is left alone nothing else was.
GotSoFar ==
  /\ call.data.len = call.size /\ call.nbytes \in 0 .. call.size
  /\ nodes[call.node].data \in world.held
  /\ world.alone => world.held = {nodes[call.node].data}
  /\ \A i \in 1 .. call.nbytes : WasThere(mem[call.data.beg + i - 1], i)

\* And so was every byte of the string it returns.
AllThere ==
  /\ call.data.len = call.size /\ call.data.kept = call.size
  /\ \A i \in 1 .. call.size : WasThere(call.data.text[i], i)

PieceInv ==
  /\ call.pc \in {"stat", "open"} => call.nbytes = 0
  /\ Filling => GotSoFar
  /\ (call.op = "read" /\ call.pc = "done" /\ call.err = 0) => AllThere

IInv == StrsInv /\ FileInv /\ PieceInv

----------------------------------------------------------------------------
\* Texts and memory

\* The texts are sequences, none of them longer than LongestText.
LEMMA TextLength ==
  /\ LongestText \in Nat
  /\ \A t \in Texts : t \in Seq(Char) /\ Len(t) \in Nat /\ Len(t) <= LongestText
  <1> DEFINE f == [t \in Texts |-> Len(t)]
             S == {Len(t) : t \in Texts} \cup {0}
  <1>1. \A t \in Texts : t \in Seq(Char) /\ Len(t) \in Nat
    <2> SUFFICES ASSUME NEW t \in Texts PROVE t \in Seq(Char) /\ Len(t) \in Nat
      OBVIOUS
    <2>1. t \in Seq({t[i] : i \in DOMAIN t})
      BY StrMemAssumption
    <2>2. {t[i] : i \in DOMAIN t} \subseteq Char
      BY DEF Char, Range
    <2> QED
      BY <2>1, <2>2, SeqMonotonic
  <1>2. IsFiniteSet({Len(t) : t \in Texts})
    <2>1. f \in Surjection(Texts, {Len(t) : t \in Texts})
      BY DEF Surjection
    <2> QED
      BY <2>1, StrMemAssumption, FS_Surjection
  <1>3. IsFiniteSet(S) /\ S \subseteq Nat /\ S # {}
    BY <1>1, <1>2, FS_AddElement
  <1>4. PICK n \in S : \A m \in S : m <= n
    <2> HIDE DEF S
    <2> QED
      BY <1>3, GreatestElement
  <1>5. LongestText \in S /\ \A m \in S : LongestText >= m
    <2>1. n >= n /\ \A m \in S : n >= m
      BY <1>3, <1>4
    <2> QED
      BY <2>1 DEF LongestText, Max
  <1> QED
    BY <1>1, <1>3, <1>5

\* The memory reaches from the arena's first byte to beyond its capacity, and
\* beyond where texts that were cut off are counted.
LEMMA BytesReach ==
  /\ \A i \in Nat : i <= Cap + MaxStrs * LongestText => i \in Bytes
  /\ \A i \in Nat : i <= Cap => i \in Bytes
  /\ Bytes \subseteq Nat
  <1> DEFINE a == MaxStrs * LongestText
             b == MaxStrs * (LongestText + 1)
  <1>1. a \in Nat /\ b \in Nat /\ a <= b
    <2>1. MaxStrs \in Nat /\ LongestText \in Nat
      BY TextLength, StrMemAssumption
    <2>2. b = a + MaxStrs
      BY <2>1
    <2> QED
      BY <2>1, <2>2
  <1>2. Bytes = 0 .. Cap + b /\ Cap \in Nat
    BY StrMemAssumption DEF Bytes
  <1> HIDE DEF a, b
  <1>3. \A i \in Nat : i <= Cap + a => i \in Bytes
    BY <1>1, <1>2
  <1> QED
    BY <1>1, <1>2, <1>3 DEF a

\* What storing a text changes: nothing before it; the text is there, and so is
\* the terminator.
LEMMA StoredBytes ==
  ASSUME MemTypes, NEW beg \in Nat, NEW t \in Seq(Char), NEW null_term \in BOOLEAN,
         beg + Len(t) + (IF null_term THEN 1 ELSE 0) <= Cap \/ (t = <<>> /\ ~null_term)
  PROVE  LET after == Stored(beg, t, null_term) IN
         /\ after \in [Bytes -> Byte]
         /\ \A i \in Bytes : i < beg => after[i] = mem[i]
         /\ \A i \in 1 .. Len(t) : after[beg + i - 1] = t[i]
         /\ null_term => after[beg + Len(t)] = NUL
         /\ (t = <<>> /\ ~null_term) => \A i \in Bytes : after[i] = mem[i]
  <1> DEFINE after == Stored(beg, t, null_term)
             l == Len(t)
  <1>1. l \in Nat /\ DOMAIN t = 1 .. l /\ (t = <<>> => l = 0) /\ Cap \in Nat
    BY StrMemAssumption
  <1>2. \A i \in Bytes : after[i] = IF i \in beg .. beg + l - 1 THEN t[i - beg + 1]
                                    ELSE IF null_term /\ i = beg + l THEN NUL ELSE mem[i]
    BY DEF Stored
  <1>3. Bytes \subseteq Nat /\ \A i \in Nat : i <= Cap => i \in Bytes
    BY BytesReach
  <1>4. after \in [Bytes -> Byte]
    <2> SUFFICES ASSUME NEW i \in Bytes PROVE after[i] \in Byte
      BY DEF Stored
    <2>1. CASE i \in beg .. beg + l - 1
      <3>1. i - beg + 1 \in DOMAIN t
        BY <1>1, <1>3, <2>1
      <3>2. t[i - beg + 1] \in Char
        BY <3>1, ElementOfSeq
      <3> QED
        BY <1>2, <2>1, <3>2 DEF Byte
    <2>2. CASE i \notin beg .. beg + l - 1
      BY <1>2, <2>2 DEF MemTypes, Byte
    <2> QED
      BY <2>1, <2>2
  <1>5. \A i \in Bytes : i < beg => after[i] = mem[i]
    <2> HIDE DEF after, l
    <2> QED
      BY <1>1, <1>2, <1>3
  <1>6. ASSUME NEW i \in 1 .. l
        PROVE  after[beg + i - 1] = t[i]
    <2> HIDE DEF after
    <2>1. beg + i - 1 \in Nat /\ beg + i - 1 <= Cap /\ beg + i - 1 \in beg .. beg + l - 1
          /\ (beg + i - 1) - beg + 1 = i
      BY <1>1, <1>6
    <2> QED
      BY <1>2, <1>3, <2>1
  <1>7. null_term => after[beg + l] = NUL
    <2> HIDE DEF after, l
    <2> SUFFICES ASSUME null_term PROVE after[beg + l] = NUL
      OBVIOUS
    <2>1. beg + l \in Nat /\ beg + l <= Cap /\ beg + l \notin beg .. beg + l - 1
      BY <1>1 DEF l
    <2> QED
      BY <1>2, <1>3, <2>1
  <1>8. (t = <<>> /\ ~null_term) => \A i \in Bytes : after[i] = mem[i]
    <2> HIDE DEF after, l
    <2> QED
      BY <1>1, <1>2, <1>3
  <1> QED
    BY <1>4, <1>5, <1>6, <1>7, <1>8

\* An allocation of bytes traps, or takes as many as were asked for from where the
\* arena ends, if they fit.
LEMMA BytesTaken ==
  ASSUME MemTypes, NEW n \in Int, MakeBytes(n).out # "trap"
  PROVE  /\ MakeBytes(n).out = "ok" /\ MakeBytes(n).beg = arena.len /\ n \in Nat
         /\ MakeBytes(n).buf = [base |-> 64, len |-> arena.len + n, cap |-> Cap]
         /\ n > 0 => arena.len + n <= Cap
  <1>1. arena.len \in Nat /\ Cap \in Nat /\ arena.base = 64 /\ arena.cap = Cap
    BY StrMemAssumption DEF MemTypes
  <1>2. Pad(arena, 1) = 0
    BY <1>1 DEF Pad
  <1>3. Fits(arena, 1, n) <=> n <= Cap - arena.len
    BY <1>1 DEF Fits
  <1>4. [arena EXCEPT !.len = arena.len + n] = [base |-> 64, len |-> arena.len + n, cap |-> Cap]
    BY DEF MemTypes
  <1>5. CASE n <= 0
    <2>1. n = 0 /\ MakeBytes(n) = Outcome("ok", arena.len, arena)
      BY <1>5 DEF MakeBytes, Alloc, Outcome
    <2>2. arena = [base |-> 64, len |-> arena.len + n, cap |-> Cap]
      BY <1>1, <2>1 DEF MemTypes
    <2> QED
      BY <2>1, <2>2 DEF Outcome
  <1>6. CASE n > 0
    <2>1. Fits(arena, 1, n)
      BY <1>6 DEF MakeBytes, Alloc, Outcome
    <2>2. MakeBytes(n) = Outcome("ok", arena.len + 0, [arena EXCEPT !.len = (arena.len + 0) + n * 1])
      BY <1>2, <1>6, <2>1 DEF MakeBytes, Alloc
    <2>3. arena.len + 0 = arena.len /\ n * 1 = n
      BY <1>1
    <2> QED
      BY <1>1, <1>3, <1>4, <1>6, <2>1, <2>2, <2>3 DEF Outcome
  <1> QED
    BY <1>5, <1>6

----------------------------------------------------------------------------
\* Making strings

\* What is said of a string stays true if only memory behind it changes.
LEMMA SoundKept ==
  ASSUME NEW s \in StrType, Sound(s), NEW top \in Nat, Under(s, top), top <= arena.len,
         arena.len \in Nat, \A i \in Bytes : i < top => mem'[i] = mem[i],
         s.beg + s.len = arena'.len =>
           s.beg + s.len = arena.len /\ mem'[arena.len] \in {NUL, mem[arena.len]}
  PROVE  Sound(s)'
  <1>0. s.beg \in Int /\ s.len \in Int /\ s.kept \in Int /\ s.len \in Nat /\ Cap \in Nat
    BY StrMemAssumption DEF StrType, Sound
  <1>1. ASSUME NEW i \in 1 .. s.kept
        PROVE  mem'[s.beg + i - 1] = s.text[i]
    <2>1. s.beg \in Nat /\ s.beg + s.kept <= Cap /\ i \in Nat /\ s.kept <= s.len
      BY <1>0, <1>1 DEF Sound, StrNull, Str
    <2>2. s.beg + i - 1 \in Nat /\ s.beg + i - 1 <= Cap /\ s.beg + i - 1 < top
      BY <1>0, <1>1, <2>1 DEF Under
    <2>3. s.beg + i - 1 \in Bytes
      BY <2>2, BytesReach
    <2> QED
      BY <2>2, <2>3 DEF Sound
  <1>2. ASSUME s.term = "kept"
        PROVE  mem'[s.beg + s.len] = NUL
    <2>1. s.beg \in Nat /\ s.beg + s.len \in Nat /\ s.beg + s.len <= Cap /\ s.beg + s.len < top
      BY <1>0, <1>2 DEF Sound, Under
    <2>2. s.beg + s.len \in Bytes
      BY <2>1, BytesReach
    <2> QED
      BY <1>2, <2>1, <2>2 DEF Sound
  <1>3. ASSUME s.term = "passing", s.beg + s.len = arena'.len
        PROVE  s.beg \in Nat /\ s.beg + s.len < Cap /\ mem'[s.beg + s.len] = NUL
    BY <1>3 DEF Sound
  <1> QED
    BY <1>1, <1>2, <1>3 DEF Sound

LEMMA AppendedRange ==
  ASSUME NEW S, NEW q \in Seq(S), NEW e
  PROVE  Range(Append(q, e)) = Range(q) \cup {e} /\ Range(q) \subseteq S
  <1>1. DOMAIN q = 1 .. Len(q) /\ DOMAIN Append(q, e) = 1 .. Len(q) + 1 /\ Len(q) \in Nat
        /\ (\A k \in 1 .. Len(q) : Append(q, e)[k] = q[k]) /\ Append(q, e)[Len(q) + 1] = e
    OBVIOUS
  <1>2. 1 .. Len(q) + 1 = (1 .. Len(q)) \cup {Len(q) + 1}
    BY <1>1
  <1>3. Range(q) \subseteq S
    BY ElementOfSeq DEF Range
  <1> QED
    BY <1>1, <1>2, <1>3 DEF Range

\* A string is made where the arena ends.
LEMMA MadeKeeps ==
  ASSUME StrsInv, ~Filling, ~Filling', NEW s \in StrType, strs' = Append(strs, s),
         arena' = [base |-> 64, len |-> arena'.len, cap |-> Cap], arena'.len \in Nat,
         arena'.len >= arena.len, mem' \in [Bytes -> Byte], alive' \in BOOLEAN,
         \A i \in Bytes : i < arena.len => mem'[i] = mem[i],
         arena'.len = arena.len => mem'[arena.len] \in {NUL, mem[arena.len]},
         Sound(s)', Under(s, arena'.len), Extent'
  PROVE  StrsInv'
  <1>0. arena.len \in Nat /\ strs \in Seq(StrType) /\ Top = arena.len /\ Top' = arena'.len
    BY DEF StrsInv, MemTypes, Top
  <1>1. MemTypes'
    <2>1. strs' \in Seq(StrType)
      BY <1>0
    <2> QED
      BY <2>1 DEF MemTypes
  <1>2. ASSUME NEW r \in StrType, Sound(r), Under(r, arena.len)
        PROVE  Sound(r)' /\ Under(r, arena'.len)
    <2>1. Under(r, arena'.len) /\ (r.beg + r.len = arena'.len => arena'.len = arena.len)
      BY <1>0, <1>2 DEF Under, StrType
    <2> QED
      BY <1>0, <1>2, <2>1, SoundKept
  <1>3. Range(strs') = Range(strs) \cup {s} /\ Range(strs) \subseteq StrType
    BY <1>0, AppendedRange
  <1>4. ASSUME NEW r \in Range(strs')
        PROVE  Sound(r)' /\ Under(r, arena'.len)
    <2>1. CASE r = s
      BY <2>1
    <2>2. CASE r # s
      <3>1. r \in StrType /\ Sound(r) /\ Under(r, arena.len)
        BY <1>0, <1>3, <1>4, <2>2 DEF StrsInv
      <3> QED
        BY <1>2, <3>1
    <2> QED
      BY <2>1, <2>2
  <1> QED
    BY <1>0, <1>1, <1>4 DEF StrsInv, Range

\* One string more accounts for the length of its text.
LEMMA ExtentStep ==
  ASSUME StrsInv, Len(strs') = Len(strs) + 1, arena'.len \in Nat,
         \/ arena'.len <= Cap
         \/ arena'.len <= arena.len
         \/ arena'.len <= arena.len + LongestText /\ Len(strs) < MaxStrs
  PROVE  Extent'
  <1>0. /\ Len(strs) \in Nat /\ MaxStrs \in Nat /\ Cap \in Nat /\ LongestText \in Nat
        /\ arena.len \in Nat /\ Overrun \in Nat /\ Overrun' \in Nat
    BY StrMemAssumption, TextLength DEF StrsInv, MemTypes, Overrun
  <1>1. Overrun' = Overrun \/ Overrun' = Overrun + 1
    BY <1>0 DEF Overrun
  <1>2. Len(strs) < MaxStrs => Overrun' = Overrun + 1
    BY <1>0 DEF Overrun
  <1>3. PICK L \in Nat, a \in Nat, b \in Nat : L = LongestText /\ a = Overrun /\ b = Overrun'
    BY <1>0
  <1>4. PICK aL \in Nat, bL \in Nat : aL = a * L /\ bL = b * L /\ (a + 1) * L = aL + L
    BY SuccTimes
  <1>5. arena.len <= Cap + aL
    BY <1>3, <1>4 DEF StrsInv, Extent
  <1>6. bL = aL \/ bL = aL + L
    BY <1>1, <1>3, <1>4
  <1>7. Len(strs) < MaxStrs => bL = aL + L
    BY <1>2, <1>3, <1>4
  <1>8. arena'.len <= Cap + bL
    <2>1. PICK l \in Nat, m \in Nat : l = arena.len /\ m = arena'.len
      BY <1>0
    <2> QED
      BY <1>0, <1>3, <1>5, <1>6, <1>7, <2>1
  <1> QED
    BY <1>3, <1>4, <1>8 DEF Extent

LEMMA SameStrings ==
  ASSUME StrsInv, UNCHANGED <<arena, mem, strs>>, alive' \in BOOLEAN,
         ~Filling, ~Filling'
  PROVE  StrsInv'
  BY DEF StrsInv, MemTypes, Top, Range, Sound, Under, Extent, Overrun

LEMMA StrTyped ==
  ASSUME NEW beg \in Int, NEW len \in Int, NEW text \in Seq(Char), NEW kept \in Int,
         NEW term \in {"kept", "passing", "none"}
  PROVE  LET s == Str(beg, len, text, kept, term) IN
         /\ s \in StrType
         /\ s.beg = beg /\ s.len = len /\ s.text = text /\ s.kept = kept /\ s.term = term
  BY DEF StrType, Str

\* str_copy
LEMMA StrCopyKeeps ==
  ASSUME StrsInv, ~Filling, ~Filling', Len(strs) < MaxStrs,
         NEW text \in Texts, NEW null_term \in BOOLEAN, StrCopy(text, null_term)
  PROVE  StrsInv'
  <1> DEFINE n == Len(text) + IF null_term THEN 1 ELSE 0
             term == IF null_term THEN "kept" ELSE "none"
  <1>0. /\ text \in Seq(Char) /\ Len(text) \in Nat /\ n \in Nat /\ MemTypes /\ Cap \in Nat
        /\ arena.len \in Nat /\ strs \in Seq(StrType) /\ alive \in BOOLEAN
    BY TextLength, StrMemAssumption DEF StrsInv, MemTypes
  <1>1. CASE text = <<>>
    <2>1. StrNull \in StrType
      BY DEF StrType, StrNull, Str
    <2>2. strs' = Append(strs, StrNull) /\ UNCHANGED <<arena, mem, alive>>
      BY <1>1 DEF StrCopy
    <2>3. Sound(StrNull)' /\ Under(StrNull, arena'.len)
      BY <1>0, <2>2 DEF Sound, Under, StrNull, Str
    <2>4. Extent'
      BY <1>0, <2>2, ExtentStep
    <2> QED
      BY <1>0, <2>1, <2>2, <2>3, <2>4, MadeKeeps DEF MemTypes
  <1>2. CASE text # <<>> /\ Trap(MakeBytes(n))
    BY <1>2, SameStrings DEF Trap
  <1>3. CASE text # <<>> /\ MakeBytes(n).out = "ok"
             /\ arena' = MakeBytes(n).buf /\ mem' = Stored(MakeBytes(n).beg, text, null_term)
             /\ strs' = Append(strs, Str(MakeBytes(n).beg, Len(text), text, Len(text), term))
             /\ UNCHANGED alive
    <2>1. Len(text) > 0 /\ n > 0
      BY <1>0, <1>3
    <2>2. MakeBytes(n).beg = arena.len /\ arena.len + n <= Cap
          /\ arena' = [base |-> 64, len |-> arena.len + n, cap |-> Cap]
      BY <1>0, <1>3, <2>1, BytesTaken
    <2>3. PICK beg \in Nat : beg = arena.len
      BY <1>0
    <2>4. term \in {"kept", "passing", "none"}
      OBVIOUS
    <2>5. PICK s \in StrType :
            /\ s = Str(beg, Len(text), text, Len(text), term)
            /\ s.beg = beg /\ s.len = Len(text) /\ s.kept = Len(text)
            /\ s.text = text /\ s.term = term
      <3> DEFINE r == Str(beg, Len(text), text, Len(text), term)
      <3>1. beg \in Int /\ Len(text) \in Int
        BY <1>0
      <3> HIDE DEF term
      <3>2. r \in StrType /\ r.beg = beg /\ r.len = Len(text) /\ r.kept = Len(text)
            /\ r.text = text /\ r.term = term
        BY <1>0, <2>4, <3>1 DEF StrType, Str
      <3> QED
        BY <3>2
    <2>6. /\ mem' \in [Bytes -> Byte]
          /\ \A i \in Bytes : i < beg => mem'[i] = mem[i]
          /\ \A i \in 1 .. Len(text) : mem'[beg + i - 1] = text[i]
          /\ null_term => mem'[beg + Len(text)] = NUL
      BY <1>0, <1>3, <2>2, <2>3, StoredBytes
    <2>7. strs' = Append(strs, s)
      BY <1>3, <2>2, <2>3, <2>5
    <2>8. arena'.len = beg + n /\ beg + n <= Cap
      BY <2>2, <2>3
    <2>9. Sound(s)' /\ Under(s, arena'.len)
      <3>1. (s.term = "kept" <=> null_term) /\ s.term # "passing"
        BY <2>5
      <3>2. null_term => n = Len(text) + 1
        OBVIOUS
      <3>3. n >= Len(text)
        BY <1>0
      <3> HIDE DEF n, term
      <3>4. Under(s, arena'.len)
        BY <1>0, <2>5, <2>8, <3>1, <3>2, <3>3 DEF Under
      <3>5. s.len = Len(s.text) /\ s.kept \in 0 .. s.len /\ s.beg \in Nat
            /\ s.beg + s.kept <= Cap
        BY <1>0, <2>5, <2>8, <3>3
      <3>6. \A i \in 1 .. s.kept : mem'[s.beg + i - 1] = s.text[i]
        BY <2>5, <2>6
      <3>7. null_term => s.len > 0 /\ s.beg + s.len < Cap /\ mem'[s.beg + s.len] = NUL
        BY <1>0, <2>1, <2>5, <2>6, <2>8, <3>2
      <3> QED
        BY <3>1, <3>4, <3>5, <3>6, <3>7 DEF Sound
    <2>10. Extent'
      <3>1. Len(strs') = Len(strs) + 1
        BY <1>0, <2>7
      <3> QED
        BY <1>0, <2>8, <3>1, ExtentStep
    <2> HIDE DEF n, term
    <2> QED
      BY <1>0, <1>3, <2>1, <2>2, <2>3, <2>6, <2>7, <2>8, <2>9, <2>10, MadeKeeps
  <1> QED
    BY <1>1, <1>2, <1>3 DEF StrCopy

\* str_fmtn and str_fmt: n is negative, none, or what fits.
LEMMA FormatKeeps ==
  ASSUME StrsInv, ~Filling, ~Filling', Len(strs) < MaxStrs,
         NEW text \in Texts, NEW n \in Int, Format(text, n)
  PROVE  StrsInv'
  <1> DEFINE kept == IF n = 0 THEN 0 ELSE Fitting(text, n)
             term == IF Len(text) < n THEN "passing" ELSE "none"
             stored == SubSeq(text, 1, kept)
  <1>0. /\ text \in Seq(Char) /\ Len(text) \in Nat /\ Len(text) <= LongestText /\ MemTypes
        /\ Cap \in Nat /\ arena.len \in Nat /\ strs \in Seq(StrType) /\ alive \in BOOLEAN
        /\ mem \in [Bytes -> Byte] /\ LongestText \in Nat
    BY TextLength, StrMemAssumption DEF StrsInv, MemTypes
  <1>1. CASE Trap(MakeBytes(n))
    BY <1>1, SameStrings DEF Trap
  <1>2. CASE /\ MakeBytes(n).out = "ok"
             /\ arena' = [MakeBytes(n).buf EXCEPT !.len = @ - (n - Len(text))]
             /\ mem' = IF n = 0 THEN mem ELSE Stored(MakeBytes(n).beg, stored, TRUE)
             /\ strs' = Append(strs, Str(MakeBytes(n).beg, Len(text), text, kept, term))
             /\ UNCHANGED alive
    <2>1. MakeBytes(n).beg = arena.len /\ n \in Nat /\ (n > 0 => arena.len + n <= Cap)
          /\ MakeBytes(n).buf = [base |-> 64, len |-> arena.len + n, cap |-> Cap]
      BY <1>0, <1>2, BytesTaken
    <2>2. PICK beg \in Nat : beg = arena.len
      BY <1>0
    <2>3. arena' = [base |-> 64, len |-> beg + Len(text), cap |-> Cap]
      <3>1. (beg + n) - (n - Len(text)) = beg + Len(text)
        BY <1>0, <2>1
      <3> QED
        BY <1>2, <2>1, <2>2, <3>1
    <2>4. kept \in 0 .. Len(text) /\ (n > 0 => kept < n) /\ (n = 0 => kept = 0)
          /\ (Len(text) < n => kept = Len(text))
      BY <1>0, <2>1 DEF Fitting
    <2>5. stored \in Seq(Char) /\ Len(stored) = kept /\ \A i \in 1 .. kept : stored[i] = text[i]
      <3> HIDE DEF kept
      <3> QED
        BY <1>0, <2>4
    <2> DEFINE r == Str(beg, Len(text), text, kept, term)
    <2>6. r \in StrType /\ r.beg = beg /\ r.len = Len(text) /\ r.kept = kept
          /\ r.text = text /\ r.term = term
      <3>1. kept \in Int /\ term \in {"kept", "passing", "none"}
        BY <2>4
      <3> HIDE DEF kept, term
      <3> QED
        BY <1>0, <3>1 DEF StrType, Str
    <2>7. strs' = Append(strs, r)
      BY <1>2, <2>1, <2>2
    <2>8. term = "passing" \/ term = "none"
      OBVIOUS
    <2>9. (term = "passing") = (Len(text) < n)
      OBVIOUS
    <2>10. n = 0 => mem' = mem
      BY <1>2
    <2>11. n > 0 => mem' = Stored(beg, stored, TRUE)
      <3>1. n > 0 => n # 0
        OBVIOUS
      <3> HIDE DEF stored
      <3>2. mem' = IF n = 0 THEN mem ELSE Stored(MakeBytes(n).beg, stored, TRUE)
        BY <1>2
      <3> QED
        BY <2>1, <2>2, <3>1, <3>2
    <2> HIDE DEF kept, term, stored, r
    <2>12. /\ mem' \in [Bytes -> Byte]
           /\ \A i \in Bytes : i < beg => mem'[i] = mem[i]
           /\ \A i \in 1 .. kept : mem'[beg + i - 1] = text[i]
           /\ n > 0 => mem'[beg + kept] = NUL
      <3>1. CASE n = 0
        BY <1>0, <2>4, <2>10, <3>1
      <3>2. CASE n > 0
        <4>1. beg + Len(stored) + (IF TRUE THEN 1 ELSE 0) <= Cap
          BY <1>0, <2>1, <2>2, <2>4, <2>5, <3>2
        <4>2. /\ Stored(beg, stored, TRUE) \in [Bytes -> Byte]
              /\ \A i \in Bytes : i < beg => Stored(beg, stored, TRUE)[i] = mem[i]
              /\ \A i \in 1 .. Len(stored) : Stored(beg, stored, TRUE)[beg + i - 1] = stored[i]
              /\ Stored(beg, stored, TRUE)[beg + Len(stored)] = NUL
          BY <1>0, <2>5, <4>1, StoredBytes
        <4> QED
          BY <2>5, <2>11, <3>2, <4>2
      <3> QED
        BY <2>1, <3>1, <3>2
    <2>13. arena'.len = beg + Len(text) /\ arena'.len \in Nat
      BY <1>0, <2>3
    <2>14. Sound(r)' /\ Under(r, arena'.len)
      <3>1. Under(r, arena'.len)
        BY <1>0, <2>6, <2>8, <2>13 DEF Under
      <3>2. r.len = Len(r.text) /\ r.kept \in 0 .. r.len /\ r.beg \in Nat
            /\ (r.kept > 0 => r.beg + r.kept <= Cap)
        BY <1>0, <2>1, <2>2, <2>4, <2>6
      <3>3. \A i \in 1 .. r.kept : mem'[r.beg + i - 1] = r.text[i]
        BY <2>6, <2>12
      <3>4. r.term = "passing" => r.beg + r.len < Cap /\ mem'[r.beg + r.len] = NUL
        <4> SUFFICES ASSUME r.term = "passing"
                     PROVE  r.beg + r.len < Cap /\ mem'[r.beg + r.len] = NUL
          OBVIOUS
        <4>1. Len(text) < n /\ kept = Len(text) /\ n > 0
          BY <1>0, <2>1, <2>4, <2>6, <2>9
        <4> QED
          BY <1>0, <2>1, <2>2, <2>6, <2>12, <4>1
      <3> QED
        BY <2>6, <2>8, <3>1, <3>2, <3>3, <3>4 DEF Sound
    <2>15. Extent'
      <3>1. Len(strs') = Len(strs) + 1
        BY <1>0, <2>7
      <3>2. arena'.len <= arena.len + LongestText
        BY <1>0, <2>2, <2>13
      <3> QED
        BY <2>13, <3>1, <3>2, ExtentStep
    <2>16. arena'.len = arena.len => mem'[arena.len] \in {NUL, mem[arena.len]}
      <3> SUFFICES ASSUME arena'.len = arena.len PROVE mem'[arena.len] \in {NUL, mem[arena.len]}
        OBVIOUS
      <3>1. Len(text) = 0 /\ kept = 0
        BY <1>0, <2>2, <2>4, <2>13
      <3>2. CASE n = 0
        BY <2>10, <3>2
      <3>3. CASE n > 0
        BY <2>2, <2>12, <3>1, <3>3
      <3> QED
        BY <2>1, <3>2, <3>3
    <2>17. arena'.len >= arena.len /\ \A i \in Bytes : i < arena.len => mem'[i] = mem[i]
      BY <1>0, <2>2, <2>12, <2>13
    <2>18. arena' = [base |-> 64, len |-> arena'.len, cap |-> Cap] /\ alive' \in BOOLEAN
      BY <1>0, <1>2, <2>3
    <2> QED
      BY <2>6, <2>7, <2>12, <2>13, <2>14, <2>15, <2>16, <2>17, <2>18, MadeKeeps
  <1> QED
    BY <1>1, <1>2 DEF Format

\* All that is left is a number.
LEMMA Available ==
  ASSUME StrsInv
  PROVE  BufAvail(arena, 1) \in Int
  <1>1. arena.cap - arena.len \in Int
    BY StrMemAssumption DEF StrsInv, MemTypes
  <1>2. PICK d \in Int : d = arena.cap - arena.len
    BY <1>1
  <1>3. Word = 65536
    BY DEF Word
  <1>4. (d % 65536) \in Int /\ ((d % 65536) \div 1) \in Int
    OBVIOUS
  <1> QED
    BY <1>2, <1>3, <1>4 DEF BufAvail

\* The strings after Program's two disjuncts.
LEMMA MakeStrKeeps ==
  ASSUME StrsInv, ~Filling, ~Filling', MakeStr
  PROVE  StrsInv'
  <1>1. Len(strs) < MaxStrs /\ \E text \in Texts :
          \/ \E null_term \in BOOLEAN : StrCopy(text, null_term)
          \/ \E limit \in Limits : StrFmtn(text, limit)
          \/ StrFmt(text)
    BY DEF MakeStr
  <1>2. PICK text \in Texts :
          \/ \E null_term \in BOOLEAN : StrCopy(text, null_term)
          \/ \E limit \in Limits : StrFmtn(text, limit)
          \/ StrFmt(text)
    BY <1>1
  <1>3. CASE \E null_term \in BOOLEAN : StrCopy(text, null_term)
    BY <1>1, <1>3, StrCopyKeeps
  <1>4. CASE \E limit \in Limits : StrFmtn(text, limit)
    <2>1. PICK limit \in Int : Format(text, limit)
      BY <1>4, StrMemAssumption DEF StrFmtn
    <2> QED
      BY <1>1, <2>1, FormatKeeps
  <1>5. CASE StrFmt(text)
    <2>1. PICK n \in Int : Format(text, n)
      BY <1>5, Available DEF StrFmt
    <2> QED
      BY <1>1, <2>1, FormatKeeps
  <1> QED
    BY <1>2, <1>3, <1>4, <1>5

LEMMA ResetKeeps ==
  ASSUME StrsInv, ~Filling, ~Filling', Reset
  PROVE  StrsInv'
  <1>0. MaxStrs \in Nat /\ Cap \in Nat /\ LongestText \in Nat /\ MemTypes
    BY StrMemAssumption, TextLength DEF StrsInv
  <1>1. arena' = [base |-> 64, len |-> 0, cap |-> Cap] /\ strs' = <<>> /\ UNCHANGED <<mem, alive>>
    BY <1>0 DEF Reset, MemTypes
  <1>2. MemTypes'
    BY <1>0, <1>1 DEF MemTypes
  <1>3. Range(strs') = {}
    BY <1>1 DEF Range
  <1>4. Extent'
    <2>1. Overrun' = 0 /\ arena'.len = 0
      BY <1>0, <1>1 DEF Overrun
    <2>2. 0 * LongestText = 0
      BY <1>0
    <2> QED
      BY <1>0, <2>1, <2>2 DEF Extent
  <1>5. Top' = 0 /\ arena'.len = 0
    BY <1>1 DEF Top
  <1> QED
    BY <1>2, <1>3, <1>4, <1>5 DEF StrsInv


\* Nothing changes for the strings.
LEMMA SameMemory ==
  ASSUME StrsInv, UNCHANGED <<arena, mem, strs>>, alive' \in BOOLEAN,
         UNCHANGED call \/ (~Filling /\ ~Filling')
  PROVE  StrsInv'
  <1>1. CASE UNCHANGED call
    BY <1>1 DEF StrsInv, MemTypes, Top, Filling, Range, Sound, Under, Extent, Overrun
  <1>2. CASE ~Filling /\ ~Filling'
    BY <1>2, SameStrings
  <1> QED
    BY <1>1, <1>2

\* file_read takes the bytes for the file.
LEMMA BytesForFileKeep ==
  ASSUME StrsInv, ~Filling, call.size \in Nat, MakeBytes(call.size).out = "ok",
         arena' = MakeBytes(call.size).buf, UNCHANGED <<mem, strs, alive>>,
         call'.pc = "data", call'.size = call.size, call'.data = StrNew(call.size).data
  PROVE  StrsInv'
  <1>0. /\ MemTypes /\ arena.len \in Nat /\ Cap \in Nat /\ strs \in Seq(StrType)
        /\ Top = arena.len
    BY StrMemAssumption DEF StrsInv, MemTypes, Top
  <1>1. /\ MakeBytes(call.size).beg = arena.len
        /\ arena' = [base |-> 64, len |-> arena.len + call.size, cap |-> Cap]
        /\ call.size > 0 => arena.len + call.size <= Cap
    BY <1>0, BytesTaken
  <1>2. call'.data.beg = arena.len /\ Filling' /\ Top' = arena.len /\ arena'.len = arena.len + call.size
    BY <1>1 DEF StrNew, Str, Filling, Top
  <1>3. MemTypes'
    BY <1>0, <1>1 DEF MemTypes
  <1>4. ASSUME NEW s \in Range(strs)
        PROVE  Sound(s)' /\ Under(s, arena.len)
    <2>1. s \in StrType /\ Sound(s) /\ Under(s, arena.len)
      BY <1>0, <1>4, AppendedRange DEF StrsInv
    <2>2. s.beg + s.len = arena'.len => s.beg + s.len = arena.len
      BY <1>0, <1>2, <2>1 DEF Under, StrType
    <2> QED
      BY <1>0, <2>1, <2>2, SoundKept
  <1>5. Extent'
    <2>1. PICK d \in Nat : d = Overrun * LongestText /\ arena.len <= Cap + d
      <3>1. Overrun \in Nat /\ LongestText \in Nat
        BY <1>0, StrMemAssumption, TextLength DEF Overrun
      <3>2. Overrun * LongestText \in Nat
        BY <3>1
      <3> QED
        BY <3>2 DEF StrsInv, Extent
    <2>2. Overrun' * LongestText = d
      BY <2>1 DEF Overrun
    <2>3. arena'.len <= Cap + d
      BY <1>0, <1>1, <1>2, <2>1
    <2> QED
      BY <2>2, <2>3 DEF Extent
  <1>6. \A s \in Range(strs') : Sound(s)' /\ Under(s, Top')
    BY <1>2, <1>4
  <1>7. call'.data.beg \in Nat /\ call'.data.beg + call'.size = arena'.len
        /\ (call'.size > 0 => arena'.len <= Cap)
    BY <1>0, <1>1, <1>2
  <1>8. Top' \in Nat /\ Top' <= arena'.len
    BY <1>0, <1>2
  <1> QED
    BY <1>3, <1>5, <1>6, <1>7, <1>8 DEF StrsInv, Range

\* One piece of the file goes into them, behind what is there.
LEMMA PieceKeeps ==
  ASSUME StrsInv, Filling, Filling', call.size \in Nat, UNCHANGED <<arena, strs, alive>>,
         call'.data = call.data, call'.size = call.size,
         NEW got \in Nat, NEW text \in Seq(Char), got + Len(text) <= call.size,
         mem' = Stored(call.data.beg + got, text, FALSE)
  PROVE  /\ StrsInv'
         /\ \A i \in 1 .. got : mem'[call.data.beg + i - 1] = mem[call.data.beg + i - 1]
         /\ \A i \in 1 .. Len(text) : mem'[call.data.beg + (got + i) - 1] = text[i]
  <1>0. /\ MemTypes /\ arena.len \in Nat /\ Cap \in Nat /\ strs \in Seq(StrType)
        /\ Len(text) \in Nat /\ Top = call.data.beg /\ Top' = Top /\ mem \in [Bytes -> Byte]
    BY StrMemAssumption DEF StrsInv, MemTypes, Top
  <1>1. PICK beg \in Nat : beg = call.data.beg
    BY DEF StrsInv
  <1>2. beg + call.size = arena.len /\ (call.size > 0 => arena.len <= Cap)
    BY <1>1 DEF StrsInv
  <1>3. PICK to \in Nat : to = beg + got
    BY <1>1
  <1>4. /\ mem' \in [Bytes -> Byte]
        /\ \A i \in Bytes : i < to => mem'[i] = mem[i]
        /\ \A i \in 1 .. Len(text) : mem'[to + i - 1] = text[i]
        /\ text = <<>> => mem' = mem
    <2>1. PICK after : after = Stored(to, text, FALSE) /\ mem' = after
      BY <1>1, <1>3
    <2>2. to + Len(text) + (IF FALSE THEN 1 ELSE 0) <= Cap \/ (text = <<>> /\ ~FALSE)
      BY <1>0, <1>2, <1>3
    <2>3. /\ after \in [Bytes -> Byte]
          /\ \A i \in Bytes : i < to => after[i] = mem[i]
          /\ \A i \in 1 .. Len(text) : after[to + i - 1] = text[i]
          /\ (text = <<>> /\ ~FALSE) => \A i \in Bytes : after[i] = mem[i]
      BY <1>0, <2>1, <2>2, StoredBytes
    <2>4. text = <<>> => after = mem
      BY <1>0, <2>3
    <2> QED
      BY <2>1, <2>3, <2>4
  <1>5. ASSUME NEW s \in Range(strs)
        PROVE  Sound(s)' /\ Under(s, beg)
    <2>1. s \in StrType /\ Sound(s) /\ Under(s, beg)
      BY <1>0, <1>1, <1>5, AppendedRange DEF StrsInv
    <2>2. s.beg + s.len = arena.len => mem' = mem
      <3>1. s.beg \in Int /\ s.len \in Int /\ s.beg + s.len <= beg
        BY <2>1 DEF Under, StrType
      <3>2. s.beg + s.len = arena.len => Len(text) = 0
        BY <1>0, <1>2, <3>1
      <3>3. Len(text) = 0 => text = <<>>
        BY <1>0
      <3> QED
        BY <1>4, <3>2, <3>3
    <2>3. beg <= arena.len /\ \A i \in Bytes : i < beg => mem'[i] = mem[i]
      <3>1. beg <= arena.len
        BY <1>0, <1>2
      <3>2. Bytes \subseteq Nat /\ beg <= to
        BY <1>3, BytesReach
      <3>3. \A i \in Bytes : i < beg => i < to
        BY <3>2
      <3> QED
        BY <1>4, <3>1, <3>3
    <2> QED
      BY <1>0, <2>1, <2>2, <2>3, SoundKept
  <1>6. StrsInv'
    <2>1. MemTypes'
      BY <1>0, <1>4 DEF MemTypes
    <2>2. Extent'
      BY DEF StrsInv, Extent, Overrun
    <2>3. \A s \in Range(strs') : Sound(s)' /\ Under(s, Top')
      BY <1>0, <1>1, <1>5
    <2> QED
      BY <1>0, <1>1, <2>1, <2>2, <2>3 DEF StrsInv, Range
  <1>7. ASSUME NEW i \in 1 .. got
        PROVE  mem'[beg + i - 1] = mem[beg + i - 1]
    <2>1. beg + i - 1 \in Nat /\ beg + i - 1 < to /\ beg + i - 1 <= arena.len
      BY <1>0, <1>2, <1>3
    <2>2. beg + i - 1 \in Bytes
      <3>1. beg + i - 1 <= Cap
        BY <1>0, <1>2, <1>3
      <3> QED
        BY <2>1, <3>1, BytesReach
    <2> QED
      BY <1>4, <2>1, <2>2
  <1>8. ASSUME NEW i \in 1 .. Len(text)
        PROVE  mem'[beg + (got + i) - 1] = text[i]
    <2>1. to + i - 1 = beg + (got + i) - 1
      BY <1>0, <1>3
    <2> QED
      BY <1>4, <2>1
  <1> QED
    BY <1>1, <1>6, <1>7, <1>8

\* With all of them file_read makes a string of what is there.
LEMMA FilledKeeps ==
  ASSUME StrsInv, Filling, ~Filling', call.size \in Nat, UNCHANGED <<arena, mem, alive>>,
         NEW text \in Seq(Char),
         \/ UNCHANGED strs
         \/ /\ Len(text) = call.size
            /\ \A i \in 1 .. call.size : mem[call.data.beg + i - 1] = text[i]
            /\ strs' = Append(strs, Str(call.data.beg, call.size, text, call.size, "none"))
  PROVE  StrsInv'
  <1>0. /\ MemTypes /\ arena.len \in Nat /\ Cap \in Nat /\ strs \in Seq(StrType)
        /\ Len(text) \in Nat /\ Top = call.data.beg /\ Top' = arena.len /\ mem \in [Bytes -> Byte]
    BY StrMemAssumption DEF StrsInv, MemTypes, Top
  <1>1. PICK beg \in Nat : beg = call.data.beg
    BY DEF StrsInv
  <1>2. beg + call.size = arena.len /\ (call.size > 0 => arena.len <= Cap)
    BY <1>1 DEF StrsInv
  <1>4. ASSUME NEW s \in Range(strs)
        PROVE  Sound(s)' /\ Under(s, arena.len)
    <2>1. s \in StrType /\ Sound(s) /\ Under(s, beg)
      BY <1>0, <1>1, <1>4, AppendedRange DEF StrsInv
    <2>2. Under(s, arena.len)
      BY <1>0, <1>2, <2>1 DEF Under, StrType
    <2> QED
      BY <2>1, <2>2 DEF Sound
  <1>5. CASE UNCHANGED strs
    <2>1. MemTypes'
      BY <1>0, <1>5 DEF MemTypes
    <2>2. Extent'
      BY <1>5 DEF StrsInv, Extent, Overrun
    <2>3. \A s \in Range(strs') : Sound(s)' /\ Under(s, Top')
      BY <1>0, <1>4, <1>5
    <2> QED
      BY <1>0, <2>1, <2>2, <2>3 DEF StrsInv, Range
  <1>6. CASE /\ Len(text) = call.size
             /\ \A i \in 1 .. call.size : mem[call.data.beg + i - 1] = text[i]
             /\ strs' = Append(strs, Str(call.data.beg, call.size, text, call.size, "none"))
    <2> DEFINE r == Str(beg, Len(text), text, Len(text), "none")
    <2>1. r \in StrType /\ r.beg = beg /\ r.len = Len(text) /\ r.kept = Len(text)
          /\ r.text = text /\ r.term = "none"
      BY <1>0 DEF StrType, Str
    <2>2. strs' = Append(strs, r)
      BY <1>1, <1>6
    <2> HIDE DEF r
    <2>3. strs' \in Seq(StrType) /\ Len(strs') = Len(strs) + 1
      BY <1>0, <2>1, <2>2
    <2>4. MemTypes'
      BY <1>0, <2>3 DEF MemTypes
    <2>5. Sound(r)' /\ Under(r, arena.len)
      <3>1. r.len = Len(r.text) /\ r.kept \in 0 .. r.len /\ r.beg \in Nat
        BY <1>0, <2>1
      <3>2. r.kept > 0 => r.beg + r.kept <= Cap
        BY <1>0, <1>2, <1>6, <2>1
      <3>3. Under(r, arena.len)
        BY <1>0, <1>2, <1>6, <2>1 DEF Under
      <3> QED
        BY <1>1, <1>6, <2>1, <3>1, <3>2, <3>3 DEF Sound
    <2>6. Range(strs') = Range(strs) \cup {r}
      BY <1>0, <2>2, AppendedRange
    <2>7. \A s \in Range(strs') : Sound(s)' /\ Under(s, Top')
      <3> SUFFICES ASSUME NEW s \in Range(strs') PROVE Sound(s)' /\ Under(s, arena.len)
        BY <1>0
      <3>1. CASE s = r
        BY <2>5, <3>1
      <3>2. CASE s # r
        BY <1>4, <2>6, <3>2
      <3> QED
        BY <3>1, <3>2
    <2>8. Extent'
      BY <1>0, <2>3, ExtentStep
    <2> QED
      BY <1>0, <2>4, <2>7, <2>8 DEF StrsInv, Range
  <1> QED
    BY <1>5, <1>6

----------------------------------------------------------------------------
\* Paths

\* The arena never ends behind the memory.
LEMMA EndInBytes ==
  ASSUME StrsInv
  PROVE  \A i \in Nat : i <= arena.len => i \in Bytes
  <1>0. MaxStrs \in Nat /\ Cap \in Nat /\ LongestText \in Nat /\ arena.len \in Nat
        /\ Len(strs) \in Nat /\ Overrun \in Nat /\ Overrun <= MaxStrs
    BY StrMemAssumption, TextLength DEF StrsInv, MemTypes, Overrun
  <1>1. PICK a \in Nat, b \in Nat, L \in Nat :
          a = Overrun /\ b = MaxStrs /\ L = LongestText /\ a <= b
    BY <1>0
  <1>2. a * L <= b * L /\ a * L \in Nat /\ b * L \in Nat
    <2>1. PICK d \in Nat : b = a + d
      <3>1. b - a \in Nat /\ b = a + (b - a)
        BY <1>1
      <3> QED
        BY <3>1
    <2>2. b * L = a * L + d * L /\ d * L \in Nat /\ a * L \in Nat /\ b * L \in Nat
      BY <2>1
    <2> QED
      BY <2>2
  <1>3. arena.len <= Cap + a * L
    BY <1>1 DEF StrsInv, Extent
  <1>4. PICK aL \in Nat, bL \in Nat : aL = a * L /\ bL = b * L
    BY <1>2
  <1>5. ASSUME NEW i \in Nat, i <= arena.len
        PROVE  i <= Cap + bL
    BY <1>0, <1>2, <1>3, <1>4, <1>5
  <1> QED
    BY <1>1, <1>4, <1>5, BytesReach

\* The text a string spells is what is written there.
LEMMA ViewIsText ==
  ASSUME StrsInv, NEW s \in Range(strs), s.kept = s.len
  PROVE  View(s) = s.text /\ s.text \in Seq(Char)
  <1>1. s \in StrType /\ Sound(s)
    BY AppendedRange DEF StrsInv, MemTypes
  <1>2. s.text \in Seq(Char) /\ s.len = Len(s.text) /\ \A i \in 1 .. s.len : mem[s.beg + i - 1] = s.text[i]
    BY <1>1 DEF Sound, StrType
  <1>3. s.text = [i \in 1 .. Len(s.text) |-> s.text[i]]
    BY <1>2
  <1> QED
    BY <1>2, <1>3 DEF View

\* A path ends at the first terminator from its beginning, which is its own if it
\* holds none.
LEMMA PathName ==
  ASSUME StrsInv, NEW s \in Range(strs), GoodPath(s)
  PROVE  /\ CString(s) \in Seq(Byte)
         /\ (s.kept = s.len /\ NUL \notin Range(s.text)) => CString(s) = s.text
  <1> DEFINE S == {i \in Bytes : i >= s.beg /\ mem[i] = NUL}
             e == Min(S)
  <1>1. /\ s \in StrType /\ Sound(s) /\ Under(s, Top) /\ s # StrNull /\ s.len > 0
        /\ mem[s.beg + s.len] = NUL /\ Top \in Nat /\ Top <= arena.len /\ arena.len \in Nat
        /\ mem \in [Bytes -> Byte]
    BY AppendedRange DEF StrsInv, MemTypes, GoodPath
  <1>2. s.beg \in Nat /\ s.len \in Nat /\ s.text \in Seq(Char) /\ s.len = Len(s.text)
    BY <1>1 DEF Sound, StrType
  <1>3. s.beg + s.len \in S
    <2>1. s.beg + s.len \in Nat /\ s.beg + s.len <= arena.len /\ s.beg + s.len >= s.beg
      BY <1>1, <1>2 DEF Under
    <2> QED
      BY <1>1, <2>1, EndInBytes
  <1>4. PICK m \in S : \A i \in S : m <= i
    <2>1. S \subseteq Nat /\ S # {}
      BY <1>3, BytesReach
    <2> HIDE DEF S
    <2> QED
      BY <2>1, LeastElement
  <1>5. e \in S /\ \A i \in S : e <= i
    BY <1>4 DEF Min
  <1>6. e \in Nat /\ e \in Bytes /\ e >= s.beg /\ mem[e] = NUL /\ e <= s.beg + s.len
    BY <1>3, <1>5, BytesReach
  <1>7. CString(s) = [i \in 1 .. e - s.beg |-> mem[s.beg + i - 1]]
    BY DEF CString
  <1>8. ASSUME NEW i \in 1 .. e - s.beg
        PROVE  s.beg + i - 1 \in Bytes
    <2>1. s.beg + i - 1 \in Nat /\ s.beg + i - 1 <= arena.len
      BY <1>1, <1>2, <1>6, <1>8 DEF Under
    <2> QED
      BY <2>1, EndInBytes
  <1>9. CString(s) \in Seq(Byte)
    <2>1. e - s.beg \in Nat
      BY <1>2, <1>6
    <2>2. \A i \in 1 .. e - s.beg : mem[s.beg + i - 1] \in Byte
      BY <1>1, <1>8
    <2> HIDE DEF e
    <2> QED
      BY <1>7, <2>1, <2>2
  <1>10. ASSUME s.kept = s.len, NUL \notin Range(s.text)
         PROVE  CString(s) = s.text
    <2>1. e = s.beg + s.len
      <3>1. SUFFICES ASSUME e < s.beg + s.len PROVE FALSE
        BY <1>2, <1>6
      <3>2. e - s.beg + 1 \in 1 .. s.len /\ s.beg + (e - s.beg + 1) - 1 = e
        BY <1>2, <1>6, <3>1
      <3>3. mem[e] = s.text[e - s.beg + 1]
        BY <1>1, <1>10, <3>2 DEF Sound
      <3>4. s.text[e - s.beg + 1] \in Range(s.text)
        <4>1. DOMAIN s.text = 1 .. s.len
          BY <1>2
        <4> QED
          BY <3>2, <4>1 DEF Range
      <3> QED
        BY <1>6, <1>10, <3>3, <3>4
    <2>2. CString(s) = View(s)
      <3>1. e - s.beg = s.len
        BY <1>2, <2>1
      <3> HIDE DEF e
      <3> QED
        BY <1>7, <3>1 DEF View
    <2> QED
      BY <1>10, <2>2, ViewIsText
  <1> QED
    BY <1>9, <1>10

----------------------------------------------------------------------------
\* The file functions

\* A name leads to nothing, or to one of the nodes.
LEMMA NodeKinds ==
  ASSUME FileTypes, NEW name
  PROVE  /\ NodeOf(name) \in 0 .. Len(nodes) /\ Len(nodes) \in Nat
         /\ KindOf(name) \in {"none", "file", "dir"}
         /\ KindOf(name) = "none" <=> NodeOf(name) = 0
         /\ NodeOf(name) # 0 => /\ NodeOf(name) \in DOMAIN nodes
                                /\ nodes[NodeOf(name)] \in NodeType
                                /\ SizeOf(name) = Len(nodes[NodeOf(name)].data)
                                /\ SizeOf(name) \in Nat
                                /\ KindOf(name) = nodes[NodeOf(name)].kind
  <1>1. Len(nodes) \in Nat /\ DOMAIN nodes = 1 .. Len(nodes) /\ nodes \in Seq(NodeType)
    BY DEF FileTypes
  <1>2. NodeOf(name) \in 0 .. Len(nodes)
    BY <1>1 DEF NodeOf, FileTypes
  <1>3. ASSUME NodeOf(name) # 0
        PROVE  /\ NodeOf(name) \in DOMAIN nodes /\ nodes[NodeOf(name)] \in NodeType
               /\ KindOf(name) \in {"file", "dir"} /\ KindOf(name) = nodes[NodeOf(name)].kind
               /\ SizeOf(name) \in Nat
    <2>1. NodeOf(name) \in DOMAIN nodes
      BY <1>1, <1>2, <1>3
    <2>2. nodes[NodeOf(name)] \in NodeType
      BY <1>1, <2>1, ElementOfSeq
    <2>3. KindOf(name) = nodes[NodeOf(name)].kind
      BY <1>3 DEF KindOf
    <2> QED
      BY <2>1, <2>2, <2>3 DEF NodeType, SizeOf
  <1>4. NodeOf(name) = 0 => KindOf(name) = "none"
    BY DEF KindOf
  <1> QED
    BY <1>1, <1>2, <1>3, <1>4 DEF SizeOf

\* A call with one field replaced is one.
WithOp(c, op) == [c EXCEPT !.op = op]
WithName(c, name) == [c EXCEPT !.name = name]
WithSrc(c, src) == [c EXCEPT !.src = src]
WithPc(c, pc) == [c EXCEPT !.pc = pc]
WithSize(c, size) == [c EXCEPT !.size = size]
WithNode(c, node) == [c EXCEPT !.node = node]
WithBefore(c, before) == [c EXCEPT !.before = before]
WithNbytes(c, nbytes) == [c EXCEPT !.nbytes = nbytes]
WithErr(c, err) == [c EXCEPT !.err = err]
WithData(c, data) == [c EXCEPT !.data = data]

LEMMA OpCall ==
  ASSUME NEW c \in CallType, NEW op \in Ops
  PROVE  LET d == WithOp(c, op) IN
         /\ d \in CallType /\ d.op = op
         /\ d.pc = c.pc /\ d.name = c.name /\ d.src = c.src /\ d.size = c.size /\ d.node = c.node
         /\ d.before = c.before /\ d.nbytes = c.nbytes /\ d.err = c.err /\ d.data = c.data
  BY DEF CallType, WithOp

LEMMA NameCall ==
  ASSUME NEW c \in CallType, NEW name \in Seq(Byte)
  PROVE  LET d == WithName(c, name) IN
         /\ d \in CallType /\ d.name = name
         /\ d.op = c.op /\ d.pc = c.pc /\ d.src = c.src /\ d.size = c.size /\ d.node = c.node
         /\ d.before = c.before /\ d.nbytes = c.nbytes /\ d.err = c.err /\ d.data = c.data
  BY DEF CallType, WithName

LEMMA SrcCall ==
  ASSUME NEW c \in CallType, NEW src \in Seq(Char)
  PROVE  LET d == WithSrc(c, src) IN
         /\ d \in CallType /\ d.src = src
         /\ d.op = c.op /\ d.pc = c.pc /\ d.name = c.name /\ d.size = c.size /\ d.node = c.node
         /\ d.before = c.before /\ d.nbytes = c.nbytes /\ d.err = c.err /\ d.data = c.data
  BY DEF CallType, WithSrc

LEMMA PcCall ==
  ASSUME NEW c \in CallType, NEW pc \in Pcs
  PROVE  LET d == WithPc(c, pc) IN
         /\ d \in CallType /\ d.pc = pc
         /\ d.op = c.op /\ d.name = c.name /\ d.src = c.src /\ d.size = c.size /\ d.node = c.node
         /\ d.before = c.before /\ d.nbytes = c.nbytes /\ d.err = c.err /\ d.data = c.data
  BY DEF CallType, WithPc

LEMMA SizeCall ==
  ASSUME NEW c \in CallType, NEW size \in Nat
  PROVE  LET d == WithSize(c, size) IN
         /\ d \in CallType /\ d.size = size
         /\ d.op = c.op /\ d.pc = c.pc /\ d.name = c.name /\ d.src = c.src /\ d.node = c.node
         /\ d.before = c.before /\ d.nbytes = c.nbytes /\ d.err = c.err /\ d.data = c.data
  BY DEF CallType, WithSize

LEMMA NodeCall ==
  ASSUME NEW c \in CallType, NEW node \in Nat
  PROVE  LET d == WithNode(c, node) IN
         /\ d \in CallType /\ d.node = node
         /\ d.op = c.op /\ d.pc = c.pc /\ d.name = c.name /\ d.src = c.src /\ d.size = c.size
         /\ d.before = c.before /\ d.nbytes = c.nbytes /\ d.err = c.err /\ d.data = c.data
  BY DEF CallType, WithNode

LEMMA BeforeCall ==
  ASSUME NEW c \in CallType, NEW before \in Seq(Char)
  PROVE  LET d == WithBefore(c, before) IN
         /\ d \in CallType /\ d.before = before
         /\ d.op = c.op /\ d.pc = c.pc /\ d.name = c.name /\ d.src = c.src /\ d.size = c.size
         /\ d.node = c.node /\ d.nbytes = c.nbytes /\ d.err = c.err /\ d.data = c.data
  BY DEF CallType, WithBefore

LEMMA NbytesCall ==
  ASSUME NEW c \in CallType, NEW nbytes \in Nat
  PROVE  LET d == WithNbytes(c, nbytes) IN
         /\ d \in CallType /\ d.nbytes = nbytes
         /\ d.op = c.op /\ d.pc = c.pc /\ d.name = c.name /\ d.src = c.src /\ d.size = c.size
         /\ d.node = c.node /\ d.before = c.before /\ d.err = c.err /\ d.data = c.data
  BY DEF CallType, WithNbytes

LEMMA ErrCall ==
  ASSUME NEW c \in CallType, NEW err \in Nat
  PROVE  LET d == WithErr(c, err) IN
         /\ d \in CallType /\ d.err = err
         /\ d.op = c.op /\ d.pc = c.pc /\ d.name = c.name /\ d.src = c.src /\ d.size = c.size
         /\ d.node = c.node /\ d.before = c.before /\ d.nbytes = c.nbytes /\ d.data = c.data
  BY DEF CallType, WithErr

LEMMA DataCall ==
  ASSUME NEW c \in CallType, NEW data \in StrType
  PROVE  LET d == WithData(c, data) IN
         /\ d \in CallType /\ d.data = data
         /\ d.op = c.op /\ d.pc = c.pc /\ d.name = c.name /\ d.src = c.src /\ d.size = c.size
         /\ d.node = c.node /\ d.before = c.before /\ d.nbytes = c.nbytes /\ d.err = c.err
  BY DEF CallType, WithData

\* What the steps make of a call.
LEMMA DoneCall ==
  ASSUME NEW c \in CallType, NEW err \in Nat
  PROVE  LET d == Done(c, err) IN
         /\ d \in CallType /\ d.pc = "done" /\ d.err = err
         /\ d.op = c.op /\ d.name = c.name /\ d.src = c.src /\ d.size = c.size /\ d.node = c.node
         /\ d.before = c.before /\ d.nbytes = c.nbytes /\ d.data = c.data
  <1>1. Done(c, err) = WithErr(WithPc(c, "done"), err)
    BY DEF Done, WithPc, WithErr
  <1>2. "done" \in Pcs
    BY DEF Pcs
  <1> QED
    BY <1>1, <1>2, PcCall, ErrCall

\* file_read after stat
Opening(c, size) == [c EXCEPT !.size = size, !.pc = "open"]
LEMMA OpeningCall ==
  ASSUME NEW c \in CallType, NEW size \in Nat
  PROVE  LET d == Opening(c, size) IN
         /\ d \in CallType /\ d.size = size /\ d.pc = "open"
         /\ d.op = c.op /\ d.name = c.name /\ d.src = c.src /\ d.node = c.node /\ d.before = c.before
         /\ d.nbytes = c.nbytes /\ d.err = c.err /\ d.data = c.data
  <1>1. Opening(c, size) = WithPc(WithSize(c, size), "open")
    BY DEF Opening, WithSize, WithPc
  <1>2. "open" \in Pcs
    BY DEF Pcs
  <1> QED
    BY <1>1, <1>2, SizeCall, PcCall

\* file_read after fopen
Reading(c, node, data) == [c EXCEPT !.pc = "data", !.node = node, !.data = data]
LEMMA ReadingCall ==
  ASSUME NEW c \in CallType, NEW node \in Nat, NEW data \in StrType
  PROVE  LET d == Reading(c, node, data) IN
         /\ d \in CallType /\ d.pc = "data" /\ d.node = node /\ d.data = data
         /\ d.op = c.op /\ d.name = c.name /\ d.src = c.src /\ d.size = c.size /\ d.before = c.before
         /\ d.nbytes = c.nbytes /\ d.err = c.err
  <1>1. Reading(c, node, data) = WithData(WithNode(WithPc(c, "data"), node), data)
    BY DEF Reading, WithPc, WithNode, WithData
  <1>2. "data" \in Pcs
    BY DEF Pcs
  <1> QED
    BY <1>1, <1>2, PcCall, NodeCall, DataCall

\* file_write after fopen, for a new file and for an old one
Creating(c, node) == [[c EXCEPT !.pc = "fwrite"] EXCEPT !.node = node]
LEMMA CreatingCall ==
  ASSUME NEW c \in CallType, NEW node \in Nat
  PROVE  LET d == Creating(c, node) IN
         /\ d \in CallType /\ d.pc = "fwrite" /\ d.node = node
         /\ d.op = c.op /\ d.name = c.name /\ d.src = c.src /\ d.size = c.size /\ d.before = c.before
         /\ d.nbytes = c.nbytes /\ d.err = c.err /\ d.data = c.data
  <1>1. Creating(c, node) = WithNode(WithPc(c, "fwrite"), node)
    BY DEF Creating, WithPc, WithNode
  <1>2. "fwrite" \in Pcs
    BY DEF Pcs
  <1> QED
    BY <1>1, <1>2, PcCall, NodeCall

Writing(c, node, before) == [[c EXCEPT !.pc = "fwrite"] EXCEPT !.node = node, !.before = before]
LEMMA WritingCall ==
  ASSUME NEW c \in CallType, NEW node \in Nat, NEW before \in Seq(Char)
  PROVE  LET d == Writing(c, node, before) IN
         /\ d \in CallType /\ d.pc = "fwrite" /\ d.node = node /\ d.before = before
         /\ d.op = c.op /\ d.name = c.name /\ d.src = c.src /\ d.size = c.size /\ d.nbytes = c.nbytes
         /\ d.err = c.err /\ d.data = c.data
  <1>1. Writing(c, node, before) = WithBefore(Creating(c, node), before)
    BY DEF Writing, Creating, WithBefore
  <1>2. PICK d : d = Creating(c, node)
    OBVIOUS
  <1>3. /\ d \in CallType /\ d.pc = "fwrite" /\ d.node = node
        /\ d.op = c.op /\ d.name = c.name /\ d.src = c.src /\ d.size = c.size
        /\ d.nbytes = c.nbytes /\ d.err = c.err /\ d.data = c.data
    BY <1>2, CreatingCall
  <1>4. Writing(c, node, before) = WithBefore(d, before)
    BY <1>1, <1>2
  <1> QED
    BY <1>3, <1>4, BeforeCall

\* file_write after fwrite
Closing(c, nbytes) == [c EXCEPT !.pc = "fclose", !.nbytes = nbytes]
LEMMA ClosingCall ==
  ASSUME NEW c \in CallType, NEW nbytes \in Nat
  PROVE  LET d == Closing(c, nbytes) IN
         /\ d \in CallType /\ d.pc = "fclose" /\ d.nbytes = nbytes
         /\ d.op = c.op /\ d.name = c.name /\ d.src = c.src /\ d.size = c.size /\ d.node = c.node
         /\ d.before = c.before /\ d.err = c.err /\ d.data = c.data
  <1>1. Closing(c, nbytes) = WithNbytes(WithPc(c, "fclose"), nbytes)
    BY DEF Closing, WithPc, WithNbytes
  <1>2. "fclose" \in Pcs
    BY DEF Pcs
  <1> QED
    BY <1>1, <1>2, PcCall, NbytesCall

LEMMA WorldFields ==
  \A w \in WorldType :
    /\ \A n \in Nat : [w EXCEPT !.events = n] \in WorldType
    /\ \A n \in Nat : [w EXCEPT !.changes = n] \in WorldType
    /\ \A b \in BOOLEAN : [w EXCEPT !.alone = b] \in WorldType
    /\ \A b \in BOOLEAN : [w EXCEPT !.failed = b] \in WorldType
    /\ \A c \in CallType : [w EXCEPT !.asked = c] \in WorldType
    /\ \A h \in SUBSET Seq(Char) : [w EXCEPT !.held = h] \in WorldType
  BY DEF WorldType

LEMMA CallParts ==
  ASSUME NEW c \in CallType
  PROVE  /\ c.op \in Ops /\ c.pc \in Pcs
         /\ c.name \in Seq(Byte) /\ c.src \in Seq(Char) /\ c.size \in Nat /\ c.node \in Nat
         /\ c.before \in Seq(Char) /\ c.nbytes \in Nat /\ c.err \in Nat /\ c.data \in StrType
  BY DEF CallType

\* A call that begins.
Begun(op, name, src) == [Idle EXCEPT !.op = op, !.name = name, !.src = src, !.pc = "stat"]
LEMMA BegunCall ==
  ASSUME NEW op \in Ops, NEW name \in Seq(Byte), NEW src \in Seq(Char)
  PROVE  LET d == Begun(op, name, src) IN
         /\ d \in CallType /\ Idle \in CallType /\ StrNull \in StrType
         /\ d.op = op /\ d.pc = "stat" /\ d.name = name /\ d.src = src /\ d.size = 0
         /\ d.node = 0 /\ d.before = <<>> /\ d.nbytes = 0 /\ d.err = 0 /\ d.data = StrNull
  <1>1. StrNull \in StrType
    BY DEF StrNull, Str, StrType
  <1>2. Idle \in CallType /\ "stat" \in Pcs
    BY <1>1 DEF CallType, Pcs, Ops, Idle
  <1>3. PICK o : o = WithOp(Idle, op)
    OBVIOUS
  <1>4. PICK n : n = WithName(o, name)
    OBVIOUS
  <1>5. PICK s : s = WithSrc(n, src)
    OBVIOUS
  <1>6. Begun(op, name, src) = WithPc(s, "stat")
    BY <1>3, <1>4, <1>5 DEF Begun, WithOp, WithName, WithSrc, WithPc
  <1>7. o \in CallType /\ o.op = op /\ o.size = 0 /\ o.node = 0 /\ o.before = <<>>
        /\ o.nbytes = 0 /\ o.err = 0 /\ o.data = StrNull
    BY <1>2, <1>3, OpCall DEF Idle
  <1>8. n \in CallType /\ n.op = op /\ n.name = name /\ n.size = 0 /\ n.node = 0
        /\ n.before = <<>> /\ n.nbytes = 0 /\ n.err = 0 /\ n.data = StrNull
    BY <1>4, <1>7, NameCall
  <1>9. s \in CallType /\ s.op = op /\ s.name = name /\ s.src = src /\ s.size = 0 /\ s.node = 0
        /\ s.before = <<>> /\ s.nbytes = 0 /\ s.err = 0 /\ s.data = StrNull
    BY <1>5, <1>8, SrcCall
  <1> QED
    BY <1>1, <1>2, <1>6, <1>9, PcCall

\* Most steps have nothing to do with what a read has got, or leave it as it is.
LEMMA NoPieces ==
  ASSUME call'.pc # "data", call'.pc \in {"stat", "open"} => call'.nbytes = 0,
         call'.pc = "done" => call'.op # "read" \/ call'.err # 0
  PROVE  PieceInv'
  BY DEF PieceInv, Filling

LEMMA SamePieces ==
  ASSUME PieceInv, UNCHANGED call, world'.held = world.held,
         Filling => UNCHANGED <<mem, nodes>> /\ world'.alone = world.alone
  PROVE  PieceInv'
  BY DEF PieceInv, GotSoFar, Filling, AllThere, WasThere

LEMMA FilesUnchanged ==
  ASSUME FileInv, UNCHANGED fileVars
  PROVE  FileInv'
  BY DEF FileInv, fileVars, FileTypes, Steps, AskedInv, ReadInv, WriteInv, SameFile, KindOf,
         SizeOf, NodeOf, Direct, Wrote

\* Nothing was asked or done for a new call.
LEMMA BeginFiles ==
  ASSUME StrsInv, FileInv, NEW op \in {"exists", "size", "read", "w", "a"},
         NEW path \in Range(strs), NEW src \in Seq(Char), Begin(op, path, src)
  PROVE  FileInv' /\ PieceInv' /\ ~Filling /\ ~Filling'
  <1>1. PICK name : name = IF GoodPath(path) THEN CString(path) ELSE <<>>
    OBVIOUS
  <1>2. name \in Seq(Byte) /\ op \in Ops /\ EBADF \in Nat
    BY <1>1, PathName DEF Ops, EBADF
  <1>3. call' = IF GoodPath(path) THEN Begun(op, name, src) ELSE Done(Begun(op, name, src), EBADF)
    BY <1>1 DEF Begin, Goes, Begun
  <1>4. /\ world' = [world EXCEPT !.events = @ + 1, !.alone = TRUE, !.failed = FALSE,
                                  !.held = {}, !.asked = IF op \in {"w", "a"} THEN Idle ELSE @]
        /\ UNCHANGED <<strVars, lang, fs, nodes>> /\ call.pc = "done"
    BY DEF Begin, Ready
  <1>5. /\ call' \in CallType /\ call'.op = op /\ call'.node = 0 /\ call'.before = <<>>
        /\ \/ call'.pc = "stat" /\ call'.nbytes = 0
           \/ call'.pc = "done" /\ call'.name = <<>> /\ call'.err # 0
    <2>1. PICK c : c = Begun(op, name, src)
      OBVIOUS
    <2>2. c \in CallType /\ c.op = op /\ c.node = 0 /\ c.before = <<>> /\ c.pc = "stat"
          /\ c.name = name /\ c.nbytes = 0
      BY <1>2, <2>1, BegunCall
    <2>3. CASE GoodPath(path)
      BY <1>3, <2>1, <2>2, <2>3
    <2>4. CASE ~GoodPath(path)
      <3>1. name = <<>> /\ call' = Done(c, EBADF)
        BY <1>1, <1>3, <2>1, <2>4
      <3> QED
        <4>1. EBADF \in Nat /\ EBADF # 0
          BY DEF EBADF
        <4> QED
          BY <2>2, <3>1, <4>1, DoneCall
    <2> QED
      BY <2>3, <2>4
  <1>6. world' \in WorldType
    <2>1. world \in WorldType /\ world.events + 1 \in Nat /\ world.asked \in CallType
      BY DEF FileInv, FileTypes, WorldType
    <2>2. (IF op \in {"w", "a"} THEN Idle ELSE world.asked) \in CallType
      BY <1>2, <2>1, BegunCall
    <2> QED
      BY <1>4, <2>1, <2>2, WorldFields
  <1>7. FileTypes'
    BY <1>4, <1>5, <1>6 DEF FileInv, FileTypes
  <1>8. world'.alone = TRUE /\ world'.failed = FALSE
         /\ world'.asked = IF op \in {"w", "a"} THEN Idle ELSE world.asked
    BY <1>4 DEF FileInv, FileTypes, WorldType
  <1>9. Steps'
    BY <1>5, <1>8 DEF Steps
  <1>10. AskedInv'
    <2>1. CASE op \in {"w", "a"}
      BY <1>8, <2>1 DEF AskedInv, Idle
    <2>2. CASE op \notin {"w", "a"}
      BY <1>4, <1>5, <1>8, <2>2 DEF AskedInv, FileInv, KindOf, SizeOf, NodeOf
    <2> QED
      BY <2>1, <2>2
  <1>11. ReadInv' /\ WriteInv'
    BY <1>5 DEF ReadInv, WriteInv
  <1>12. PieceInv'
    BY <1>5, NoPieces
  <1> QED
    BY <1>4, <1>5, <1>7, <1>9, <1>10, <1>11, <1>12 DEF FileInv, Filling

LEMMA AskFiles ==
  ASSUME FileInv, Ask
  PROVE  FileInv' /\ PieceInv' /\ ~Filling /\ ~Filling'
  <1> DEFINE kind == KindOf(call.name)
  <1>0. FileTypes /\ call \in CallType /\ call.pc = "stat" /\ call.op \in {"exists", "size"}
        /\ call.node = 0 /\ call.before = <<>> /\ kind \in {"none", "file", "dir"}
        /\ (kind = "file" => SizeOf(call.name) \in Nat)
    BY NodeKinds DEF Ask, FileInv, FileTypes, Steps
  <1>1. /\ \/ kind # "file" /\ \E e \in {0, ENOENT, EBADF} : call' = Done(call, e)
           \/ kind = "dir" /\ call' = Done(WithSize(call, DirSize), 0)
           \/ kind = "file" /\ call' = Done(WithSize(call, SizeOf(call.name)), 0)
        /\ world' = [world EXCEPT !.asked = call']
        /\ UNCHANGED <<strVars, lang, fs, nodes>>
    <2>1. /\ kind = "none" => call' = Done(call, ENOENT)
          /\ (kind = "dir" /\ call.op = "exists") => call' = Done(call, 0)
          /\ (kind = "dir" /\ call.op = "size") =>
               call' = IF lang = "c" THEN Done(call, EBADF) ELSE Done(WithSize(call, DirSize), 0)
          /\ kind = "file" => call' = Done(WithSize(call, SizeOf(call.name)), 0)
      BY <1>0 DEF Ask, Goes, WithSize
    <2>2. world' = [world EXCEPT !.asked = call'] /\ UNCHANGED <<strVars, lang, fs, nodes>>
      BY DEF Ask, Goes
    <2> HIDE DEF kind
    <2> QED
      BY <1>0, <2>1, <2>2
  <1>2. ENOENT \in Nat /\ EBADF \in Nat /\ DirSize \in Nat
    BY DEF ENOENT, EBADF, DirSize
  <1>3. /\ call' \in CallType /\ call'.op = call.op /\ call'.pc = "done" /\ call'.name = call.name
        /\ call'.node = 0 /\ (kind = "file" => call'.size = SizeOf(call.name))
    <2>1. CASE kind # "file" /\ \E e \in {0, ENOENT, EBADF} : call' = Done(call, e)
      <3>1. PICK e \in Nat : call' = Done(call, e)
        BY <1>2, <2>1
      <3> QED
        BY <1>0, <2>1, <3>1, DoneCall
    <2>2. ASSUME NEW size \in Nat, call' = Done(WithSize(call, size), 0)
          PROVE  /\ call' \in CallType /\ call'.op = call.op /\ call'.pc = "done"
                 /\ call'.name = call.name /\ call'.node = 0 /\ call'.size = size
      <3>1. PICK c : c = WithSize(call, size)
        OBVIOUS
      <3>2. c \in CallType /\ c.size = size /\ c.op = call.op /\ c.name = call.name /\ c.node = 0
        BY <1>0, <3>1, SizeCall
      <3> QED
        BY <2>2, <3>1, <3>2, DoneCall
    <2>3. CASE kind = "dir" /\ call' = Done(WithSize(call, DirSize), 0)
      BY <1>2, <2>2, <2>3
    <2>4. CASE kind = "file" /\ call' = Done(WithSize(call, SizeOf(call.name)), 0)
      BY <1>0, <2>2, <2>4
    <2> QED
      BY <1>1, <2>1, <2>3, <2>4
  <1>4. world' \in WorldType /\ world'.asked = call'
    BY <1>0, <1>1, <1>3 DEF FileTypes, WorldType
  <1>5. FileTypes'
    BY <1>0, <1>1, <1>3, <1>4 DEF FileTypes
  <1>6. Steps' /\ ReadInv' /\ WriteInv'
    BY <1>0, <1>3 DEF Steps, ReadInv, WriteInv
  <1>7. KindOf(call.name)' = kind /\ SizeOf(call.name)' = SizeOf(call.name)
    BY <1>1, <1>3 DEF KindOf, SizeOf, NodeOf
  <1>8. AskedInv'
    <2>1. KindOf(world.asked.name)' = kind /\ SizeOf(world.asked.name)' = SizeOf(call.name)
      BY <1>4, <1>7
    <2> QED
      BY <1>0, <1>3, <1>4, <2>1 DEF AskedInv
  <1>9. PieceInv'
    BY <1>0, <1>3, NoPieces
  <1> QED
    BY <1>0, <1>3, <1>5, <1>6, <1>8, <1>9 DEF FileInv, Filling

LEMMA ReadStatFiles ==
  ASSUME FileInv, PieceInv, ReadStat
  PROVE  FileInv' /\ PieceInv' /\ ~Filling /\ ~Filling'
  <1> DEFINE kind == KindOf(call.name)
  <1>0. FileTypes /\ call \in CallType /\ call.pc = "stat" /\ call.op = "read"
        /\ call.node = 0 /\ call.before = <<>> /\ ~world.failed /\ kind \in {"none", "file", "dir"}
        /\ (kind = "file" => SizeOf(call.name) \in Nat)
    BY NodeKinds DEF ReadStat, FileInv, FileTypes, Steps
  <1>1. /\ kind = "none" => call' = Done(call, ENOENT)
        /\ kind = "dir" => call' = Done(call, EBADF)
        /\ kind = "file" => call' = Opening(call, SizeOf(call.name))
        /\ UNCHANGED <<strVars, lang, fs, nodes, world>>
    BY DEF ReadStat, Goes, OnlyCall, Opening
  <1>2. ENOENT \in Nat /\ EBADF \in Nat
    BY DEF ENOENT, EBADF
  <1>3. /\ call' \in CallType /\ call'.op = "read" /\ call'.name = call.name /\ call'.node = 0
        /\ \/ kind = "none" /\ call'.pc = "done" /\ call'.err = ENOENT
           \/ kind = "dir" /\ call'.pc = "done" /\ call'.err = EBADF
           \/ kind = "file" /\ call'.pc = "open" /\ call'.size = SizeOf(call.name)
              /\ call'.nbytes = call.nbytes
    <2>1. CASE kind = "none"
      BY <1>0, <1>1, <1>2, <2>1, DoneCall
    <2>2. CASE kind = "dir"
      BY <1>0, <1>1, <1>2, <2>2, DoneCall
    <2>3. CASE kind = "file"
      BY <1>0, <1>1, <2>3, OpeningCall
    <2> QED
      BY <1>0, <2>1, <2>2, <2>3
  <1>4. FileTypes'
    BY <1>0, <1>1, <1>3 DEF FileTypes
  <1>5. Steps' /\ WriteInv'
    BY <1>0, <1>1, <1>3 DEF Steps, WriteInv
  <1>6. AskedInv'
    BY <1>0, <1>1, <1>3 DEF AskedInv, FileInv, KindOf, SizeOf, NodeOf
  <1>7. KindOf(call.name)' = kind /\ SizeOf(call.name)' = SizeOf(call.name)
    BY <1>1, <1>3 DEF KindOf, SizeOf, NodeOf
  <1>8. ReadInv'
    BY <1>3, <1>7 DEF ReadInv, SameFile, ENOENT, EBADF
  <1>9. PieceInv'
    <2>1. call.nbytes = 0 /\ ENOENT # 0 /\ EBADF # 0
      BY <1>0 DEF PieceInv, ENOENT, EBADF
    <2> HIDE DEF kind
    <2> QED
      BY <1>3, <2>1, NoPieces
  <1> QED
    BY <1>0, <1>3, <1>4, <1>5, <1>6, <1>8, <1>9 DEF FileInv, Filling

\* fopen fails, or opens what the name leads to now.
LEMMA ReadOpenFiles ==
  ASSUME StrsInv, FileInv, PieceInv, ReadOpen
  PROVE  StrsInv' /\ FileInv' /\ PieceInv'
  <1>0. FileTypes /\ call \in CallType /\ call.pc = "open" /\ call.op = "read" /\ ~Filling
        /\ world \in WorldType /\ alive \in BOOLEAN /\ strs \in Seq(StrType)
    BY DEF ReadOpen, FileInv, FileTypes, Filling, StrsInv, MemTypes
  <1>1. /\ call.size \in Nat /\ ENOENT \in Nat /\ EACCES \in Nat
        /\ world.alone => SameFile
        /\ NodeOf(call.name) = 0 => KindOf(call.name) = "none"
    BY <1>0, NodeKinds, CallParts DEF FileInv, ReadInv, ENOENT, EACCES
  <1>2. CASE NodeOf(call.name) = 0 /\ call' = Done(call, ENOENT) /\ OnlyCall
    <2>1. /\ call' \in CallType /\ call'.op = "read" /\ call'.pc = "done" /\ call'.err = ENOENT
          /\ call'.node = call.node /\ call'.name = call.name
      BY <1>0, <1>1, <1>2, DoneCall
    <2>2. UNCHANGED <<arena, mem, strs, alive, lang, fs, nodes, world>> /\ ~Filling'
      BY <1>2, <2>1 DEF OnlyCall, strVars, Filling
    <2>3. FileTypes'
      BY <1>0, <2>1, <2>2 DEF FileTypes
    <2>4. Steps' /\ WriteInv' /\ AskedInv'
      BY <1>0, <2>1, <2>2 DEF FileInv, Steps, WriteInv, AskedInv, KindOf, SizeOf, NodeOf
    <2>5. ReadInv'
      <3>1. ~world.alone
        BY <1>1, <1>2 DEF SameFile
      <3> QED
        BY <2>1, <2>2, <3>1 DEF ReadInv, ENOENT
    <2>6. PieceInv'
      BY <2>1, NoPieces DEF ENOENT, EACCES
    <2> QED
      BY <1>0, <2>2, <2>3, <2>4, <2>5, <2>6, SameMemory DEF FileInv
  <1>3. CASE /\ call' = Done(call, EACCES) /\ world' = [world EXCEPT !.failed = TRUE]
             /\ UNCHANGED <<strVars, lang, fs, nodes>>
    <2>1. /\ call' \in CallType /\ call'.op = "read" /\ call'.pc = "done" /\ call'.err = EACCES
          /\ call'.node = call.node /\ call'.name = call.name
      BY <1>0, <1>1, <1>3, DoneCall
    <2>2. UNCHANGED <<arena, mem, strs, alive, lang, fs, nodes>> /\ ~Filling'
          /\ world' \in WorldType /\ world'.failed = TRUE /\ world'.alone = world.alone
          /\ world'.asked = world.asked
      BY <1>0, <1>3, <2>1 DEF strVars, Filling, WorldType
    <2>3. FileTypes'
      BY <1>0, <2>1, <2>2 DEF FileTypes
    <2>4. Steps' /\ WriteInv' /\ AskedInv'
      BY <1>0, <2>1, <2>2 DEF FileInv, Steps, WriteInv, AskedInv, KindOf, SizeOf, NodeOf
    <2>5. ReadInv'
      BY <2>1, <2>2 DEF ReadInv, EACCES
    <2>6. PieceInv'
      BY <2>1, NoPieces DEF ENOENT, EACCES
    <2> QED
      BY <1>0, <2>2, <2>3, <2>4, <2>5, <2>6, SameMemory DEF FileInv
  <1>4. CASE NodeOf(call.name) # 0 /\ Trap(StrNew(call.size).alloc) /\ UNCHANGED fileVars
    <2>1. UNCHANGED <<arena, mem, strs, call>> /\ alive' \in BOOLEAN
      BY <1>4 DEF Trap, fileVars
    <2>2. PieceInv'
      BY <1>0, <1>4, <2>1, SamePieces DEF fileVars
    <2> QED
      BY <1>4, <2>1, <2>2, SameMemory, FilesUnchanged
  <1>5. CASE /\ NodeOf(call.name) # 0
             /\ StrNew(call.size).alloc.out = "ok" /\ arena' = StrNew(call.size).alloc.buf
             /\ call' = Reading(call, NodeOf(call.name), StrNew(call.size).data)
             /\ world' = [world EXCEPT !.held = {nodes[NodeOf(call.name)].data}]
             /\ UNCHANGED <<mem, strs, alive, lang, fs, nodes>>
    <2>1. StrNew(call.size).alloc = MakeBytes(call.size)
      BY DEF StrNew
    <2>2. StrNew(call.size).data \in StrType
      <3>1. MakeBytes(call.size).beg \in Int
        <4>1. MemTypes /\ MakeBytes(call.size).out # "trap" /\ call.size \in Int /\ arena.len \in Int
          BY <1>1, <1>5, <2>1 DEF StrsInv, MemTypes
        <4> QED
          BY <4>1, BytesTaken
      <3> QED
        BY <1>1, <3>1 DEF StrNew, Str, StrType
    <2>3. NodeOf(call.name) \in DOMAIN nodes /\ NodeOf(call.name) \in Nat
      BY <1>0, <1>5, NodeKinds
    <2>4. /\ call' \in CallType /\ call'.op = "read" /\ call'.pc = "data" /\ call'.size = call.size
          /\ call'.node = NodeOf(call.name) /\ call'.name = call.name
          /\ call'.data = StrNew(call.size).data /\ call'.nbytes = call.nbytes
      BY <1>0, <1>5, <2>2, <2>3, ReadingCall
    <2>5. StrsInv'
      BY <1>0, <1>1, <1>5, <2>1, <2>4, BytesForFileKeep
    <2>6. world' \in WorldType /\ world'.alone = world.alone /\ world'.failed = world.failed
          /\ world'.asked = world.asked
          /\ world'.held = {nodes[NodeOf(call.name)].data}
      <3>1. nodes[NodeOf(call.name)].data \in Seq(Char)
        <4>1. nodes[NodeOf(call.name)] \in NodeType
          BY <1>0, <2>3, ElementOfSeq DEF FileTypes
        <4> QED
          BY <4>1 DEF NodeType
      <3> QED
        BY <1>0, <1>5, <3>1 DEF WorldType
    <2>7. FileTypes'
      BY <1>0, <1>5, <2>4, <2>6 DEF FileTypes
    <2>8. Steps' /\ WriteInv' /\ AskedInv'
      BY <1>0, <1>5, <2>3, <2>4, <2>6 DEF FileInv, Steps, WriteInv, AskedInv, KindOf, SizeOf, NodeOf
    <2>9. ReadInv'
      <3>1. SameFile' = SameFile /\ NodeOf(call.name)' = NodeOf(call.name)
        BY <1>5, <2>4 DEF SameFile, KindOf, SizeOf, NodeOf
      <3> QED
        BY <1>1, <1>5, <2>4, <2>6, <3>1 DEF ReadInv
    <2>10. PieceInv'
      <3>1. call'.nbytes = 0 /\ call'.data.len = call'.size
        BY <1>0, <2>4 DEF PieceInv, StrNew, Str
      <3>2. nodes'[call'.node].data = nodes[NodeOf(call.name)].data
        BY <1>5, <2>4
      <3> QED
        BY <1>1, <2>4, <2>6, <3>1, <3>2 DEF PieceInv, GotSoFar
    <2> QED
      BY <2>5, <2>7, <2>8, <2>9, <2>10 DEF FileInv
  <1> QED
    BY <1>2, <1>3, <1>4, <1>5 DEF ReadOpen, Goes, Reading

\* file_read after a piece
LEMMA PieceCall ==
  ASSUME NEW c \in CallType, NEW n \in Nat
  PROVE  LET d == [c EXCEPT !.nbytes = n] IN
         /\ d \in CallType /\ d.nbytes = n
         /\ d.op = c.op /\ d.pc = c.pc /\ d.name = c.name /\ d.src = c.src /\ d.size = c.size
         /\ d.node = c.node /\ d.before = c.before /\ d.err = c.err /\ d.data = c.data
  BY NbytesCall DEF WithNbytes

\* What is read while the file is filled in.
LEMMA ReadsFile ==
  ASSUME StrsInv, FileInv, call.pc = "data", call.op = "read"
  PROVE  /\ FileTypes /\ call \in CallType /\ Filling /\ world \in WorldType
         /\ call.size \in Nat /\ call.nbytes \in Nat /\ call.data.beg \in Nat
         /\ call.node \in DOMAIN nodes /\ nodes[call.node].data \in Seq(Char)
         /\ world.held \subseteq Seq(Char)
  <1>1. call.node \in DOMAIN nodes /\ nodes \in Seq(NodeType)
    BY DEF FileInv, FileTypes, Steps
  <1>2. nodes[call.node] \in NodeType
    BY <1>1, ElementOfSeq
  <1> QED
    BY <1>1, <1>2, CallParts DEF FileInv, FileTypes, Filling, StrsInv, NodeType, WorldType

\* A piece is what the file holds there now, and not more than is wanted.
LEMMA ReadDataFiles ==
  ASSUME StrsInv, FileInv, PieceInv, ReadData
  PROVE  StrsInv' /\ FileInv' /\ PieceInv'
  <1>0. /\ FileTypes /\ call \in CallType /\ call.pc = "data" /\ call.op = "read" /\ Filling
        /\ world \in WorldType /\ call.size \in Nat /\ call.data.beg \in Nat /\ GotSoFar
        /\ UNCHANGED <<arena, strs, alive, lang, fs, nodes, world>>
    BY ReadsFile DEF ReadData, PieceInv
  <1>1. PICK data \in Seq(Char) : data = nodes[call.node].data
    BY <1>0, ReadsFile
  <1>2. PICK got \in Nat : got = call.nbytes /\ got <= call.size
    BY <1>0 DEF GotSoFar
  <1>3. PICK n \in 1 .. Min({Wanted(got), Len(data) - got}) :
          /\ mem' = Stored(call.data.beg + got, SubSeq(data, got + 1, got + n), FALSE)
          /\ call' = [call EXCEPT !.nbytes = got + n]
    BY <1>1, <1>2 DEF ReadData, Goes
  <1>4. n \in Nat /\ got + n <= call.size /\ got + n <= Len(data) /\ Len(data) \in Nat
    <2>1. PICK rest \in Nat : rest = call.size - got
      BY <1>0, <1>2
    <2>2. BlockSize \in Nat /\ BlockSize > 0
      BY FileAssumption
    <2>3. Wanted(got) \in Nat /\ Wanted(got) <= rest
      <3>1. (rest \div BlockSize) \in Nat /\ (rest \div BlockSize) * BlockSize <= rest
            /\ (rest \div BlockSize) * BlockSize \in Nat
        BY <2>2
      <3> QED
        BY <2>1, <3>1 DEF Wanted
    <2>4. PICK w \in Int, l \in Int : w = Wanted(got) /\ l = Len(data) - got
      <3>1. Wanted(got) \in Int /\ Len(data) - got \in Int
        BY <1>2, <2>3
      <3> QED
        BY <3>1
    <2>5. \E m \in {w, l} : \A k \in {w, l} : m <= k
      OBVIOUS
    <2>6. Min({w, l}) \in {w, l} /\ \A k \in {w, l} : Min({w, l}) <= k
      BY <2>5 DEF Min
    <2>7. n \in Int /\ n >= 1 /\ n <= w /\ n <= l
      BY <1>3, <2>4, <2>6
    <2> QED
      BY <1>0, <1>2, <2>1, <2>3, <2>4, <2>7
  <1>5. PICK text \in Seq(Char) : /\ text = SubSeq(data, got + 1, got + n) /\ Len(text) = n
                                  /\ \A i \in 1 .. n : text[i] = data[got + i]
    <2>1. /\ SubSeq(data, got + 1, got + n) \in Seq(Char)
          /\ Len(SubSeq(data, got + 1, got + n)) = n
          /\ \A i \in 1 .. n : SubSeq(data, got + 1, got + n)[i] = data[got + i]
      <3>1. PICK a \in Nat, b \in Nat : a = got + 1 /\ b = got + n
        BY <1>2, <1>4
      <3>2. a >= 1 /\ b <= Len(data) /\ b - a + 1 = n
        BY <1>2, <1>4, <3>1
      <3>3. \A i \in 1 .. n : a + i - 1 = got + i
        BY <1>2, <1>4, <3>1
      <3>4. SubSeq(data, a, b) = [i \in 1 .. n |-> data[a + i - 1]]
        BY <1>4, <3>2
      <3>5. \A i \in 1 .. n : data[a + i - 1] \in Char
        <4> SUFFICES ASSUME NEW i \in 1 .. n PROVE data[a + i - 1] \in Char
          OBVIOUS
        <4>1. a + i - 1 \in 1 .. Len(data)
          BY <1>4, <3>1, <3>2
        <4> QED
          BY <4>1, ElementOfSeq
      <3>6. SubSeq(data, a, b) \in Seq(Char) /\ Len(SubSeq(data, a, b)) = n
        BY <1>4, <3>4, <3>5
      <3> QED
        BY <3>1, <3>3, <3>4, <3>6
    <2> QED
      BY <2>1
  <1>6. /\ call' \in CallType /\ call'.nbytes = got + n
        /\ call'.op = "read" /\ call'.pc = "data" /\ call'.name = call.name /\ call'.size = call.size
        /\ call'.node = call.node /\ call'.data = call.data /\ call'.err = call.err
    <2>1. PICK m \in Nat : m = got + n
      BY <1>2, <1>4
    <2> QED
      BY <1>0, <1>3, <2>1, PieceCall
  <1>7. /\ StrsInv'
        /\ \A i \in 1 .. got : mem'[call.data.beg + i - 1] = mem[call.data.beg + i - 1]
        /\ \A i \in 1 .. n : mem'[call.data.beg + (got + i) - 1] = text[i]
    <2>1. got + Len(text) <= call.size /\ Filling'
      BY <1>4, <1>5, <1>6 DEF Filling
    <2>2. mem' = Stored(call.data.beg + got, text, FALSE)
      BY <1>3, <1>5
    <2>3. Len(text) = n
      BY <1>5
    <2>4. UNCHANGED <<arena, strs, alive>> /\ call'.data = call.data /\ call'.size = call.size
      BY <1>0, <1>6
    <2>5. /\ StrsInv'
          /\ \A i \in 1 .. got : mem'[call.data.beg + i - 1] = mem[call.data.beg + i - 1]
          /\ \A i \in 1 .. Len(text) : mem'[call.data.beg + (got + i) - 1] = text[i]
      BY <1>0, <2>1, <2>2, <2>4, PieceKeeps
    <2> QED
      BY <2>3, <2>5
  <1>8. FileTypes'
    BY <1>0, <1>6 DEF FileTypes
  <1>9. Steps' /\ WriteInv' /\ AskedInv'
    BY <1>0, <1>6 DEF FileInv, Steps, WriteInv, AskedInv, KindOf, SizeOf, NodeOf
  <1>10. ReadInv'
    BY <1>0, <1>6 DEF FileInv, ReadInv, SameFile, KindOf, SizeOf, NodeOf
  <1>11. \A i \in 1 .. got + n : WasThere(mem'[call.data.beg + i - 1], i)
    <2> SUFFICES ASSUME NEW i \in 1 .. got + n
                 PROVE  WasThere(mem'[call.data.beg + i - 1], i)
      OBVIOUS
    <2>1. CASE i <= got
      <3>1. i \in 1 .. got
        BY <1>2, <1>4, <2>1
      <3> QED
        BY <1>0, <1>2, <1>7, <3>1 DEF GotSoFar
    <2>2. CASE i > got
      <3>1. PICK k \in 1 .. n : i = got + k
        <4>1. i - got \in 1 .. n /\ i = got + (i - got)
          BY <1>2, <1>4, <2>2
        <4> QED
          BY <4>1
      <3>2. mem'[call.data.beg + i - 1] = data[i] /\ i <= Len(data)
        BY <1>4, <1>5, <1>7, <3>1
      <3>3. data \in world.held
        BY <1>0, <1>1 DEF GotSoFar
      <3> QED
        BY <3>2, <3>3 DEF WasThere
    <2> QED
      BY <1>2, <2>1, <2>2
  <1>12. PieceInv'
    <2>1. GotSoFar'
      <3>1. call'.nbytes \in 0 .. call'.size
        BY <1>0, <1>2, <1>4, <1>6
      <3>2. \A i \in 1 .. call'.nbytes : (WasThere(mem[call.data.beg + i - 1], i))'
        BY <1>0, <1>6, <1>11 DEF WasThere
      <3>3. /\ call.data.len = call.size /\ nodes[call.node].data \in world.held
            /\ world.alone => world.held = {nodes[call.node].data}
        BY <1>0 DEF GotSoFar
      <3> QED
        BY <1>0, <1>6, <3>1, <3>2, <3>3 DEF GotSoFar
    <2> QED
      BY <1>6, <2>1 DEF PieceInv
  <1> QED
    BY <1>7, <1>8, <1>9, <1>10, <1>12 DEF FileInv

\* file_read has all the bytes that stat has announced, or fails.
LEMMA ReadEndFiles ==
  ASSUME StrsInv, FileInv, PieceInv, ReadEnd
  PROVE  StrsInv' /\ FileInv' /\ PieceInv'
  <1>0. /\ FileTypes /\ call \in CallType /\ call.pc = "data" /\ call.op = "read" /\ Filling
        /\ world \in WorldType /\ call.size \in Nat /\ call.data.beg \in Nat /\ GotSoFar
        /\ UNCHANGED <<arena, mem, alive, lang, fs, nodes>> /\ world.held \subseteq Seq(Char)
    BY ReadsFile DEF ReadEnd, PieceInv
  <1>1. PICK data \in Seq(Char) : data = nodes[call.node].data
    BY <1>0, ReadsFile
  <1>2. PICK got \in Nat : got = call.nbytes /\ got <= call.size
    BY <1>0 DEF GotSoFar
  <1>3. PICK ok \in BOOLEAN : ok = (got = call.size)
    OBVIOUS
  <1>4. PICK text \in Seq(Char) :
          ok => /\ text = View(call.data) /\ Len(text) = call.size
                /\ \A i \in 1 .. call.size : text[i] = mem[call.data.beg + i - 1] /\ WasThere(text[i], i)
    <2>1. CASE ok
      <3> DEFINE v == View(call.data)
      <3>1. v = [i \in 1 .. call.size |-> mem[call.data.beg + i - 1]]
        BY <1>0 DEF GotSoFar, View
      <3>2. \A i \in 1 .. call.size : WasThere(v[i], i)
        BY <1>0, <1>2, <1>3, <2>1, <3>1 DEF GotSoFar
      <3>3. \A i \in 1 .. call.size : v[i] \in Char
        <4> SUFFICES ASSUME NEW i \in 1 .. call.size PROVE v[i] \in Char
          OBVIOUS
        <4>1. PICK held \in world.held : i <= Len(held) /\ v[i] = held[i]
          BY <3>2 DEF WasThere
        <4>2. held \in Seq(Char) /\ i \in DOMAIN held
          BY <1>0, <4>1
        <4> QED
          BY <4>1, <4>2, ElementOfSeq
      <3>4. v \in Seq(Char) /\ Len(v) = call.size
        <4>1. PICK size \in Nat : size = call.size
          BY <1>0
        <4>2. PICK w : w = v
          OBVIOUS
        <4>3. w = [i \in 1 .. size |-> w[i]] /\ \A i \in 1 .. size : w[i] \in Char
          BY <3>1, <3>3, <4>1, <4>2
        <4>4. w \in Seq(Char) /\ Len(w) = size
          BY <4>3
        <4> QED
          BY <4>1, <4>2, <4>4
      <3> QED
        BY <3>1, <3>2, <3>4
    <2>2. CASE ~ok
      BY <1>1, <2>2
    <2> QED
      BY <2>1, <2>2
  <1>5. PICK s \in StrType :
          /\ s = Str(call.data.beg, call.size, text, call.size, "none")
          /\ s.text = text /\ s.len = call.size /\ s.kept = call.size
    <2>1. Str(call.data.beg, call.size, text, call.size, "none") \in StrType
      BY <1>0 DEF StrType, Str
    <2> QED
      BY <2>1 DEF Str
  <1>6. PICK r \in StrType : r = IF ok THEN s ELSE StrNull
    <2>1. StrNull \in StrType
      BY DEF StrNull, Str, StrType
    <2> QED
      BY <2>1
  <1>7. PICK err \in Nat : err = (IF ok THEN 0 ELSE EIO) /\ (err = 0 <=> ok)
    BY DEF EIO
  <1>8. /\ strs' = IF ok THEN Append(strs, s) ELSE strs
        /\ call' = Done(WithData(call, r), err)
        /\ world' = [world EXCEPT !.failed = @ \/ (~ok /\ got < Len(data))]
    <2>1. LET v == Str(call.data.beg, call.size, View(call.data), call.size, "none") IN
          /\ strs' = IF ok THEN Append(strs, v) ELSE strs
          /\ call' = Done(WithData(call, IF ok THEN v ELSE StrNull), IF ok THEN 0 ELSE EIO)
          /\ world' = [world EXCEPT !.failed = @ \/ (~ok /\ got < Len(data))]
      BY <1>1, <1>2, <1>3 DEF ReadEnd, Goes, WithData
    <2>2. ok => Str(call.data.beg, call.size, View(call.data), call.size, "none") = s
      BY <1>4, <1>5
    <2> QED
      BY <1>6, <1>7, <2>1, <2>2
  <1>9. /\ call' \in CallType /\ call'.op = "read" /\ call'.pc = "done" /\ call'.err = err
        /\ call'.node = call.node /\ call'.name = call.name /\ call'.data = r
        /\ call'.size = call.size
    <2>1. PICK c : c = WithData(call, r)
      OBVIOUS
    <2>2. /\ c \in CallType /\ c.op = "read" /\ c.node = call.node /\ c.name = call.name
          /\ c.data = r /\ c.size = call.size
      BY <1>0, <2>1, DataCall
    <2> QED
      BY <1>8, <2>1, <2>2, DoneCall
  <1>10. StrsInv'
    <2>1. ~Filling'
      BY <1>9 DEF Filling
    <2>2. \/ UNCHANGED strs
          \/ /\ Len(text) = call.size
             /\ \A i \in 1 .. call.size : mem[call.data.beg + i - 1] = text[i]
             /\ strs' = Append(strs, Str(call.data.beg, call.size, text, call.size, "none"))
      BY <1>4, <1>5, <1>8
    <2> QED
      BY <1>0, <2>1, <2>2, FilledKeeps
  <1>11. world' \in WorldType /\ world'.failed = (world.failed \/ (~ok /\ got < Len(data)))
         /\ world'.alone = world.alone /\ world'.asked = world.asked /\ world'.held = world.held
    BY <1>0, <1>8 DEF WorldType
  <1>12. FileTypes'
    BY <1>0, <1>9, <1>11 DEF FileTypes
  <1>13. Steps' /\ WriteInv' /\ AskedInv'
    BY <1>0, <1>9, <1>11 DEF FileInv, Steps, WriteInv, AskedInv, KindOf, SizeOf, NodeOf
  <1>14. ok => call'.data = s /\ call'.data.kept = call'.data.len
    <2> SUFFICES ASSUME ok PROVE call'.data = s /\ s.kept = s.len
      BY Zenon
    <2>1. call'.data = s
      BY <1>6, <1>9
    <2> QED
      BY <1>5, <2>1
  <1>15. ReadInv'
    <2>1. KindOf(call.name)' = KindOf(call.name) /\ NodeOf(call.name)' = NodeOf(call.name)
          /\ SizeOf(call.name)' = SizeOf(call.name)
      BY <1>0, <1>9 DEF KindOf, SizeOf, NodeOf
    <2>2. ASSUME world.alone
          PROVE  /\ KindOf(call.name) = "file" /\ call.node = NodeOf(call.name)
                 /\ call.size = Len(data)
      BY <1>0, <1>1, <2>2 DEF FileInv, ReadInv, SameFile, SizeOf
    <2>3. ASSUME ok, world.alone
          PROVE  call'.data.text = data /\ call'.data.len = SizeOf(call.name)
      <3>1. Len(text) = Len(data) /\ Len(data) \in Nat
        BY <1>4, <2>2, <2>3
      <3>2. \A i \in 1 .. Len(text) : text[i] = data[i]
        BY <1>0, <1>1, <1>4, <2>3 DEF GotSoFar, WasThere
      <3>3. text = data
        BY <3>1, <3>2
      <3> QED
        BY <1>1, <1>5, <1>14, <2>2, <2>3, <3>3 DEF SizeOf
    <2>4. ASSUME world.alone, ~(world.failed \/ (~ok /\ got < Len(data)))
          PROVE  err = 0
      <3>1. call.size = Len(data) /\ call.size \in Nat
        BY <1>0, <2>2, <2>4
      <3>2. ok
        <4>1. got # call.size => got < Len(data)
          BY <1>2, <3>1
        <4> QED
          BY <1>3, <2>4, <4>1, Zenon
      <3> QED
        BY <1>7, <3>2
    <2> QED
      BY <1>0, <1>1, <1>7, <1>9, <1>11, <1>14, <2>1, <2>2, <2>3, <2>4 DEF ReadInv
  <1>16. PieceInv'
    <2>1. ASSUME ok PROVE AllThere'
      <3>1. call'.data.len = call'.size /\ call'.data.kept = call'.size /\ call'.data.text = text
        BY <1>5, <1>9, <1>14, <2>1
      <3>2. \A i \in 1 .. call.size : WasThere(text[i], i)'
        BY <1>4, <1>11, <2>1 DEF WasThere
      <3> QED
        BY <1>9, <3>1, <3>2 DEF AllThere
    <2> QED
      BY <1>7, <1>9, <2>1 DEF PieceInv, Filling
  <1> QED
    BY <1>10, <1>12, <1>13, <1>15, <1>16 DEF FileInv

----------------------------------------------------------------------------
\* file_write

\* The whole blocks of a text are a part of it, and what is left is less than one.
LEMMA Blocks ==
  ASSUME FileTypes
  PROVE  /\ call.src \in Seq(Char) /\ Len(call.src) \in Nat
         /\ Direct \in Nat /\ Direct <= Len(call.src) /\ Len(call.src) - Direct < BlockSize
  <1>1. call \in CallType /\ BlockSize \in Nat \ {0}
    BY FileAssumption DEF FileTypes
  <1>2. call.src \in Seq(Char) /\ Len(call.src) \in Nat
    BY <1>1, CallParts
  <1>3. PICK l \in Nat, b \in Nat \ {0} : l = Len(call.src) /\ b = BlockSize
    BY <1>1, <1>2
  <1>4. PICK q \in Int, r \in 0 .. b - 1 : q = l \div b /\ l = b * q + r
    <2>1. l \div b \in Int /\ l % b \in 0 .. b - 1 /\ l = b * (l \div b) + (l % b)
      BY ModDef
    <2> QED
      BY <2>1
  <1>5. q >= 0
    <2>1. SUFFICES ASSUME q <= -1 PROVE FALSE
      BY <1>4
    <2>2. b * (-q) >= b
      <3>1. -q \in Int /\ -q >= 1
        BY <1>4, <2>1
      <3> QED
        BY <3>1, MulGe
    <2>3. PICK p \in Int : p = b * q
      BY <1>4
    <2>4. b * (-q) = -p
      BY <1>4, <2>3
    <2>5. l = p + r
      BY <1>4, <2>3
    <2>6. -p >= b
      BY <2>2, <2>4
    <2>7. r < b
      OBVIOUS
    <2> QED
      BY <2>5, <2>6, <2>7
  <1>6. q * b \in Nat /\ q * b = b * q
    BY <1>4, <1>5
  <1>7. Direct = q * b
    BY <1>3, <1>4 DEF Direct
  <1>8. PICK p \in Nat : p = q * b /\ l = p + r
    BY <1>4, <1>6
  <1>9. Direct = p /\ r >= 0 /\ r < b
    BY <1>7, <1>8
  <1>10. PICK d \in Nat : d = Direct /\ l = d + r
    BY <1>8, <1>9
  <1>11. d <= l /\ l - d < b
    BY <1>9, <1>10
  <1> QED
    BY <1>2, <1>3, <1>10, <1>11

\* fopen has created or emptied the file, or found where it ends.
LEMMA WriteOpenFiles ==
  ASSUME StrsInv, FileInv, WriteOpen
  PROVE  StrsInv' /\ FileInv' /\ PieceInv'
  <1> DEFINE kind == KindOf(call.name)
             new == Len(nodes) + 1
             node == NodeOf(call.name)
  <1>0. /\ FileTypes /\ call \in CallType /\ call.pc = "stat" /\ call.op \in {"w", "a"}
        /\ call.before = <<>> /\ call.node = 0 /\ ~world.failed /\ world \in WorldType
        /\ nodes \in Seq(NodeType) /\ Len(nodes) \in Nat /\ fs \in [Names -> 0 .. Len(nodes)]
        /\ alive \in BOOLEAN /\ ~Filling /\ world.asked.op # "size"
    BY DEF WriteOpen, FileInv, FileTypes, Steps, AskedInv, StrsInv, MemTypes, Filling
  <1>1. UNCHANGED <<strVars, lang, arena, mem, strs, alive>> /\ EACCES \in Nat /\ EISDIR \in Nat
    BY DEF WriteOpen, strVars, EACCES, EISDIR
  <1>2. CASE /\ \E e \in {EACCES, EISDIR} : call' = Done(call, e)
             /\ \/ world' = [world EXCEPT !.failed = TRUE]
                \/ UNCHANGED world
             /\ UNCHANGED <<fs, nodes>>
    <2>1. PICK e \in Nat : call' = Done(call, e)
      BY <1>1, <1>2
    <2>2. /\ call' \in CallType /\ call'.op = call.op /\ call'.pc = "done" /\ call'.node = 0
      BY <1>0, <2>1, DoneCall
    <2>3. world' \in WorldType /\ world'.asked = world.asked
      BY <1>0, <1>2 DEF WorldType
    <2>4. FileTypes' /\ ~Filling'
      BY <1>0, <1>2, <2>2, <2>3 DEF FileTypes, Filling
    <2>5. Steps' /\ ReadInv' /\ WriteInv' /\ AskedInv'
      BY <1>0, <2>2, <2>3 DEF Steps, ReadInv, WriteInv, AskedInv
    <2> QED
      BY <1>0, <1>1, <2>2, <2>4, <2>5, SameMemory, NoPieces DEF FileInv
  <1>3. CASE /\ call.name \in Names
             /\ fs' = [fs EXCEPT ![call.name] = new]
             /\ nodes' = Append(nodes, [kind |-> "file", data |-> <<>>])
             /\ call' = Creating(call, new) /\ UNCHANGED world
    <2>1. /\ call' \in CallType /\ call'.op = call.op /\ call'.pc = "fwrite" /\ call'.node = new
          /\ call'.before = <<>> /\ call'.src = call.src
      <3>1. new \in Nat
        BY <1>0
      <3> HIDE DEF new
      <3> QED
        BY <1>0, <1>3, <3>1, CreatingCall
    <2>2. nodes' \in Seq(NodeType) /\ Len(nodes') = new /\ DOMAIN nodes' = 1 .. new
          /\ nodes'[new] = [kind |-> "file", data |-> <<>>]
      <3>1. [kind |-> "file", data |-> <<>>] \in NodeType
        BY DEF NodeType
      <3> QED
        BY <1>0, <1>3, <3>1
    <2>3. fs' \in [Names -> 0 .. Len(nodes')]
      BY <1>0, <1>3, <2>2
    <2>4. FileTypes' /\ ~Filling'
      BY <1>0, <1>3, <2>1, <2>2, <2>3 DEF FileTypes, Filling
    <2>5. Steps' /\ ReadInv' /\ AskedInv'
      BY <1>0, <1>3, <2>1, <2>2 DEF Steps, ReadInv, AskedInv
    <2>6. WriteInv'
      <3>1. call'.src \in Seq(Char) /\ SubSeq(call'.src, 1, 0) = <<>>
        BY <1>0, <2>1, CallParts
      <3>2. Wrote(0)'
        BY <2>1, <2>2, <3>1 DEF Wrote
      <3> QED
        BY <1>0, <1>3, <2>1, <3>2 DEF WriteInv
    <2> QED
      BY <1>0, <1>1, <2>1, <2>4, <2>5, <2>6, SameMemory, NoPieces DEF FileInv
  <1>4. CASE /\ kind = "file"
             /\ \E before \in {<<>>, nodes[node].data} :
                  /\ nodes' = [nodes EXCEPT ![node].data = before]
                  /\ call' = Writing(call, node, before)
             /\ UNCHANGED <<fs, world>>
    <2>1. node \in DOMAIN nodes /\ nodes[node] \in NodeType /\ DOMAIN nodes = 1 .. Len(nodes)
      BY <1>0, <1>4, NodeKinds
    <2>2. PICK before \in Seq(Char) : nodes' = [nodes EXCEPT ![node].data = before]
                                      /\ call' = Writing(call, node, before)
      <3>1. {<<>>, nodes[node].data} \subseteq Seq(Char)
        BY <2>1 DEF NodeType
      <3> HIDE DEF node
      <3> QED
        BY <1>4, <3>1
    <2>3. /\ call' \in CallType /\ call'.op = call.op /\ call'.pc = "fwrite" /\ call'.node = node
          /\ call'.before = before /\ call'.src = call.src
      BY <1>0, <2>1, <2>2, WritingCall
    <2> HIDE DEF node
    <2>4. nodes' \in Seq(NodeType) /\ Len(nodes') = Len(nodes) /\ nodes'[node].data = before
          /\ DOMAIN nodes' = DOMAIN nodes
      <3>1. [nodes[node] EXCEPT !.data = before] \in NodeType
            /\ [nodes[node] EXCEPT !.data = before].data = before
        BY <2>1 DEF NodeType
      <3>2. PICK n \in NodeType : n = [nodes[node] EXCEPT !.data = before] /\ n.data = before
        BY <3>1
      <3>3. nodes' = [nodes EXCEPT ![node] = n]
        BY <2>2, <3>2
      <3> QED
        BY <1>0, <2>1, <3>2, <3>3
    <2>5. FileTypes' /\ ~Filling'
      BY <1>0, <1>4, <2>3, <2>4 DEF FileTypes, Filling
    <2>6. Steps' /\ ReadInv' /\ AskedInv'
      BY <1>0, <1>4, <2>1, <2>3, <2>4 DEF Steps, ReadInv, AskedInv
    <2>7. WriteInv'
      <3>1. call'.src \in Seq(Char) /\ SubSeq(call'.src, 1, 0) = <<>> /\ before \o <<>> = before
        BY <1>0, <2>3, CallParts
      <3>2. Wrote(0)'
        BY <2>3, <2>4, <3>1 DEF Wrote
      <3> QED
        BY <1>0, <1>4, <2>3, <3>2 DEF WriteInv
    <2> QED
      BY <1>0, <1>1, <2>3, <2>5, <2>6, <2>7, SameMemory, NoPieces DEF FileInv
  <1>5. \/ call' = Done(call, EACCES) /\ world' = [world EXCEPT !.failed = TRUE]
           /\ UNCHANGED <<fs, nodes>>
        \/ call' = Done(call, EISDIR) /\ UNCHANGED <<fs, nodes, world>>
        \/ /\ call.name \in Names
           /\ fs' = [fs EXCEPT ![call.name] = new]
           /\ nodes' = Append(nodes, [kind |-> "file", data |-> <<>>])
           /\ call' = Creating(call, new) /\ UNCHANGED world
        \/ /\ kind = "file"
           /\ \E before \in {<<>>, nodes[node].data} :
                /\ nodes' = [nodes EXCEPT ![node].data = before]
                /\ call' = Writing(call, node, before)
           /\ UNCHANGED <<fs, world>>
    BY DEF WriteOpen, Goes, Creating, Writing
  <1> HIDE DEF kind, new, node
  <1> QED
    BY <1>2, <1>3, <1>4, <1>5

\* What the device takes is the file's from then on.
LEMMA DeviceTakes ==
  ASSUME FileTypes, call.node \in DOMAIN nodes, NEW text \in Seq(Char),
         NEW n \in 0 .. Len(text), Appended(text, n)
  PROVE  /\ nodes' \in Seq(NodeType) /\ DOMAIN nodes' = DOMAIN nodes /\ Len(nodes') = Len(nodes)
         /\ nodes'[call.node].data = nodes[call.node].data \o SubSeq(text, 1, n)
         /\ world' \in WorldType /\ world'.alone = world.alone /\ world'.asked = world.asked
         /\ world'.failed = (world.failed \/ n < Len(text))
  <1>0. nodes \in Seq(NodeType) /\ world \in WorldType /\ nodes[call.node] \in NodeType
    BY ElementOfSeq DEF FileTypes
  <1>1. nodes[call.node].data \in Seq(Char) /\ SubSeq(text, 1, n) \in Seq(Char)
    BY <1>0 DEF NodeType
  <1>2. PICK data \in Seq(Char) : data = nodes[call.node].data \o SubSeq(text, 1, n)
    <2>1. nodes[call.node].data \o SubSeq(text, 1, n) \in Seq(Char)
      BY <1>1
    <2> QED
      BY <2>1
  <1>3. PICK node \in NodeType : node = [nodes[call.node] EXCEPT !.data = data] /\ node.data = data
    <2>1. [nodes[call.node] EXCEPT !.data = data] \in NodeType
          /\ [nodes[call.node] EXCEPT !.data = data].data = data
      BY <1>0 DEF NodeType
    <2> QED
      BY <2>1
  <1>4. nodes' = [nodes EXCEPT ![call.node] = node]
    BY <1>2, <1>3 DEF Appended
  <1>5. nodes' \in Seq(NodeType) /\ DOMAIN nodes' = DOMAIN nodes /\ Len(nodes') = Len(nodes)
        /\ nodes'[call.node] = node
    BY <1>0, <1>4
  <1>6. world' = [world EXCEPT !.failed = @ \/ n < Len(text)]
    BY DEF Appended
  <1>7. world' \in WorldType /\ world'.alone = world.alone /\ world'.asked = world.asked
        /\ world'.failed = (world.failed \/ n < Len(text))
    BY <1>0, <1>6 DEF WorldType
  <1> QED
    BY <1>2, <1>3, <1>5, <1>7

LEMMA ConcatChars ==
  \A s, t, u \in Seq(Char) : (s \o t) \o u = s \o (t \o u)
  <1> SUFFICES ASSUME NEW s \in Seq(Char), NEW t \in Seq(Char), NEW u \in Seq(Char)
               PROVE  (s \o t) \o u = s \o (t \o u)
    OBVIOUS
  <1>1. /\ (s \o t) \o u \in Seq(Char) /\ s \o (t \o u) \in Seq(Char)
        /\ Len((s \o t) \o u) = Len(s) + Len(t) + Len(u)
        /\ Len(s \o (t \o u)) = Len(s) + Len(t) + Len(u)
    OBVIOUS
  <1>2. ASSUME NEW i \in 1 .. Len(s) + Len(t) + Len(u)
        PROVE  ((s \o t) \o u)[i] = (s \o (t \o u))[i]
    OBVIOUS
  <1> QED
    BY <1>1, <1>2, SeqEqual

\* The beginning of a text, and what follows it.
LEMMA Pieces ==
  ASSUME NEW S, NEW src \in Seq(S), NEW d \in 0 .. Len(src)
  PROVE  /\ SubSeq(src, 1, d) \in Seq(S) /\ Len(SubSeq(src, 1, d)) = d
         /\ \A n \in 0 .. d : SubSeq(SubSeq(src, 1, d), 1, n) = SubSeq(src, 1, n)
         /\ LET rest == SubSeq(src, d + 1, Len(src)) IN
            /\ rest \in Seq(S) /\ Len(rest) = Len(src) - d
            /\ \A n \in 0 .. Len(rest) :
                 SubSeq(src, 1, d) \o SubSeq(rest, 1, n) = SubSeq(src, 1, d + n)
  <1> DEFINE first == SubSeq(src, 1, d)
             rest == SubSeq(src, d + 1, Len(src))
  <1>0. Len(src) \in Nat /\ d \in Nat /\ d <= Len(src)
    OBVIOUS
  <1>1. first \in Seq(S) /\ Len(first) = d /\ \A i \in 1 .. d : first[i] = src[i]
    BY <1>0
  <1>2. rest \in Seq(S) /\ Len(rest) = Len(src) - d /\ \A i \in 1 .. Len(src) - d : rest[i] = src[d + i]
    <2>1. rest \in Seq(S) /\ Len(rest) = Len(src) - d
      BY <1>0
    <2>2. ASSUME NEW i \in 1 .. Len(src) - d PROVE rest[i] = src[d + i]
      <3>1. rest[i] = src[d + 1 + i - 1] /\ d + 1 + i - 1 = d + i
        BY <1>0
      <3> QED
        BY <3>1
    <2> QED
      BY <2>1, <2>2
  <1> HIDE DEF first, rest
  <1>3. ASSUME NEW n \in 0 .. d
        PROVE  SubSeq(first, 1, n) = SubSeq(src, 1, n)
    <2>1. SubSeq(first, 1, n) \in Seq(S) /\ Len(SubSeq(first, 1, n)) = n
          /\ \A i \in 1 .. n : SubSeq(first, 1, n)[i] = first[i]
      BY <1>0, <1>1
    <2>2. SubSeq(src, 1, n) \in Seq(S) /\ Len(SubSeq(src, 1, n)) = n
          /\ \A i \in 1 .. n : SubSeq(src, 1, n)[i] = src[i]
      BY <1>0
    <2>3. \A i \in 1 .. n : SubSeq(first, 1, n)[i] = SubSeq(src, 1, n)[i]
      BY <1>0, <1>1, <2>1, <2>2
    <2> QED
      BY <2>1, <2>2, <2>3, SeqEqual
  <1>4. ASSUME NEW n \in 0 .. Len(rest)
        PROVE  first \o SubSeq(rest, 1, n) = SubSeq(src, 1, d + n)
    <2>0. n \in Nat /\ n <= Len(src) - d /\ d + n \in Nat /\ d + n <= Len(src)
      BY <1>0, <1>2
    <2>1. PICK part : part = SubSeq(rest, 1, n) /\ part \in Seq(S) /\ Len(part) = n
                      /\ \A i \in 1 .. n : part[i] = rest[i]
      <3>1. SubSeq(rest, 1, n) \in Seq(S) /\ Len(SubSeq(rest, 1, n)) = n
            /\ \A i \in 1 .. n : SubSeq(rest, 1, n)[i] = rest[i]
        BY <1>2, <2>0
      <3> QED
        BY <3>1
    <2>2. PICK whole : whole = SubSeq(src, 1, d + n) /\ whole \in Seq(S) /\ Len(whole) = d + n
                      /\ \A i \in 1 .. d + n : whole[i] = src[i]
      <3>1. SubSeq(src, 1, d + n) \in Seq(S) /\ Len(SubSeq(src, 1, d + n)) = d + n
            /\ \A i \in 1 .. d + n : SubSeq(src, 1, d + n)[i] = src[i]
        BY <1>0, <2>0
      <3> QED
        BY <3>1
    <2>3. first \o part \in Seq(S) /\ Len(first \o part) = d + n
      BY <1>0, <1>1, <2>0, <2>1
    <2>4. ASSUME NEW i \in 1 .. d + n
          PROVE  (first \o part)[i] = whole[i]
      <3>1. CASE i <= d
        BY <1>0, <1>1, <2>0, <2>1, <2>2, <3>1
      <3>2. CASE i > d
        <4>1. i - d \in 1 .. n /\ i - d \in 1 .. Len(src) - d /\ d + (i - d) = i
          BY <1>0, <2>0, <3>2
        <4>2. (first \o part)[i] = part[i - d]
          BY <1>0, <1>1, <2>0, <2>1, <3>2
        <4> QED
          BY <1>2, <2>1, <2>2, <4>1, <4>2
      <3>3. i <= d \/ i > d
        BY <1>0, <2>0
      <3> QED
        BY <3>1, <3>2, <3>3
    <2> QED
      BY <2>1, <2>2, <2>3, <2>4, SeqEqual
  <1> QED
    BY <1>1, <1>2, <1>3, <1>4 DEF first, rest

\* The blocks that reach the device follow what was there.
LEMMA FwriteFiles ==
  ASSUME StrsInv, FileInv, Fwrite
  PROVE  StrsInv' /\ FileInv' /\ PieceInv'
  <1>0. /\ FileTypes /\ call \in CallType /\ call.pc = "fwrite" /\ call.op \in {"w", "a"}
        /\ call.node \in DOMAIN nodes /\ alive \in BOOLEAN /\ ~Filling
        /\ nodes[call.node] \in NodeType /\ world.asked.op # "size"
        /\ (world.alone => Wrote(0) /\ ~world.failed)
    <2>1. /\ FileTypes /\ call.pc = "fwrite" /\ Steps /\ AskedInv /\ WriteInv /\ alive \in BOOLEAN
          /\ nodes \in Seq(NodeType) /\ call \in CallType
      BY DEF Fwrite, FileInv, FileTypes, StrsInv, MemTypes
    <2>2. call.op \in {"w", "a"} /\ call.node \in DOMAIN nodes
      BY <2>1, CallParts DEF Steps, Ops
    <2> QED
      BY <2>1, <2>2, ElementOfSeq DEF Filling, AskedInv, WriteInv
  <1>1. UNCHANGED <<strVars, lang, fs, arena, mem, strs, alive>>
    BY DEF Fwrite, strVars
  <1>2. /\ Direct \in Nat /\ Direct <= Len(call.src) /\ call.src \in Seq(Char) /\ Len(call.src) \in Nat
    BY <1>0, Blocks
  <1>3. PICK n \in 0 .. Direct :
          /\ Appended(SubSeq(call.src, 1, Direct), n)
          /\ call' = Closing(call, IF n < Direct THEN n ELSE Len(call.src))
    BY DEF Fwrite, Goes, Closing, Direct
  <1>4. /\ SubSeq(call.src, 1, Direct) \in Seq(Char) /\ Len(SubSeq(call.src, 1, Direct)) = Direct
        /\ SubSeq(SubSeq(call.src, 1, Direct), 1, n) = SubSeq(call.src, 1, n)
    BY <1>2, Pieces
  <1>5. /\ nodes' \in Seq(NodeType) /\ DOMAIN nodes' = DOMAIN nodes /\ Len(nodes') = Len(nodes)
        /\ nodes'[call.node].data = nodes[call.node].data \o SubSeq(call.src, 1, n)
        /\ world' \in WorldType /\ world'.alone = world.alone /\ world'.asked = world.asked
        /\ world'.failed = (world.failed \/ n < Direct)
    BY <1>0, <1>3, <1>4, DeviceTakes
  <1>6. PICK nbytes \in Nat : nbytes = IF n < Direct THEN n ELSE Len(call.src)
    BY <1>2
  <1>7. /\ call' \in CallType /\ call'.op = call.op /\ call'.pc = "fclose"
        /\ call'.node = call.node /\ call'.nbytes = nbytes /\ call'.src = call.src
        /\ call'.before = call.before
    BY <1>0, <1>3, <1>6, ClosingCall
  <1>8. FileTypes' /\ ~Filling'
    BY <1>0, <1>1, <1>5, <1>7 DEF FileTypes, Filling
  <1>9. Steps' /\ ReadInv' /\ AskedInv'
    BY <1>0, <1>5, <1>7 DEF Steps, ReadInv, AskedInv
  <1>10. WriteInv'
    <2>1. SUFFICES ASSUME world.alone
                   PROVE  /\ Wrote(n)' /\ (world'.failed <=> n < Direct')
                          /\ call'.nbytes = IF n < Direct' THEN n ELSE Len(call'.src)
                          /\ n \in 0 .. Direct'
      BY <1>0, <1>5, <1>7 DEF WriteInv
    <2>2. Direct' = Direct
      BY <1>7 DEF Direct
    <2>3. nodes[call.node].data = call.before
      <3>1. SubSeq(call.src, 1, 0) = <<>> /\ call.before \in Seq(Char)
        BY <1>0, <1>2, CallParts
      <3>2. call.before \o <<>> = call.before
        BY <3>1
      <3> QED
        BY <1>0, <2>1, <3>1, <3>2 DEF Wrote
    <2>4. nodes'[call'.node].data = call'.before \o SubSeq(call'.src, 1, n)
      BY <1>5, <1>7, <2>3
    <2> QED
      BY <1>0, <1>5, <1>6, <1>7, <2>1, <2>2, <2>4 DEF Wrote
  <1> QED
    BY <1>0, <1>1, <1>7, <1>8, <1>9, <1>10, SameMemory, NoPieces DEF FileInv

\* The rest follows the blocks, unless one of them is missing.
LEMMA FcloseFiles ==
  ASSUME StrsInv, FileInv, Fclose
  PROVE  StrsInv' /\ FileInv' /\ PieceInv'
  <1> DEFINE rest == IF call.nbytes = Len(call.src)
                     THEN SubSeq(call.src, Direct + 1, Len(call.src)) ELSE <<>>
  <1>0. /\ FileTypes /\ call \in CallType /\ call.pc = "fclose" /\ call.op \in {"w", "a"}
        /\ call.node \in DOMAIN nodes /\ alive \in BOOLEAN /\ ~Filling
        /\ nodes[call.node] \in NodeType /\ world.asked.op # "size"
    <2>1. /\ FileTypes /\ call.pc = "fclose" /\ Steps /\ AskedInv /\ WriteInv /\ alive \in BOOLEAN
          /\ nodes \in Seq(NodeType) /\ call \in CallType
      BY DEF Fclose, FileInv, FileTypes, StrsInv, MemTypes
    <2>2. call.op \in {"w", "a"} /\ call.node \in DOMAIN nodes
      BY <2>1, CallParts DEF Steps, Ops
    <2> QED
      BY <2>1, <2>2, ElementOfSeq DEF Filling, AskedInv
  <1>1. UNCHANGED <<strVars, lang, fs, arena, mem, strs, alive>>
    BY DEF Fclose, strVars
  <1>2. /\ Direct \in Nat /\ Direct <= Len(call.src) /\ call.src \in Seq(Char) /\ Len(call.src) \in Nat
        /\ call.before \in Seq(Char)
    BY <1>0, Blocks, CallParts
  <1>3. PICK n \in 0 .. Len(rest) : Appended(rest, n)
    BY DEF Fclose, Direct
  <1>4. PICK err \in Nat : err = (IF call.nbytes = Len(call.src) THEN 0 ELSE EIO)
                           /\ (err = 0 <=> call.nbytes = Len(call.src))
    BY DEF EIO
  <1>5. call' = Done(call, err)
    BY <1>4 DEF Fclose, Goes
  <1>6. rest \in Seq(Char) /\ (call.nbytes = Len(call.src) => Len(rest) = Len(call.src) - Direct)
        /\ (call.nbytes # Len(call.src) => Len(rest) = 0 /\ rest = <<>>)
    BY <1>2, Pieces
  <1> HIDE DEF rest
  <1>7. /\ nodes' \in Seq(NodeType) /\ DOMAIN nodes' = DOMAIN nodes /\ Len(nodes') = Len(nodes)
        /\ nodes'[call.node].data = nodes[call.node].data \o SubSeq(rest, 1, n)
        /\ world' \in WorldType /\ world'.alone = world.alone /\ world'.asked = world.asked
        /\ world'.failed = (world.failed \/ n < Len(rest))
    BY <1>0, <1>3, <1>6, DeviceTakes
  <1>8. /\ call' \in CallType /\ call'.op = call.op /\ call'.pc = "done" /\ call'.err = err
        /\ call'.node = call.node /\ call'.src = call.src /\ call'.before = call.before
    BY <1>0, <1>5, DoneCall
  <1>9. FileTypes' /\ ~Filling'
    BY <1>0, <1>1, <1>7, <1>8 DEF FileTypes, Filling
  <1>10. Steps' /\ ReadInv' /\ AskedInv'
    BY <1>0, <1>7, <1>8 DEF Steps, ReadInv, AskedInv
  <1>11. WriteInv'
    <2>1. SUFFICES ASSUME world.alone
                   PROVE  \E m \in 0 .. Len(call.src) :
                            /\ nodes'[call.node].data = call.before \o SubSeq(call.src, 1, m)
                            /\ ~world'.failed => m = Len(call.src) /\ err = 0
                            /\ err = 0 => m >= Direct
      <3>1. Direct' = Direct
        BY <1>8 DEF Direct
      <3> QED
        BY <1>0, <1>7, <1>8, <3>1 DEF WriteInv, Wrote
    <2>2. PICK w \in 0 .. Direct : /\ nodes[call.node].data = call.before \o SubSeq(call.src, 1, w)
                                   /\ world.failed <=> w < Direct
                                   /\ call.nbytes = IF w < Direct THEN w ELSE Len(call.src)
      BY <1>0, <2>1 DEF FileInv, WriteInv, Wrote
    <2>3. CASE w < Direct
      <3>1. call.nbytes # Len(call.src) /\ err # 0
        BY <1>2, <1>4, <2>2, <2>3
      <3>2. rest = <<>> /\ n = 0
        BY <1>6, <3>1
      <3>3. nodes'[call.node].data = call.before \o SubSeq(call.src, 1, w)
        <4>1. PICK t \in Seq(Char) : t = call.before \o SubSeq(call.src, 1, w)
          <5>1. SubSeq(call.src, 1, w) \in Seq(Char)
            BY <1>2
          <5>2. call.before \o SubSeq(call.src, 1, w) \in Seq(Char)
            BY <1>2, <5>1
          <5> QED
            BY <5>2
        <4>2. SubSeq(rest, 1, n) = <<>> /\ t \o <<>> = t
          BY <3>2
        <4> QED
          BY <1>7, <2>2, <4>1, <4>2
      <3>4. world'.failed /\ w \in 0 .. Len(call.src)
        <4>1. world.failed
          BY <2>2, <2>3
        <4>2. w \in 0 .. Len(call.src)
          BY <1>2
        <4> QED
          BY <1>7, <4>1, <4>2
      <3> QED
        BY <3>1, <3>3, <3>4
    <2>4. CASE w = Direct
      <3>1. call.nbytes = Len(call.src) /\ err = 0 /\ Len(rest) = Len(call.src) - Direct
            /\ ~world.failed
        BY <1>2, <1>4, <1>6, <2>2, <2>4
      <3>2. PICK m \in 0 .. Len(call.src) : m = Direct + n
        BY <1>2, <3>1
      <3>3. SubSeq(call.src, 1, Direct) \in Seq(Char) /\ SubSeq(rest, 1, n) \in Seq(Char)
            /\ SubSeq(call.src, 1, Direct) \o SubSeq(rest, 1, n) = SubSeq(call.src, 1, m)
        <4>1. rest = SubSeq(call.src, Direct + 1, Len(call.src)) /\ Direct \in 0 .. Len(call.src)
          BY <1>2, <3>1 DEF rest
        <4>2. SubSeq(rest, 1, n) \in Seq(Char)
          BY <1>6
        <4> QED
          BY <1>2, <3>2, <4>1, <4>2, Pieces
      <3>4. nodes'[call.node].data = call.before \o SubSeq(call.src, 1, m)
        <4>1. PICK t \in Seq(Char), u \in Seq(Char) :
                t = SubSeq(call.src, 1, Direct) /\ u = SubSeq(rest, 1, n)
          BY <3>3
        <4>2. (call.before \o t) \o u = call.before \o (t \o u)
          BY <1>2, ConcatChars
        <4> QED
          BY <1>7, <2>2, <2>4, <3>3, <4>1, <4>2
      <3>5. ~world'.failed => m = Len(call.src)
        <4> SUFFICES ASSUME ~world'.failed PROVE m = Len(call.src)
          OBVIOUS
        <4>1. ~(n < Len(rest))
          BY <1>7
        <4>2. PICK l \in Nat, e \in Nat : l = Len(call.src) /\ e = Len(rest) /\ e = l - Direct
          BY <1>2, <3>1
        <4>3. n \in 0 .. e /\ ~(n < e)
          BY <4>1, <4>2
        <4> QED
          BY <1>2, <3>2, <4>2, <4>3
      <3>6. m >= Direct
        BY <1>2, <1>6, <3>2
      <3> QED
        BY <3>1, <3>4, <3>5, <3>6
    <2>5. w < Direct \/ w = Direct
      BY <1>2
    <2> QED
      BY <2>3, <2>4, <2>5
  <1> QED
    BY <1>0, <1>1, <1>8, <1>9, <1>10, <1>11, SameMemory, NoPieces DEF FileInv

----------------------------------------------------------------------------
\* The steps of the others and of the program

\* What the others put in place of a file is one.
LEMMA OthersFiles ==
  ASSUME StrsInv, FileInv, PieceInv, Others
  PROVE  StrsInv' /\ FileInv' /\ PieceInv'
  <1>0. /\ nodes \in Seq(NodeType) /\ Len(nodes) \in Nat /\ fs \in [Names -> 0 .. Len(nodes)]
        /\ call \in CallType /\ world \in WorldType /\ alive \in BOOLEAN /\ FileTypes
        /\ DOMAIN nodes = 1 .. Len(nodes)
    BY DEF FileInv, FileTypes, StrsInv, MemTypes
  <1>1. UNCHANGED <<arena, mem, strs, alive, lang, call>>
    BY DEF Others, strVars
  <1>2. Nodes \subseteq NodeType
    <2> SUFFICES ASSUME NEW n \in Nodes PROVE n \in NodeType
      OBVIOUS
    <2>1. n = [kind |-> n.kind, data |-> n.data] /\ n.kind \in {"file", "dir"}
          /\ n.data \in Seq(Range(n.data))
      BY FileAssumption
    <2>2. Range(n.data) \subseteq Char
      BY DEF Char
    <2>3. n.data \in Seq(Char)
      BY <2>1, <2>2, SeqMonotonic
    <2> QED
      BY <2>1, <2>3 DEF NodeType
  <1>3. PICK name \in Names :
          \/ \E n \in Nodes : /\ nodes' = Append(nodes, n)
                              /\ fs' = [fs EXCEPT ![name] = Len(nodes) + 1]
          \/ /\ fs[name] # 0
             /\ fs' = [fs EXCEPT ![name] = 0] /\ UNCHANGED nodes
          \/ /\ KindOf(name) = "file"
             /\ \E n \in Nodes : n.kind = "file" /\ nodes' = [nodes EXCEPT ![fs[name]] = n]
             /\ UNCHANGED fs
    BY DEF Others
  <1>4. nodes' \in Seq(NodeType) /\ fs' \in [Names -> 0 .. Len(nodes')]
        /\ DOMAIN nodes \subseteq DOMAIN nodes'
    <2>1. ASSUME NEW n \in Nodes, nodes' = Append(nodes, n),
                 fs' = [fs EXCEPT ![name] = Len(nodes) + 1]
          PROVE  nodes' \in Seq(NodeType) /\ fs' \in [Names -> 0 .. Len(nodes')]
                 /\ DOMAIN nodes \subseteq DOMAIN nodes'
      <3>1. n \in NodeType
        BY <1>2
      <3>2. nodes' \in Seq(NodeType) /\ Len(nodes') = Len(nodes) + 1
            /\ DOMAIN nodes' = 1 .. Len(nodes) + 1
        BY <1>0, <2>1, <3>1
      <3>3. fs' \in [Names -> 0 .. Len(nodes) + 1]
        BY <1>0, <2>1
      <3> QED
        BY <1>0, <3>2, <3>3
    <2>2. ASSUME fs' = [fs EXCEPT ![name] = 0], UNCHANGED nodes
          PROVE  nodes' \in Seq(NodeType) /\ fs' \in [Names -> 0 .. Len(nodes')]
                 /\ DOMAIN nodes \subseteq DOMAIN nodes'
      BY <1>0, <2>2
    <2>3. ASSUME KindOf(name) = "file", NEW n \in Nodes,
                 nodes' = [nodes EXCEPT ![fs[name]] = n], UNCHANGED fs
          PROVE  nodes' \in Seq(NodeType) /\ fs' \in [Names -> 0 .. Len(nodes')]
                 /\ DOMAIN nodes \subseteq DOMAIN nodes'
      <3>1. n \in NodeType
        BY <1>2
      <3>2. nodes' \in Seq(NodeType) /\ Len(nodes') = Len(nodes) /\ DOMAIN nodes' = DOMAIN nodes
        <4>1. fs[name] \in DOMAIN nodes
          BY <1>0, <2>3, NodeKinds DEF NodeOf
        <4>2. PICK i \in DOMAIN nodes : nodes' = [nodes EXCEPT ![i] = n]
          BY <2>3, <4>1
        <4> QED
          BY <1>0, <3>1, <4>2
      <3> QED
        BY <1>0, <2>3, <3>2
    <2> QED
      BY <1>3, <2>1, <2>2, <2>3
  <1>5. PICK held \in SUBSET Seq(Char) :
          /\ held = IF Filling THEN world.held \cup {nodes'[call.node].data} ELSE world.held
          /\ world' = [world EXCEPT !.events = @ + 1, !.changes = @ + 1, !.alone = FALSE,
                                    !.asked = Idle, !.held = held]
    <2>1. (IF Filling THEN world.held \cup {nodes'[call.node].data} ELSE world.held) \subseteq Seq(Char)
      <3>1. world.held \subseteq Seq(Char)
        BY <1>0 DEF WorldType
      <3>2. Filling => nodes'[call.node].data \in Seq(Char)
        <4>1. Filling => call.node \in DOMAIN nodes'
          BY <1>4 DEF FileInv, Steps, Filling
        <4>2. Filling => nodes'[call.node] \in NodeType
          BY <1>4, <4>1, ElementOfSeq
        <4> QED
          BY <4>2 DEF NodeType
      <3> QED
        BY <3>1, <3>2
    <2> QED
      BY <2>1 DEF Others, Filling
  <1>6. world' \in WorldType /\ world'.alone = FALSE /\ world'.asked = Idle
        /\ world'.failed = world.failed /\ world'.held = held
    <2>1. Idle \in CallType
      <3>1. "none" \in Ops /\ <<>> \in Seq(Byte) /\ <<>> \in Seq(Char)
        BY DEF Ops
      <3> QED
        BY <3>1, BegunCall
    <2>2. PICK v : v = [world EXCEPT !.events = @ + 1]
      OBVIOUS
    <2>3. v \in WorldType /\ v.failed = world.failed /\ v.changes = world.changes
          /\ world.changes \in Nat
      BY <1>0, <2>2 DEF WorldType
    <2>4. PICK w : w = [v EXCEPT !.changes = world.changes + 1]
      OBVIOUS
    <2>5. w \in WorldType /\ w.failed = world.failed
      BY <2>3, <2>4 DEF WorldType
    <2>6. PICK u : u = [w EXCEPT !.alone = FALSE, !.asked = Idle]
      OBVIOUS
    <2>7. u \in WorldType /\ u.failed = world.failed /\ u.alone = FALSE /\ u.asked = Idle
      BY <2>1, <2>5, <2>6 DEF WorldType
    <2>8. world' = [u EXCEPT !.held = held]
      BY <1>5, <2>2, <2>3, <2>4, <2>6
    <2> QED
      BY <2>7, <2>8 DEF WorldType
  <1>7. FileTypes'
    BY <1>0, <1>1, <1>4, <1>6 DEF FileTypes
  <1>8. Steps' /\ AskedInv' /\ WriteInv'
    <2>1. Steps'
      BY <1>1, <1>4, <1>6 DEF FileInv, Steps
    <2>2. AskedInv' /\ WriteInv'
      BY <1>6 DEF AskedInv, WriteInv, Idle
    <2> QED
      BY <2>1, <2>2
  <1>9. ReadInv'
    <2>1. (call.op = "read" /\ call.pc = "done" /\ call.name # <<>> /\ call.err = 0) =>
            call.data.kept = call.data.len
      BY DEF FileInv, ReadInv
    <2> QED
      BY <1>1, <1>6, <2>1 DEF ReadInv
  <1>10. PieceInv'
    <2>1. CASE ~Filling
      BY <1>1, <1>5, <1>6, <2>1, SamePieces
    <2>2. CASE Filling
      <3>1. GotSoFar /\ call.pc = "data" /\ world.held \subseteq held /\ nodes'[call.node].data \in held
        BY <1>5, <2>2 DEF PieceInv, Filling
      <3>2. \A c, i : WasThere(c, i) => WasThere(c, i)'
        BY <1>6, <3>1 DEF WasThere
      <3>3. GotSoFar'
        BY <1>1, <1>6, <3>1, <3>2 DEF GotSoFar
      <3> QED
        BY <1>1, <3>1, <3>3 DEF PieceInv
    <2> QED
      BY <2>1, <2>2
  <1> QED
    BY <1>1, <1>7, <1>8, <1>9, <1>10, <1>0, SameMemory DEF FileInv

LEMMA ProgramKeeps ==
  ASSUME StrsInv, FileInv, PieceInv, Program
  PROVE  StrsInv' /\ FileInv' /\ PieceInv'
  <1>0. ~Filling /\ ~Filling' /\ UNCHANGED <<lang, fs, nodes, call>>
    BY DEF Program, Filling
  <1>1. CASE MakeStr /\ UNCHANGED world
    BY <1>0, <1>1, MakeStrKeeps, FilesUnchanged, SamePieces DEF fileVars
  <1>2. CASE Reset /\ world' = [world EXCEPT !.events = @ + 1]
    <2>1. StrsInv'
      BY <1>0, <1>2, ResetKeeps
    <2>2. world \in WorldType
      BY DEF FileInv, FileTypes
    <2>3. world' \in WorldType /\ world'.alone = world.alone /\ world'.failed = world.failed
          /\ world'.asked = world.asked /\ world'.held = world.held
      BY <1>2, <2>2 DEF WorldType
    <2>4. FileInv'
      BY <1>0, <2>3 DEF FileInv, FileTypes, Steps, AskedInv, ReadInv, WriteInv, SameFile, KindOf,
                        SizeOf, NodeOf, Direct, Wrote
    <2> QED
      BY <1>0, <2>1, <2>3, <2>4, SamePieces
  <1> QED
    BY <1>1, <1>2 DEF Program

\* A call begins with a path, and file_write with a text as well.
LEMMA BeginKeeps ==
  ASSUME StrsInv, FileInv, BeginExists \/ BeginSize \/ BeginRead \/ BeginWrite
  PROVE  StrsInv' /\ FileInv' /\ PieceInv'
  <1>1. PICK op \in {"exists", "size", "read", "w", "a"}, path \in Range(strs), src \in Seq(Char) :
          Begin(op, path, src)
    <2>1. CASE BeginExists
      <3>1. PICK path \in Range(strs) : Begin("exists", path, <<>>)
        BY <2>1 DEF BeginExists
      <3>2. "exists" \in {"exists", "size", "read", "w", "a"} /\ <<>> \in Seq(Char)
        OBVIOUS
      <3> QED
        BY <3>1, <3>2
    <2>2. CASE BeginSize
      <3>1. PICK path \in Range(strs) : Begin("size", path, <<>>)
        BY <2>2 DEF BeginSize
      <3>2. "size" \in {"exists", "size", "read", "w", "a"} /\ <<>> \in Seq(Char)
        OBVIOUS
      <3> QED
        BY <3>1, <3>2
    <2>3. CASE BeginRead
      <3>1. PICK path \in Range(strs) : Begin("read", path, <<>>)
        BY <2>3 DEF BeginRead
      <3>2. "read" \in {"exists", "size", "read", "w", "a"} /\ <<>> \in Seq(Char)
        OBVIOUS
      <3> QED
        BY <3>1, <3>2
    <2>4. CASE BeginWrite
      <3>1. PICK path \in Range(strs), s \in Range(strs), mode \in {"w", "a"} :
              s.kept = s.len /\ Begin(mode, path, View(s))
        BY <2>4 DEF BeginWrite
      <3>2. View(s) \in Seq(Char)
        BY <3>1, ViewIsText
      <3>3. mode \in {"exists", "size", "read", "w", "a"}
        OBVIOUS
      <3> QED
        BY <3>1, <3>2, <3>3
    <2> QED
      BY <2>1, <2>2, <2>3, <2>4
  <1>2. FileInv' /\ PieceInv' /\ ~Filling /\ ~Filling'
    BY <1>1, BeginFiles
  <1>3. UNCHANGED <<arena, mem, strs, alive>>
    BY <1>1 DEF Begin, strVars
  <1>4. alive \in BOOLEAN
    BY DEF StrsInv, MemTypes
  <1> QED
    BY <1>2, <1>3, <1>4, SameMemory

LEMMA AskKeeps ==
  ASSUME StrsInv, FileInv, PieceInv, Ask \/ ReadStat
  PROVE  StrsInv' /\ FileInv' /\ PieceInv'
  <1>1. FileInv' /\ PieceInv' /\ ~Filling /\ ~Filling'
    BY AskFiles, ReadStatFiles
  <1>2. UNCHANGED <<arena, mem, strs, alive>>
    BY DEF Ask, ReadStat, OnlyCall, strVars
  <1>3. alive \in BOOLEAN
    BY DEF StrsInv, MemTypes
  <1> QED
    BY <1>1, <1>2, <1>3, SameMemory

----------------------------------------------------------------------------
\* The theorems

LEMMA Initially ==
  ASSUME Init
  PROVE  IInv
  <1>0. /\ MaxStrs \in Nat /\ Cap \in Nat /\ LongestText \in Nat /\ Bytes \subseteq Nat
        /\ Idle \in CallType
    <2>1. "none" \in Ops /\ <<>> \in Seq(Byte) /\ <<>> \in Seq(Char)
      BY DEF Ops
    <2> QED
      BY <2>1, StrMemAssumption, TextLength, BytesReach, BegunCall
  <1>1. /\ arena = [base |-> 64, len |-> 0, cap |-> Cap] /\ mem = [i \in Bytes |-> Garbage]
        /\ strs = <<>> /\ alive = TRUE /\ call = Idle
        /\ world = [events |-> 0, changes |-> 0, alone |-> TRUE, failed |-> FALSE, asked |-> Idle,
                    held |-> {}]
    BY DEF Init, StrInit
  <1>2. MemTypes
    <2>1. Garbage \in Byte
      BY DEF Byte
    <2> QED
      BY <1>1, <2>1 DEF MemTypes
  <1>3. Extent
    <2>1. Overrun = 0 /\ arena.len = 0
      BY <1>0, <1>1 DEF Overrun
    <2>2. 0 * LongestText = 0
      BY <1>0
    <2> QED
      BY <1>0, <2>1, <2>2 DEF Extent
  <1>4. call.op = "none" /\ call.pc = "done" /\ call.node = 0 /\ ~Filling /\ arena.len = 0
    BY <1>1 DEF Idle, Filling
  <1>5. StrsInv
    <2>1. Range(strs) = {}
      BY <1>1 DEF Range
    <2> QED
      BY <1>2, <1>3, <1>4, <2>1 DEF StrsInv, Top
  <1>6. nodes \in Seq(NodeType) /\ fs \in [Names -> 0 .. Len(nodes)]
    <2>1. CASE nodes = <<>> /\ fs = [n \in Names |-> 0]
      BY <2>1
    <2>2. CASE /\ nodes \in {<<n>> : n \in Nodes}
               /\ \E name \in Names : fs = [n \in Names |-> IF n = name THEN 1 ELSE 0]
      <3>1. PICK n \in Nodes : nodes = <<n>>
        BY <2>2
      <3>2. n \in NodeType
        <4>1. n = [kind |-> n.kind, data |-> n.data] /\ n.kind \in {"file", "dir"}
              /\ n.data \in Seq(Range(n.data))
          BY FileAssumption
        <4>2. Range(n.data) \subseteq Char
          BY DEF Char
        <4>3. n.data \in Seq(Char)
          BY <4>1, <4>2, SeqMonotonic
        <4> QED
          BY <4>1, <4>3 DEF NodeType
      <3>3. nodes \in Seq(NodeType) /\ Len(nodes) = 1
        BY <3>1, <3>2
      <3> QED
        BY <2>2, <3>3
    <2> QED
      BY <2>1, <2>2 DEF Init
  <1>7. world \in WorldType /\ world.asked = Idle
    BY <1>0, <1>1 DEF WorldType
  <1>8. FileTypes
    BY <1>0, <1>1, <1>6, <1>7 DEF FileTypes
  <1>9. Steps /\ AskedInv /\ ReadInv /\ WriteInv
    BY <1>4, <1>7 DEF Steps, AskedInv, ReadInv, WriteInv, Idle
  <1>10. PieceInv
    BY <1>4 DEF PieceInv, Filling
  <1> QED
    BY <1>5, <1>8, <1>9, <1>10 DEF IInv, FileInv

LEMMA StepKeeps ==
  ASSUME IInv, [Next \/ Stopped]_vars
  PROVE  IInv'
  <1>0. StrsInv /\ FileInv /\ PieceInv
    BY DEF IInv
  <1>1. CASE Program
    BY <1>0, <1>1, ProgramKeeps DEF IInv
  <1>2. CASE BeginExists \/ BeginSize \/ BeginRead \/ BeginWrite
    BY <1>0, <1>2, BeginKeeps DEF IInv
  <1>3. CASE Ask \/ ReadStat
    BY <1>0, <1>3, AskKeeps DEF IInv
  <1>4. CASE ReadOpen
    BY <1>0, <1>4, ReadOpenFiles DEF IInv
  <1>5. CASE ReadData \/ ReadEnd
    BY <1>0, <1>5, ReadDataFiles, ReadEndFiles DEF IInv
  <1>6. CASE WriteOpen
    BY <1>0, <1>6, WriteOpenFiles DEF IInv
  <1>7. CASE Fwrite
    BY <1>0, <1>7, FwriteFiles DEF IInv
  <1>8. CASE Fclose
    BY <1>0, <1>8, FcloseFiles DEF IInv
  <1>9. CASE Others
    BY <1>0, <1>9, OthersFiles DEF IInv
  <1>10. CASE UNCHANGED vars
    <2>1. UNCHANGED <<arena, mem, strs, alive, call>> /\ UNCHANGED fileVars
      BY <1>10 DEF vars, strVars, fileVars
    <2>2. alive \in BOOLEAN
      BY <1>0 DEF StrsInv, MemTypes
    <2> QED
      BY <1>0, <2>1, <2>2, SameMemory, FilesUnchanged, SamePieces DEF IInv, fileVars
  <1> QED
    BY <1>1, <1>2, <1>3, <1>4, <1>5, <1>6, <1>7, <1>8, <1>9, <1>10 DEF Next, Stopped

\* The inductive invariant of strings and files holds in every state.
THEOREM Invariance == Spec => []IInv
  BY Initially, StepKeeps, PTL DEF Spec

\* No string loses what was stored for it, whatever is made, read or formatted
\* after it (str.h:98-157, file.h:49-82).
THEOREM StringsStay == Spec => []StringsKeep
  <1>1. IInv => StringsKeep
    <2> SUFFICES ASSUME IInv, NEW k \in DOMAIN strs
                 PROVE  /\ \A i \in 1 .. strs[k].kept : mem[strs[k].beg + i - 1] = strs[k].text[i]
                        /\ strs[k].beg + strs[k].len <= arena.len
                        /\ (strs[k].kept = strs[k].len /\ strs[k].len > 0) =>
                             strs[k].beg + strs[k].len <= Cap
      BY DEF StringsKeep
    <2>1. PICK s \in Range(strs) : s = strs[k]
      BY DEF Range
    <2>2. s \in StrType /\ Sound(s) /\ Under(s, Top) /\ Top \in Nat /\ Top <= arena.len
          /\ arena.len \in Nat
      BY AppendedRange DEF IInv, StrsInv, MemTypes
    <2>3. s.beg + s.len <= arena.len
      BY <2>2 DEF Under, StrType
    <2> QED
      BY <2>1, <2>2, <2>3 DEF Sound
  <1> QED
    BY <1>1, Invariance, PTL

\* What ends with a terminator is a path, and leads where its text says
\* (file.h:21-22, str.h:42).
THEOREM PathsLead == Spec => []PathsTell
  <1>1. IInv => PathsTell
    <2> SUFFICES ASSUME IInv, NEW k \in DOMAIN strs
                 PROVE  LET s == strs[k] IN
                        /\ (s.term = "kept" \/ (s.term = "passing" /\ s.len > 0
                                                /\ s.beg + s.len = arena.len)) => GoodPath(s)
                        /\ (GoodPath(s) /\ s.kept = s.len /\ NUL \notin Range(s.text)) =>
                             CString(s) = s.text
      BY DEF PathsTell
    <2>1. PICK s \in Range(strs) : s = strs[k]
      BY DEF Range
    <2>2. s \in StrType /\ Sound(s) /\ StrsInv
      BY AppendedRange DEF IInv, StrsInv, MemTypes
    <2>3. s.beg \in Nat => s # StrNull
      BY DEF StrNull, Str
    <2>4. (s.term = "kept" \/ (s.term = "passing" /\ s.len > 0 /\ s.beg + s.len = arena.len)) =>
            GoodPath(s)
      BY <2>2, <2>3 DEF Sound, GoodPath
    <2>5. (GoodPath(s) /\ s.kept = s.len /\ NUL \notin Range(s.text)) => CString(s) = s.text
      BY <2>2, PathName
    <2> QED
      BY <2>1, <2>4, <2>5
  <1> QED
    BY <1>1, Invariance, PTL

\* A read that succeeds has nothing but what the one file it opened held since then,
\* each byte at its place, and all of it if nobody else wrote (file.h:49-82).
THEOREM ReadsOneFile == Spec => []ReadIsOfOneFile
  <1>1. IInv => ReadIsOfOneFile
    <2> SUFFICES ASSUME IInv, call.op = "read", call.pc = "done", call.name # <<>>
                 PROVE  LET data == nodes[call.node].data
                            kind == KindOf(call.name)
                        IN
                        /\ (call.err = 0 /\ world.alone) =>
                             call.data.text = data /\ call.data.len = Len(data)
                        /\ call.err = 0 =>
                             /\ call.data.len = call.size /\ call.data.kept = call.size
                             /\ \A i \in 1 .. call.size : WasThere(call.data.text[i], i)
                        /\ (world.alone /\ ~world.failed) =>
                             call.err = CASE kind = "none" -> ENOENT [] kind = "dir" -> EBADF
                                          [] kind = "file" -> 0
                        /\ (call.err = 0 /\ world.asked.name = call.name /\ world.asked.op = "size") =>
                             world.asked.size = call.data.len
      BY DEF ReadIsOfOneFile
    <2>1. /\ (call.err = 0 /\ world.alone) =>
               /\ KindOf(call.name) = "file" /\ call.node = NodeOf(call.name)
               /\ call.data.text = nodes[call.node].data
               /\ call.data.len = SizeOf(call.name)
          /\ (world.alone /\ ~world.failed) =>
               call.err = CASE KindOf(call.name) = "none" -> ENOENT
                            [] KindOf(call.name) = "dir" -> EBADF
                            [] KindOf(call.name) = "file" -> 0
      BY DEF IInv, FileInv, ReadInv
    <2>2. ASSUME call.err = 0, world.alone
          PROVE  call.data.len = Len(nodes[call.node].data)
      BY <2>1, <2>2 DEF SizeOf
    <2>3. ASSUME call.err = 0, world.asked.name = call.name, world.asked.op = "size"
          PROVE  world.asked.size = call.data.len
      BY <2>1, <2>3 DEF IInv, FileInv, AskedInv
    <2>4. call.err = 0 => AllThere
      BY DEF IInv, PieceInv
    <2> QED
      BY <2>1, <2>2, <2>3, <2>4 DEF AllThere
  <1> QED
    BY <1>1, Invariance, PTL

\* A write that succeeds lacks less than a block of its text (file.h:84-106).
THEOREM WritesAllButABlock == Spec => []WriteLosesLessThanABlock
  <1>1. IInv => WriteLosesLessThanABlock
    <2> SUFFICES ASSUME IInv, call.op \in {"w", "a"}, call.pc = "done", call.node # 0, world.alone
                 PROVE  LET wanted == call.before \o call.src
                            data == nodes[call.node].data
                        IN /\ IsPrefix(data, wanted)
                           /\ call.err = 0 => Len(wanted) - Len(data) < BlockSize
                           /\ ~world.failed => call.err = 0 /\ data = wanted
      BY DEF WriteLosesLessThanABlock
    <2>1. FileTypes /\ call \in CallType
      BY DEF IInv, FileInv, FileTypes
    <2>2. /\ Direct \in Nat /\ call.src \in Seq(Char) /\ Len(call.src) \in Nat
          /\ Len(call.src) - Direct < BlockSize /\ call.before \in Seq(Char) /\ BlockSize \in Nat
      BY <2>1, Blocks, CallParts, FileAssumption
    <2>3. PICK n \in 0 .. Len(call.src) :
            /\ nodes[call.node].data = call.before \o SubSeq(call.src, 1, n)
            /\ ~world.failed => n = Len(call.src) /\ call.err = 0
            /\ call.err = 0 => n >= Direct
      BY DEF IInv, FileInv, WriteInv, Wrote
    <2>4. PICK before \in Seq(Char), src \in Seq(Char), part \in Seq(Char), rest \in Seq(Char) :
            /\ before = call.before /\ src = call.src /\ part = SubSeq(call.src, 1, n)
            /\ Len(part) = n /\ Len(rest) = Len(src) - n
            /\ src = part \o rest
      <3>1. PICK s \in Seq(Char) : s = call.src
        BY <2>2
      <3>2. n \in 0 .. Len(s)
        BY <3>1
      <3>3. LET first == SubSeq(s, 1, n)
                rest == SubSeq(s, n + 1, Len(s))
            IN /\ first \in Seq(Char) /\ Len(first) = n
               /\ rest \in Seq(Char) /\ Len(rest) = Len(s) - n
               /\ \A m \in 0 .. Len(rest) : first \o SubSeq(rest, 1, m) = SubSeq(s, 1, n + m)
        BY <3>2, Pieces
      <3>4. PICK first \in Seq(Char), rest \in Seq(Char) :
              /\ first = SubSeq(s, 1, n) /\ Len(first) = n
              /\ rest = SubSeq(s, n + 1, Len(s)) /\ Len(rest) = Len(s) - n
              /\ \A m \in 0 .. Len(rest) : first \o SubSeq(rest, 1, m) = SubSeq(s, 1, n + m)
        BY <3>3
      <3>5. SubSeq(rest, 1, Len(rest)) = rest /\ SubSeq(s, 1, Len(s)) = s
            /\ Len(rest) \in 0 .. Len(rest) /\ n + Len(rest) = Len(s)
        BY <3>2, <3>4
      <3>6. first \o rest = s
        BY <3>4, <3>5
      <3> QED
        BY <2>2, <3>1, <3>4, <3>6
    <2>5. PICK data \in Seq(Char), wanted \in Seq(Char) :
            /\ data = before \o part /\ wanted = before \o src
            /\ data = nodes[call.node].data /\ wanted = call.before \o call.src
      <3>1. before \o part \in Seq(Char) /\ before \o src \in Seq(Char)
        BY <2>4
      <3> QED
        BY <2>3, <2>4, <3>1
    <2>6. wanted = data \o rest
      <3>1. (before \o part) \o rest = before \o (part \o rest)
        BY ConcatChars, SMTT(30)
      <3> QED
        BY <2>4, <2>5, <3>1
    <2>7. /\ Len(data) = Len(before) + n /\ Len(wanted) = Len(before) + Len(src)
          /\ Len(before) \in Nat /\ Len(src) \in Nat /\ n <= Len(src)
      <3>1. Len(before \o part) = Len(before) + Len(part) /\ Len(before \o src) = Len(before) + Len(src)
            /\ Len(before) \in Nat /\ Len(src) \in Nat
        OBVIOUS
      <3>2. n \in 0 .. Len(src)
        BY <2>4
      <3>3. Len(part) = n
        BY <2>4
      <3>4. Len(data) = Len(before) + n
        BY <2>5, <3>1, <3>3
      <3>5. Len(wanted) = Len(before) + Len(src)
        BY <2>5, <3>1
      <3>6. n <= Len(src)
        BY <3>1, <3>2
      <3> QED
        BY <3>1, <3>4, <3>5, <3>6
    <2>8. IsPrefix(data, wanted)
      <3>1. SubSeq(data, 1, Len(data)) = data /\ Len(data) <= Len(wanted)
        BY <2>7
      <3>2. SubSeq(data \o rest, 1, Len(data)) = data
        <4>1. PICK t \in Seq(Char) : t = data \o rest /\ Len(data) <= Len(t)
                 /\ \A i \in 1 .. Len(data) : t[i] = data[i]
          <5>1. data \o rest \in Seq(Char) /\ Len(data \o rest) = Len(data) + Len(rest)
                /\ \A i \in 1 .. Len(data) : (data \o rest)[i] = data[i]
            OBVIOUS
          <5>2. Len(data) <= Len(data \o rest)
            BY <5>1
          <5> QED
            BY <5>1, <5>2
        <4>2. SubSeq(t, 1, Len(data)) \in Seq(Char) /\ Len(SubSeq(t, 1, Len(data))) = Len(data)
              /\ \A i \in 1 .. Len(data) : SubSeq(t, 1, Len(data))[i] = data[i]
          BY <4>1
        <4>3. SubSeq(t, 1, Len(data)) = data
          BY <4>2, SeqEqual
        <4> QED
          BY <4>1, <4>3
      <3> QED
        BY <2>6, <3>1, <3>2 DEF IsPrefix
    <2>9. call.err = 0 => Len(wanted) - Len(data) < BlockSize
      <3>1. Len(src) - Direct < BlockSize
        BY <2>2, <2>4
      <3> QED
        BY <2>2, <2>3, <2>7, <3>1
    <2>10. ~world.failed => call.err = 0 /\ data = wanted
      <3> SUFFICES ASSUME ~world.failed PROVE call.err = 0 /\ data = wanted
        OBVIOUS
      <3>1. call.err = 0 /\ n = Len(src)
        BY <2>3, <2>4
      <3>2. rest = <<>>
        BY <2>4, <2>7, <3>1
      <3>3. data \o <<>> = data
        OBVIOUS
      <3> QED
        BY <2>6, <3>1, <3>2, <3>3
    <2> QED
      BY <2>5, <2>8, <2>9, <2>10
  <1> QED
    BY <1>1, Invariance, PTL
=============================================================================
