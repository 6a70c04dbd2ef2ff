---------------------------- MODULE TextProofs ----------------------------
(* Proofs about Text: for every text, literal and array size, whatever is  *)
(* split, trimmed, compared or run over, in either library.                *)
EXTENDS Text, NatLemmas

----------------------------------------------------------------------------
\* Views

View == [buf : Nat, len : Int]
Views == [buf : Nat, len : Nat]

LEMMA StrFields ==
  ASSUME NEW b, NEW n
  PROVE  Str(b, n).buf = b /\ Str(b, n).len = n
  BY DEF Str

\* Two views are one if they have one address and one length.
LEMMA ViewEqual ==
  ASSUME NEW s \in View, NEW t \in View, s.buf = t.buf, s.len = t.len
  PROVE  s = t
  BY DEF View

\* What Min and Max choose exists.
LEMMA MinIs ==
  ASSUME NEW S, S \subseteq Nat, S # {}
  PROVE  Min(S) \in S /\ \A x \in S : Min(S) <= x
  BY LeastElement DEF Min

LEMMA MaxIs ==
  ASSUME NEW S, NEW n \in Nat, S \subseteq 0 .. n, S # {}
  PROVE  Max(S) \in S /\ \A x \in S : x <= Max(S)
  <1>1. IsFiniteSet(S) /\ S \subseteq Nat
    <2>1. IsFiniteSet(0 .. n)
      BY FS_Interval
    <2>2. IsFiniteSet(S)
      BY <2>1, FS_Subset
    <2> QED
      BY <2>2
  <1>2. \E x \in S : \A y \in S : y <= x
    BY <1>1, GreatestElement
  <1>3. \E x \in S : \A y \in S : x >= y
    BY <1>1, <1>2
  <1> QED
    BY <1>1, <1>3 DEF Max

----------------------------------------------------------------------------
\* Trim

\* A trim takes characters off both ends, and none that is to stay; where it
\* trims it stops at one that stays, if there is one.
LEMMA TrimIs ==
  ASSUME NEW m, NEW s \in View, NEW flags
  PROVE  LET t == Trim(m, s, flags) IN
         /\ t \in View
         /\ s.buf <= t.buf /\ EndOf(t) <= EndOf(s)
         /\ s.len >= 0 => t.len >= 0
         /\ \A a \in Addresses(s) : m[a] \notin flags.blank => a \in Addresses(t)
         /\ (\E a \in Addresses(t) : m[a] \notin flags.blank) =>
              /\ flags.left => m[t.buf] \notin flags.blank
              /\ flags.right => m[EndOf(t) - 1] \notin flags.blank
  <1> DEFINE stay  == {i \in 0 .. s.len - 1 : m[s.buf + i] \notin flags.blank}
             start == IF flags.left /\ stay # {} THEN Min(stay) ELSE 0
             stop  == IF flags.right /\ stay # {} THEN Max(stay) + 1 ELSE s.len
             t == Trim(m, s, flags)
  <1>0. s.buf \in Nat /\ s.len \in Int /\ s = Str(s.buf, s.len)
    BY DEF View, Str
  <1>1. CASE s.len = 0
    <2>1. t = s
      BY <1>1 DEF Trim
    <2> QED
      BY <1>0, <1>1, <2>1 DEF EndOf, Addresses
  <1>2. CASE s.len # 0
    <2>1. t = Str(s.buf + start, stop - start)
      BY <1>2 DEF Trim, StrSub
    <2>2. t.buf = s.buf + start /\ t.len = stop - start
      BY <2>1, StrFields
    <2>3. stay # {} => /\ Min(stay) \in stay /\ \A i \in stay : Min(stay) <= i
                       /\ Max(stay) \in stay /\ \A i \in stay : i <= Max(stay)
      <3> SUFFICES ASSUME stay # {} PROVE /\ Min(stay) \in stay /\ \A i \in stay : Min(stay) <= i
                                          /\ Max(stay) \in stay /\ \A i \in stay : i <= Max(stay)
        OBVIOUS
      <3>1. stay \subseteq 0 .. s.len - 1 /\ s.len - 1 \in Nat
        BY <1>0
      <3>2. stay \subseteq Nat
        BY <3>1
      <3> HIDE DEF stay
      <3> QED
        BY <3>1, <3>2, MinIs, MaxIs
    <2>4. /\ start \in Nat /\ stop \in Int /\ stop <= s.len
          /\ s.len >= 0 => start <= stop
          /\ \A i \in stay : start <= i /\ i < stop
          /\ (flags.left /\ stay # {}) => start \in stay
          /\ (flags.right /\ stay # {}) => stop - 1 \in stay
      <3>1. stay \subseteq 0 .. s.len - 1
        OBVIOUS
      <3>2. \A i \in stay : i \in Nat /\ i < s.len
        BY <1>0, <3>1
      <3> HIDE DEF stay
      <3>3. CASE stay = {}
        BY <1>0, <3>3
      <3>4. CASE stay # {}
        <4>1. Min(stay) \in Nat /\ Max(stay) \in Nat /\ Min(stay) <= Max(stay) /\ Max(stay) < s.len
          BY <2>3, <3>2, <3>4
        <4> DEFINE lo == Min(stay)
                   hi == Max(stay)
        <4>2. \A i \in stay : i \in Nat /\ lo <= i /\ i <= hi
          BY <2>3, <3>2, <3>4
        <4>3. lo \in Nat /\ hi \in Nat /\ lo <= hi /\ hi < s.len /\ (hi + 1) - 1 = hi
              /\ lo \in stay /\ hi \in stay
          BY <4>1, <2>3, <3>4
        <4>4. start \in {0, lo} /\ stop \in {hi + 1, s.len} /\ (flags.left => start = lo)
              /\ (flags.right => stop = hi + 1)
          BY <3>4
        <4> HIDE DEF lo, hi, start, stop
        <4>5. start \in Nat /\ start <= lo /\ stop \in Int /\ stop > hi /\ stop <= s.len
          BY <1>0, <4>3, <4>4
        <4> QED
          BY <1>0, <4>2, <4>3, <4>4, <4>5
      <3> QED
        BY <3>3, <3>4
    <2>5. \A a \in Addresses(s) : m[a] \notin flags.blank => a - s.buf \in stay
      <3> SUFFICES ASSUME NEW a \in Addresses(s), m[a] \notin flags.blank
                   PROVE  a - s.buf \in stay
        OBVIOUS
      <3>1. a \in Int /\ a - s.buf \in 0 .. s.len - 1 /\ s.buf + (a - s.buf) = a
        BY <1>0 DEF Addresses, EndOf
      <3> QED
        BY <3>1
    <2>6. \A i \in stay : i \in Int /\ m[s.buf + i] \notin flags.blank
      OBVIOUS
    <2> HIDE DEF stay, start, stop, t
    <2>7. t \in View
      <3>1. s.buf + start \in Nat /\ stop - start \in Int
        BY <1>0, <2>4
      <3> QED
        BY <2>1, <3>1 DEF View, Str
    <2>8. EndOf(t) = s.buf + stop /\ EndOf(s) = s.buf + s.len
      BY <1>0, <2>2, <2>4 DEF EndOf
    <2>9. \A a \in Addresses(s) : m[a] \notin flags.blank => a \in Addresses(t)
      <3> SUFFICES ASSUME NEW a \in Addresses(s), m[a] \notin flags.blank
                   PROVE  a \in Addresses(t)
        OBVIOUS
      <3>1. a - s.buf \in stay /\ a \in Int
        BY <1>0, <2>5 DEF Addresses, EndOf
      <3>2. start <= a - s.buf /\ a - s.buf < stop
        BY <2>4, <3>1
      <3> QED
        BY <1>0, <2>2, <2>4, <2>8, <3>1, <3>2 DEF Addresses
    <2>10. ASSUME NEW a \in Addresses(t), m[a] \notin flags.blank
           PROVE  /\ flags.left => m[t.buf] \notin flags.blank
                  /\ flags.right => m[EndOf(t) - 1] \notin flags.blank
      <3>1. a \in Addresses(s)
        BY <1>0, <2>2, <2>4, <2>8 DEF Addresses
      <3>2. stay # {}
        BY <2>5, <2>10, <3>1
      <3>3. flags.left => m[s.buf + start] \notin flags.blank
        BY <2>4, <2>6, <3>2
      <3>4. flags.right => m[s.buf + (stop - 1)] \notin flags.blank
        BY <2>4, <2>6, <3>2
      <3>5. s.buf + (stop - 1) = EndOf(t) - 1
        BY <1>0, <2>4, <2>8
      <3> QED
        BY <2>2, <3>3, <3>4, <3>5
    <2>11. s.buf <= t.buf /\ EndOf(t) <= EndOf(s) /\ (s.len >= 0 => t.len >= 0)
      BY <1>0, <2>2, <2>4, <2>8
    <2> QED
      BY <2>7, <2>9, <2>10, <2>11 DEF t
  <1> QED
    BY <1>1, <1>2

----------------------------------------------------------------------------
\* Search

\* A hit of the search: what a turn of its loop looks at, at offset i.
Hit(lng, m, s, w, i) == m[s.buf + i] = m[w.buf] /\ SameBytes(lng, m, s.buf + i, w.buf, w.len)

\* The loop of str_find takes the first place where all bytes agree.
LEMMA FindIs ==
  ASSUME NEW lng, NEW m, NEW s \in View, NEW w \in Views, ~IsNull(s), w.len > 0
  PROVE  LET pos == StrFind(lng, m, s, w) IN
         \/ /\ pos = -1
            /\ w.len <= s.len => \A i \in 0 .. s.len - 1 : ~SameBytes(lng, m, s.buf + i, w.buf, w.len)
         \/ /\ pos \in 0 .. s.len - 1 /\ w.len <= s.len
            /\ SameBytes(lng, m, s.buf + pos, w.buf, w.len)
            /\ \A i \in 0 .. pos - 1 : ~SameBytes(lng, m, s.buf + i, w.buf, w.len)
  <1> DEFINE hits == {i \in 0 .. s.len - 1 :
                        /\ m[s.buf + i] = m[w.buf]
                        /\ StrEqual(lng, m, Str(s.buf + i, w.len), w)}
             pos == StrFind(lng, m, s, w)
  <1>0. s.buf \in Nat /\ s.len \in Int /\ w.buf \in Nat /\ w.len \in Nat
    BY DEF View, Views
  <1>1. CASE w.len > s.len
    <2>1. pos = -1
      BY <1>1 DEF StrFind
    <2> QED
      BY <1>0, <1>1, <2>1
  <1>2. CASE ~(w.len > s.len)
    <2>1. pos = IF hits = {} THEN -1 ELSE Min(hits)
      BY <1>0, <1>2 DEF StrFind
    <2>2. \A i \in 0 .. s.len - 1 : i \in hits <=> SameBytes(lng, m, s.buf + i, w.buf, w.len)
      <3> SUFFICES ASSUME NEW i \in 0 .. s.len - 1
                   PROVE  i \in hits <=> SameBytes(lng, m, s.buf + i, w.buf, w.len)
        OBVIOUS
      <3>1. StrEqual(lng, m, Str(s.buf + i, w.len), w) <=> SameBytes(lng, m, s.buf + i, w.buf, w.len)
        BY <1>0, StrFields DEF StrEqual
      <3>2. SameBytes(lng, m, s.buf + i, w.buf, w.len) => m[s.buf + i] = m[w.buf]
        <4> SUFFICES ASSUME SameBytes(lng, m, s.buf + i, w.buf, w.len)
                     PROVE  m[s.buf + i] = m[w.buf]
          OBVIOUS
        <4>1. 0 \in 0 .. w.len - 1 /\ 0 .. 0 - 1 = {}
          BY <1>0
        <4>2. m[(s.buf + i) + 0] = m[w.buf + 0]
          BY <4>1 DEF SameBytes
        <4> QED
          BY <1>0, <4>2
      <3> QED
        BY <3>1, <3>2
    <2>3. hits \subseteq 0 .. s.len - 1 /\ hits \subseteq Nat
      BY <1>0
    <2> HIDE DEF hits, pos
    <2>4. CASE hits = {}
      BY <2>1, <2>2, <2>4 DEF pos
    <2>5. CASE hits # {}
      <3>1. pos \in hits /\ \A i \in hits : pos <= i
        BY <2>1, <2>3, <2>5, MinIs
      <3>2. pos \in 0 .. s.len - 1 /\ w.len <= s.len /\ SameBytes(lng, m, s.buf + pos, w.buf, w.len)
        BY <1>0, <1>2, <2>2, <2>3, <3>1
      <3>3. \A i \in 0 .. pos - 1 : ~SameBytes(lng, m, s.buf + i, w.buf, w.len)
        <4> SUFFICES ASSUME NEW i \in 0 .. pos - 1
                     PROVE  ~SameBytes(lng, m, s.buf + i, w.buf, w.len)
          OBVIOUS
        <4>1. i \in 0 .. s.len - 1 /\ ~(pos <= i)
          BY <1>0, <3>2
        <4> QED
          BY <2>2, <3>1, <4>1
      <3> QED
        BY <3>2, <3>3 DEF pos
    <2> QED
      BY <2>4, <2>5
  <1> QED
    BY <1>1, <1>2

\* strncmp says the same as a comparison of the bytes up to the needle's first NUL.
LEMMA SameIs ==
  ASSUME NEW lng, NEW m, NEW w \in Views, NEW p \in Nat
  PROVE  SameBytes(lng, m, p, w.buf, w.len)
           <=> \A k \in 0 .. Compared(lng, m, w) - 1 : m[p + k] = m[w.buf + k]
  <1> DEFINE q == w.buf
             n == w.len
             nuls == {i \in 0 .. n - 1 : m[q + i] = NUL}
             Same(i) == m[p + i] = m[q + i]
             Ended(i) == \E j \in 0 .. i - 1 : m[p + j] = NUL /\ m[q + j] = NUL
  <1>0. q \in Nat /\ n \in Nat
    BY DEF Views
  <1>1. SameBytes(lng, m, p, q, n) <=> \A i \in 0 .. n - 1 : Same(i) \/ (lng = "cpp" /\ Ended(i))
    BY DEF SameBytes
  <1>2. Compared(lng, m, w) = IF lng = "cpp" /\ nuls # {} THEN Min(nuls) + 1 ELSE n
    BY DEF Compared
  <1>3. CASE ~(lng = "cpp" /\ nuls # {})
    <2>1. ASSUME NEW i \in 0 .. n - 1, lng = "cpp" PROVE ~Ended(i)
      <3> SUFFICES ASSUME NEW j \in 0 .. i - 1, m[q + j] = NUL PROVE FALSE
        OBVIOUS
      <3>1. j \in nuls
        BY <1>0
      <3> QED
        BY <1>3, <2>1, <3>1
    <2>2. Compared(lng, m, w) = n
      BY <1>2, <1>3
    <2> HIDE DEF Ended, Same, nuls
    <2>3. SameBytes(lng, m, p, q, n) <=> \A i \in 0 .. n - 1 : Same(i)
      BY <1>1, <2>1
    <2> QED
      BY <2>2, <2>3 DEF Same
  <1>4. CASE lng = "cpp" /\ nuls # {}
    <2>1. nuls \subseteq Nat
      BY <1>0
    <2>2. PICK e \in nuls : e = Min(nuls) /\ \A i \in nuls : e <= i
      <3> HIDE DEF nuls
      <3> QED
        BY <1>4, <2>1, MinIs
    <2>3. Compared(lng, m, w) = e + 1 /\ e \in 0 .. n - 1 /\ m[q + e] = NUL /\ e \in Nat
      <3>1. e \in 0 .. n - 1 /\ m[q + e] = NUL
        BY <2>2
      <3>2. e \in Nat
        BY <1>0, <3>1
      <3>3. Compared(lng, m, w) = Min(nuls) + 1
        BY <1>2, <1>4, Zenon
      <3> QED
        BY <2>2, <3>1, <3>2, <3>3, Zenon
    <2>4. \A i \in 0 .. e : ~Ended(i)
      <3> SUFFICES ASSUME NEW i \in 0 .. e, NEW j \in 0 .. i - 1, m[q + j] = NUL PROVE FALSE
        OBVIOUS
      <3>1. j \in nuls /\ ~(e <= j)
        BY <1>0, <2>3
      <3> QED
        BY <2>2, <3>1
    <2>5. (\A i \in 0 .. e : Same(i)) => \A i \in 0 .. n - 1 : Same(i) \/ Ended(i)
      <3> SUFFICES ASSUME \A i \in 0 .. e : Same(i), NEW i \in 0 .. n - 1, ~(i <= e) PROVE Ended(i)
        BY <1>0, <2>3
      <3>1. e \in 0 .. i - 1 /\ e \in 0 .. e
        BY <1>0, <2>3
      <3>2. m[p + e] = m[q + e]
        BY <3>1
      <3> QED
        BY <2>3, <3>1, <3>2
    <2>6. \A i \in 0 .. e : i \in 0 .. n - 1
      BY <1>0, <2>3
    <2>7. 0 .. (e + 1) - 1 = 0 .. e
      BY <2>3
    <2> HIDE DEF Ended, Same, nuls
    <2>8. SameBytes(lng, m, p, q, n) <=> \A i \in 0 .. e : Same(i)
      BY <1>1, <1>4, <2>4, <2>5, <2>6
    <2> QED
      BY <2>3, <2>7, <2>8 DEF Same
  <1> QED
    BY <1>3, <1>4

\* The comparisons and the search answer what the bytes say: what ComparesAgree
\* says of the operands of a call (str.h:106-190).
Agree(lng, m, s, w) ==
  LET equal  == StrEqual(lng, m, s, w)
      starts == StartsWith(lng, m, s, w)
      ends   == EndsWith(lng, m, s, w)
      pos    == StrFind(lng, m, s, w)
      At(i)  == \A k \in 0 .. Compared(lng, m, w) - 1 : m[s.buf + i + k] = m[w.buf + k]
      alike  == IsNull(s) <=> IsNull(w)
  IN
  /\ w.len > 0 =>
       /\ equal <=> (s.len = w.len /\ At(0))
       /\ starts <=> (s.len >= w.len /\ At(0))
       /\ ends <=> (s.len >= w.len /\ At(s.len - w.len))
       /\ pos >= 0 => pos < s.len /\ At(pos) /\ \A i \in 0 .. pos - 1 : ~At(i)
       /\ pos < 0 => \A i \in 0 .. s.len - w.len : ~At(i)
  /\ w.len = 0 =>
       /\ equal <=> (s.len = 0 /\ alike)
       /\ starts <=> alike
       /\ ends <=> alike
       /\ pos = IF IsNull(s) /\ ~IsNull(w) THEN -1 ELSE 0

LEMMA Agreement ==
  ASSUME NEW lng, NEW m, NEW s \in Views, NEW w \in Views,
         IsNull(s) => s.len = 0, IsNull(w) => w.len = 0
  PROVE  Agree(lng, m, s, w)
  <1> DEFINE equal  == StrEqual(lng, m, s, w)
             starts == StartsWith(lng, m, s, w)
             ends   == EndsWith(lng, m, s, w)
             pos    == StrFind(lng, m, s, w)
             At(i)  == \A k \in 0 .. Compared(lng, m, w) - 1 : m[s.buf + i + k] = m[w.buf + k]
             alike  == IsNull(s) <=> IsNull(w)
             Same(p) == SameBytes(lng, m, p, w.buf, w.len)
  <1>0. /\ s.buf \in Nat /\ s.len \in Nat /\ w.buf \in Nat /\ w.len \in Nat /\ s \in View
        /\ s = Str(s.buf, s.len)
    BY DEF View, Views, Str
  <1>1. starts <=> s.len >= w.len /\ StrEqual(lng, m, Str(s.buf, w.len), w)
    <2>1. StrSub(s, 0, w.len) = Str(s.buf, w.len)
      BY <1>0 DEF StrSub
    <2> QED
      BY <2>1 DEF StartsWith
  <1>2. ends <=> s.len >= w.len /\ StrEqual(lng, m, Str(s.buf + (s.len - w.len), w.len), w)
    <2>1. StrSub(s, s.len - w.len, s.len) = Str(s.buf + (s.len - w.len), w.len)
      <3>1. s.len - (s.len - w.len) = w.len
        BY <1>0
      <3> QED
        BY <3>1 DEF StrSub
    <2> QED
      BY <2>1 DEF EndsWith
  <1>3. \A b \in Nat : w.len > 0 => (StrEqual(lng, m, Str(b, w.len), w) <=> Same(b))
    BY <1>0, StrFields DEF StrEqual
  <1>4. CASE w.len = 0
    <2>1. equal <=> (s.len = 0 /\ alike)
      BY <1>0, <1>4 DEF StrEqual
    <2>2. starts <=> alike
      <3>1. Str(s.buf, 0).len = 0 /\ Str(s.buf, 0).buf = s.buf
        BY StrFields
      <3> QED
        BY <1>0, <1>1, <1>4, <3>1 DEF StrEqual, IsNull
    <2>3. ends <=> alike
      <3>1. PICK b \in Nat : b = s.buf + (s.len - w.len) /\ (b = 0 <=> IsNull(s))
        BY <1>0, <1>4 DEF IsNull
      <3>2. Str(b, 0).len = 0 /\ Str(b, 0).buf = b
        BY StrFields
      <3> QED
        BY <1>0, <1>2, <1>4, <3>1, <3>2 DEF StrEqual, IsNull
    <2>4. pos = IF IsNull(s) /\ ~IsNull(w) THEN -1 ELSE 0
      BY <1>4 DEF StrFind
    <2> HIDE DEF equal, starts, ends, pos, alike, At
    <2> QED
      BY <1>4, <2>1, <2>2, <2>3, <2>4 DEF Agree, equal, starts, ends, pos, alike
  <1>5. CASE w.len > 0
    <2>1. \A i \in Nat : Same(s.buf + i) <=> At(i)
      <3> SUFFICES ASSUME NEW i \in Nat PROVE Same(s.buf + i) <=> At(i)
        OBVIOUS
      <3>1. PICK p \in Nat : p = s.buf + i
        BY <1>0
      <3> QED
        BY <3>1, SameIs
    <2>2. starts <=> s.len >= w.len /\ Same(s.buf + 0)
      <3>1. s.buf + 0 = s.buf
        BY <1>0
      <3> QED
        BY <1>0, <1>1, <1>3, <1>5, <3>1
    <2>3. ends <=> s.len >= w.len /\ Same(s.buf + (s.len - w.len))
      <3>1. s.len >= w.len => s.buf + (s.len - w.len) \in Nat
        BY <1>0
      <3> QED
        BY <1>2, <1>3, <1>5, <3>1
    <2>4. equal <=> s.len = w.len /\ Same(s.buf + 0)
      <3>1. s.buf + 0 = s.buf /\ (s.len = w.len => s.len # 0)
        BY <1>0, <1>5
      <3> QED
        BY <1>5, <3>1 DEF StrEqual
    <2>5. IsNull(s) => pos = -1 /\ s.len = 0
      <3> SUFFICES ASSUME IsNull(s) PROVE pos = -1
        BY <1>0
      <3> QED
        BY <1>5 DEF StrFind
    <2>6. ~IsNull(s) =>
            \/ /\ pos = -1
               /\ w.len <= s.len => \A i \in 0 .. s.len - 1 : ~Same(s.buf + i)
            \/ /\ pos \in 0 .. s.len - 1 /\ w.len <= s.len /\ Same(s.buf + pos)
               /\ \A i \in 0 .. pos - 1 : ~Same(s.buf + i)
      BY <1>0, <1>5, FindIs
    <2> HIDE DEF equal, starts, ends, pos, At, Same, alike
    <2>7. (equal <=> (s.len = w.len /\ At(0))) /\ (starts <=> (s.len >= w.len /\ At(0)))
      BY <2>1, <2>2, <2>4
    <2>8. ends <=> (s.len >= w.len /\ At(s.len - w.len))
      <3>1. s.len >= w.len => s.len - w.len \in Nat
        BY <1>0
      <3> QED
        BY <2>1, <2>3, <3>1
    <2>9. pos >= 0 => pos < s.len /\ At(pos) /\ \A i \in 0 .. pos - 1 : ~At(i)
      <3> SUFFICES ASSUME pos >= 0
                   PROVE  pos < s.len /\ At(pos) /\ \A i \in 0 .. pos - 1 : ~At(i)
        OBVIOUS
      <3>1. pos \in 0 .. s.len - 1 /\ Same(s.buf + pos) /\ \A i \in 0 .. pos - 1 : ~Same(s.buf + i)
        BY <2>5, <2>6
      <3>2. pos \in Nat /\ pos < s.len /\ \A i \in 0 .. pos - 1 : i \in Nat
        BY <1>0, <3>1
      <3> QED
        BY <2>1, <3>1, <3>2
    <2>10. pos < 0 => \A i \in 0 .. s.len - w.len : ~At(i)
      <3> SUFFICES ASSUME pos < 0, NEW i \in 0 .. s.len - w.len PROVE ~At(i)
        OBVIOUS
      <3>1. i \in Nat /\ i \in 0 .. s.len - 1 /\ w.len <= s.len
        BY <1>0, <1>5
      <3>2. ~IsNull(s)
        BY <1>0, <2>5, <3>1
      <3>3. ~Same(s.buf + i)
        BY <1>0, <2>6, <3>1, <3>2
      <3> QED
        BY <2>1, <3>1, <3>3
    <2> QED
      BY <1>0, <1>5, <2>7, <2>8, <2>9, <2>10 DEF Agree, equal, starts, ends, pos, At
  <1> QED
    BY <1>0, <1>4, <1>5

----------------------------------------------------------------------------
\* Split

K == M + 2 + Len(Literals)
Byte == Char \cup {NUL}
Memory == [1 .. K -> Byte]

Locals == [parts : Seq(Views), start : Nat, done : BOOLEAN, mem : Memory]

LEMMA ExtentIs ==
  ASSUME NEW m, NEW s \in View, NEW sep, NEW w
  PROVE  w \in Extents(m, s, sep) <=>
           /\ w \in Views /\ s.buf <= w.buf /\ EndOf(w) <= EndOf(s)
           /\ \A a \in Addresses(w) : m[a] # sep
           /\ w.buf = s.buf \/ m[w.buf - 1] = sep
           /\ EndOf(w) = EndOf(s) \/ m[EndOf(w)] = sep
  <1> DEFINE All == {Str(b, n) : b \in s.buf .. EndOf(s), n \in 0 .. s.len}
  <1>0. s.buf \in Nat /\ s.len \in Int
    BY DEF View
  <1>1. w \in All => w \in Views /\ s.buf <= w.buf
    BY <1>0 DEF Views, Str, EndOf
  <1>2. ASSUME w \in Views, s.buf <= w.buf, EndOf(w) <= EndOf(s)
        PROVE  w \in All
    <2>1. w.buf \in s.buf .. EndOf(s) /\ w.len \in 0 .. s.len
      BY <1>0, <1>2 DEF Views, EndOf
    <2>2. w = Str(w.buf, w.len)
      BY <1>2 DEF Views, Str
    <2> QED
      BY <2>1, <2>2
  <1>3. w \in Extents(m, s, sep) <=>
          /\ w \in All /\ EndOf(w) <= EndOf(s)
          /\ \A a \in Addresses(w) : m[a] # sep
          /\ w.buf = s.buf \/ m[w.buf - 1] = sep
          /\ EndOf(w) = EndOf(s) \/ m[EndOf(w)] = sep
    BY DEF Extents
  <1> HIDE DEF All
  <1> QED
    BY <1>1, <1>2, <1>3

LEMMA ExtentEnds ==
  ASSUME NEW m, NEW s \in View, NEW sep, NEW w \in Extents(m, s, sep)
  PROVE  /\ w \in Views /\ w.buf \in Nat /\ w.len \in Nat /\ EndOf(w) = w.buf + w.len
         /\ s.buf <= w.buf /\ EndOf(w) <= EndOf(s)
         /\ EndOf(w) = EndOf(s) \/ m[EndOf(w)] = sep
  <1>1. /\ w \in Views /\ s.buf <= w.buf /\ EndOf(w) <= EndOf(s)
        /\ EndOf(w) = EndOf(s) \/ m[EndOf(w)] = sep
    BY ExtentIs
  <1> QED
    BY <1>1 DEF Views, EndOf

\* The extents a turn of the loop hands out: those a separator ends.
Ended(m, s, sep, ignore) ==
  {w \in Extents(m, s, sep) : EndOf(w) < EndOf(s) /\ (~ignore \/ w.len > 0)}

\* The loop after i turns.  Its parts are extents in order, all of those before
\* start; start is the beginning of the one at hand; what the parts and the
\* separators leave out lies behind start; only separators before start have
\* been overwritten, and each of the parts that ends there with NUL.
TurnInv(acc, i, m, s, sep, room, ignore, subst) ==
  /\ acc \in Locals
  /\ acc.start \in s.buf .. s.buf + i
  /\ acc.start = s.buf \/ m[acc.start - 1] = sep
  /\ \A k \in 1 .. Len(acc.parts) : /\ acc.parts[k] \in Ended(m, s, sep, ignore)
                                    /\ acc.parts[k].buf <= acc.start
  /\ \A j, k \in 1 .. Len(acc.parts) : j < k => EndOf(acc.parts[j]) < acc.parts[k].buf
  /\ \A w \in Ended(m, s, sep, ignore) :
       w.buf < acc.start => \E k \in 1 .. Len(acc.parts) : acc.parts[k] = w
  /\ IF acc.done THEN Len(acc.parts) = room
     ELSE /\ Len(acc.parts) < room
          /\ \A k \in 1 .. Len(acc.parts) : EndOf(acc.parts[k]) < acc.start
          /\ \A a \in acc.start .. (s.buf + i) - 1 : m[a] # sep
          /\ \A a \in s.buf .. acc.start - 1 :
               m[a] # sep => \E k \in 1 .. Len(acc.parts) : a \in Addresses(acc.parts[k])
  /\ \A a \in 1 .. K : \/ acc.mem[a] = m[a]
                       \/ subst /\ s.buf <= a /\ a < acc.start /\ m[a] = sep
  /\ subst => \A k \in 1 .. Len(acc.parts) :
       EndOf(acc.parts[k]) < acc.start => acc.mem[EndOf(acc.parts[k])] = NUL

\* Appending one: what the provers need of it.
LEMMA AppendIs ==
  ASSUME NEW T, NEW q \in Seq(T), NEW x \in T
  PROVE  LET r == Append(q, x) IN
         /\ r \in Seq(T) /\ Len(r) = Len(q) + 1 /\ r[Len(q) + 1] = x
         /\ \A k \in 1 .. Len(q) : r[k] = q[k]
         /\ Len(q) \in Nat
  OBVIOUS

\* Of extents that end at a separator only one begins between start and here.
LEMMA OneExtent ==
  ASSUME NEW m, NEW s \in View, NEW sep, NEW start \in Nat, NEW here \in Nat,
         s.buf <= start, start <= here, here < EndOf(s),
         \A a \in start .. here - 1 : m[a] # sep, m[here] = sep,
         NEW w \in Extents(m, s, sep), start <= w.buf, w.buf <= here, EndOf(w) < EndOf(s)
  PROVE  w = Str(start, here - start)
  <1>1. /\ w \in Views /\ EndOf(w) <= EndOf(s)
        /\ \A a \in Addresses(w) : m[a] # sep
        /\ w.buf = s.buf \/ m[w.buf - 1] = sep
        /\ EndOf(w) = EndOf(s) \/ m[EndOf(w)] = sep
    BY ExtentIs
  <1>2. s.buf \in Nat /\ s.len \in Int /\ w.buf \in Nat /\ w.len \in Nat /\ EndOf(s) \in Int
        /\ EndOf(w) = w.buf + w.len /\ w = Str(w.buf, w.len)
    BY <1>1 DEF View, Views, EndOf, Str
  <1>3. w.buf = start
    <2> SUFFICES ASSUME w.buf > start PROVE FALSE
      BY <1>2
    <2>1. w.buf - 1 \in start .. here - 1 /\ w.buf # s.buf
      BY <1>2
    <2> QED
      BY <1>1, <2>1
  <1>4. EndOf(w) >= here
    <2> SUFFICES ASSUME EndOf(w) < here PROVE FALSE
      BY <1>2
    <2>1. EndOf(w) \in start .. here - 1 /\ EndOf(w) # EndOf(s)
      BY <1>2, <1>3
    <2> QED
      BY <1>1, <2>1
  <1>5. EndOf(w) <= here
    <2> SUFFICES ASSUME EndOf(w) > here PROVE FALSE
      BY <1>2
    <2>1. here \in Addresses(w)
      BY <1>2, <1>3 DEF Addresses
    <2> QED
      BY <1>1, <2>1
  <1>6. w.len = here - start
    BY <1>2, <1>3, <1>4, <1>5
  <1> QED
    BY <1>2, <1>3, <1>6

LEMMA DoneIs ==
  ASSUME NEW r, NEW a, NEW b, NEW c, NEW d, NEW e,
         r = [parts |-> a, start |-> b, done |-> c, mem |-> d]
  PROVE  [r EXCEPT !.done = e] = [parts |-> a, start |-> b, done |-> e, mem |-> d]
  OBVIOUS

\* A turn of the loop keeps it.
LEMMA TurnKeeps ==
  ASSUME NEW m \in Memory, NEW s \in View, NEW sep \in Byte, NEW room \in Nat,
         NEW ignore \in BOOLEAN, NEW subst \in BOOLEAN,
         s.buf > 0, EndOf(s) <= K, NEW i \in Nat, i < s.len,
         NEW acc, TurnInv(acc, i, m, s, sep, room, ignore, subst)
  PROVE  TurnInv(SplitTurn(acc, i, s, sep, room, ignore, subst), i + 1, m, s, sep, room, ignore, subst)
  <1> DEFINE here  == s.buf + i
             part  == Str(acc.start, here - acc.start)
             keep  == part.len > 0 \/ ~ignore
             ps == IF keep THEN Append(acc.parts, part) ELSE acc.parts
             next  == SplitTurn(acc, i, s, sep, room, ignore, subst)
             P == Ended(m, s, sep, ignore)
             n == Len(acc.parts)
  <1>0. /\ s.buf \in Nat /\ s.len \in Nat /\ here \in 1 .. K /\ here < EndOf(s) /\ K \in Nat
        /\ s.buf + (i + 1) = here + 1 /\ (here + 1) - 1 = here
    <2>1. s.buf \in Nat /\ s.len \in Int /\ EndOf(s) = s.buf + s.len
      BY DEF View, EndOf
    <2>2. K \in Nat
      BY TextAssumption DEF K
    <2> QED
      BY <2>1, <2>2
  <1>1. /\ acc.parts \in Seq(Views) /\ acc.start \in Nat /\ acc.done \in BOOLEAN /\ acc.mem \in Memory
        /\ n \in Nat
        /\ s.buf <= acc.start /\ acc.start <= here
        /\ acc = [parts |-> acc.parts, start |-> acc.start, done |-> acc.done, mem |-> acc.mem]
    <2>1. acc \in Locals /\ acc.start \in s.buf .. s.buf + i
      BY DEF TurnInv
    <2> QED
      BY <1>0, <2>1 DEF Locals
  <1>2. acc.mem[here] = m[here]
    BY <1>0, <1>1 DEF TurnInv
  <1>2a. ~acc.done =>
           /\ n < room
           /\ \A k \in 1 .. n : EndOf(acc.parts[k]) < acc.start
           /\ \A a \in acc.start .. here - 1 : m[a] # sep
           /\ \A a \in s.buf .. acc.start - 1 :
                m[a] # sep => \E k \in 1 .. n : a \in Addresses(acc.parts[k])
    BY Zenon DEF TurnInv
  <1>3. CASE acc.done \/ m[here] # sep
    <2>1. next = acc
      BY <1>2, <1>3 DEF SplitTurn
    <2>2. acc.start \in s.buf .. s.buf + (i + 1)
      BY <1>0, <1>1
    <2>3. ~acc.done => \A a \in acc.start .. (s.buf + (i + 1)) - 1 : m[a] # sep
      <3> SUFFICES ASSUME ~acc.done, NEW a \in acc.start .. here PROVE m[a] # sep
        BY <1>0
      <3>1. a = here \/ a \in acc.start .. here - 1
        BY <1>0, <1>1
      <3> QED
        BY <1>2a, <1>3, <3>1
    <2> QED
      BY <2>1, <2>2, <2>3 DEF TurnInv
  <1>4. CASE ~acc.done /\ m[here] = sep
    <2>1. next = IF keep /\ Len(ps) >= room
                 THEN [parts |-> ps, start |-> acc.start, done |-> TRUE, mem |-> acc.mem]
                 ELSE [parts |-> ps, start |-> here + 1, done |-> FALSE,
                       mem |-> IF subst THEN [acc.mem EXCEPT ![here] = NUL] ELSE acc.mem]
      <3>1. [acc EXCEPT !.parts = ps, !.done = TRUE]
            = [parts |-> ps, start |-> acc.start, done |-> TRUE, mem |-> acc.mem]
        <4> HIDE DEF ps
        <4> DEFINE yes  == TRUE
                   more == [acc EXCEPT !.parts = ps]
        <4>1. more = [parts |-> ps, start |-> acc.start, done |-> acc.done, mem |-> acc.mem]
          BY <1>1
        <4> HIDE DEF yes, more
        <4>2. [more EXCEPT !.done = yes]
              = [parts |-> ps, start |-> acc.start, done |-> yes, mem |-> acc.mem]
          BY <4>1, DoneIs
        <4> QED
          BY <4>2, Zenon DEF yes, more
      <3> QED
        BY <1>2, <1>4, <3>1 DEF SplitTurn
    <2>2. /\ n < room
          /\ \A k \in 1 .. n : EndOf(acc.parts[k]) < acc.start
          /\ \A a \in acc.start .. here - 1 : m[a] # sep
      BY <1>2a, <1>4
    <2>3. /\ part \in Views /\ part.buf = acc.start /\ part.len = here - acc.start
          /\ EndOf(part) = here /\ part \in Extents(m, s, sep)
      <3>1. part \in Views /\ part.buf = acc.start /\ part.len = here - acc.start /\ EndOf(part) = here
        <4>0. here \in Nat /\ acc.start \in Nat /\ acc.start <= here
          BY ONLY <1>0, <1>1
        <4> HIDE DEF here
        <4>1. here - acc.start \in Nat /\ acc.start \in Nat /\ acc.start + (here - acc.start) = here
          BY ONLY <4>0
        <4>2. part.buf = acc.start /\ part.len = here - acc.start
          BY StrFields
        <4>3. part \in Views
          BY ONLY <4>1 DEF Str, Views
        <4> QED
          BY ONLY <4>1, <4>2, <4>3 DEF EndOf
      <3>2. Addresses(part) = acc.start .. here - 1
        BY <3>1 DEF Addresses
      <3>3. acc.start = s.buf \/ m[acc.start - 1] = sep
        BY DEF TurnInv
      <3>4. \A a \in Addresses(part) : m[a] # sep
        BY <2>2, <3>2
      <3>5. part.buf = s.buf \/ m[part.buf - 1] = sep
        BY <3>1, <3>3
      <3>6. s.buf <= part.buf /\ EndOf(part) <= EndOf(s)
        BY <1>0, <1>1, <3>1 DEF View, EndOf
      <3>7. m[EndOf(part)] = sep
        BY <1>4, <3>1
      <3> HIDE DEF part
      <3>8. part \in Extents(m, s, sep)
        BY <3>1, <3>4, <3>5, <3>6, <3>7, ExtentIs
      <3> QED
        BY <3>1, <3>8
    <2>4. keep => part \in P
      BY <1>0, <2>3 DEF Ended
    <2> HIDE DEF part
    \* The parts there were, and maybe one more, that ends here.
    <2>5. /\ ps \in Seq(Views) /\ Len(ps) \in Nat
          /\ Len(ps) = IF keep THEN n + 1 ELSE n
          /\ \A k \in 1 .. n : ps[k] = acc.parts[k]
          /\ keep => ps[n + 1] = part
      BY <1>1, <2>3, AppendIs
    <2>6. \A k \in 1 .. Len(ps) : \/ k \in 1 .. n /\ ps[k] = acc.parts[k]
                                  \/ keep /\ k = n + 1 /\ ps[k] = part
      BY <1>1, <2>5
    <2>7. 1 .. n \subseteq 1 .. Len(ps) /\ (keep => n + 1 \in 1 .. Len(ps))
      BY <1>1, <2>5
    <2>8. \A k \in 1 .. Len(ps) : ps[k] \in P /\ ps[k].buf <= acc.start
      BY <1>1, <2>3, <2>4, <2>6 DEF TurnInv
    <2>9. \A j, k \in 1 .. Len(ps) : j < k => EndOf(ps[j]) < ps[k].buf
      <3> SUFFICES ASSUME NEW j \in 1 .. Len(ps), NEW k \in 1 .. Len(ps), j < k
                   PROVE  EndOf(ps[j]) < ps[k].buf
        OBVIOUS
      <3>1. j \in 1 .. n /\ ps[j] = acc.parts[j]
        BY <1>1, <2>5, <2>6
      <3>2. CASE k \in 1 .. n /\ ps[k] = acc.parts[k]
        BY <3>1, <3>2 DEF TurnInv
      <3>3. CASE ps[k] = part
        BY <2>2, <2>3, <3>1, <3>3
      <3> QED
        BY <2>6, <3>2, <3>3
    <2>10. \A w \in P : w.buf < acc.start => \E k \in 1 .. Len(ps) : ps[k] = w
      <3> SUFFICES ASSUME NEW w \in P, w.buf < acc.start
                   PROVE  \E k \in 1 .. Len(ps) : ps[k] = w
        OBVIOUS
      <3>1. PICK k \in 1 .. n : acc.parts[k] = w
        BY DEF TurnInv
      <3> QED
        BY <2>5, <2>7, <3>1
    <2>11. \A k \in 1 .. n : acc.start > EndOf(ps[k])
      BY <1>1, <2>2, <2>5
    <2> HIDE DEF ps, keep
    <2>12. CASE keep /\ Len(ps) >= room
      <3> DEFINE r == [parts |-> ps, start |-> acc.start, done |-> TRUE, mem |-> acc.mem]
      <3>0. next = r
        BY <2>1, <2>12
      <3>1. r.parts = ps /\ r.start = acc.start /\ r.done = TRUE /\ r.mem = acc.mem /\ r \in Locals
        BY <1>1, <2>5 DEF Locals
      <3> HIDE DEF r
      <3>2. r.start \in s.buf .. s.buf + (i + 1)
        BY <1>0, <1>1, <3>1
      <3>3. Len(r.parts) = room
        BY <1>1, <2>2, <2>5, <2>12, <3>1
      <3>4. \A a \in 1 .. K : \/ r.mem[a] = m[a]
                              \/ subst /\ s.buf <= a /\ a < r.start /\ m[a] = sep
        BY <3>1 DEF TurnInv
      <3>5. subst => \A k \in 1 .. Len(r.parts) :
              EndOf(r.parts[k]) < r.start => r.mem[EndOf(r.parts[k])] = NUL
        <4> SUFFICES ASSUME subst, NEW k \in 1 .. Len(ps), EndOf(ps[k]) < acc.start
                     PROVE  acc.mem[EndOf(ps[k])] = NUL
          BY <3>1
        <4>0. EndOf(part) = here /\ ~(here < acc.start)
          BY ONLY <1>0, <1>1, <2>3
        <4>1. k \in 1 .. n /\ ps[k] = acc.parts[k]
          <5>1. CASE ps[k] = part
            BY ONLY <4>0, <5>1, EndOf(ps[k]) < acc.start
          <5> QED
            BY ONLY <2>6, <5>1, k \in 1 .. Len(ps)
        <4> QED
          BY <4>1 DEF TurnInv
      <3>6. r.start = s.buf \/ m[r.start - 1] = sep
        BY <3>1 DEF TurnInv
      <3> QED
        BY <2>8, <2>9, <2>10, <3>0, <3>1, <3>2, <3>3, <3>4, <3>5, <3>6 DEF TurnInv
    <2>13. CASE ~(keep /\ Len(ps) >= room)
      <3> DEFINE mm == IF subst THEN [acc.mem EXCEPT ![here] = NUL] ELSE acc.mem
                 r == [parts |-> ps, start |-> here + 1, done |-> FALSE, mem |-> mm]
      <3>0. next = r
        BY <2>1, <2>13
      <3>1. /\ mm \in Memory
            /\ \A a \in 1 .. K : a # here => mm[a] = acc.mem[a]
            /\ mm[here] = IF subst THEN NUL ELSE acc.mem[here]
        BY <1>0, <1>1 DEF Memory, Byte
      <3> HIDE DEF mm
      <3>2. r.parts = ps /\ r.start = here + 1 /\ r.done = FALSE /\ r.mem = mm /\ r \in Locals
        BY <1>0, <2>5, <3>1 DEF Locals
      <3> HIDE DEF r, here
      <3>3. r.start \in s.buf .. s.buf + (i + 1)
        BY <1>0, <1>1, <3>2
      <3>4. Len(r.parts) < room
        BY <1>1, <2>2, <2>5, <2>13, <3>2
      <3>5. r.start = s.buf \/ m[r.start - 1] = sep
        BY <1>0, <1>4, <3>2
      <3>6. \A k \in 1 .. Len(r.parts) : /\ r.parts[k] \in P /\ r.parts[k].buf <= r.start
                                         /\ EndOf(r.parts[k]) < r.start
        <4> SUFFICES ASSUME NEW k \in 1 .. Len(ps)
                     PROVE  /\ ps[k] \in P /\ ps[k].buf <= here + 1
                            /\ EndOf(ps[k]) < here + 1
          BY <3>2
        <4>0. ps[k] \in Views
          BY <2>5
        <4>1. ps[k].buf \in Nat /\ ps[k].len \in Nat /\ EndOf(ps[k]) = ps[k].buf + ps[k].len
          BY <4>0 DEF Views, EndOf
        <4>2. EndOf(ps[k]) < here + 1
          <5>1. CASE k \in 1 .. n
            BY <1>0, <1>1, <2>11, <4>1, <5>1
          <5>2. CASE ps[k] = part
            BY <1>0, <2>3, <5>2
          <5> QED
            BY <2>6, <5>1, <5>2
        <4>3. ps[k].buf <= acc.start /\ ps[k] \in P
          BY <2>8
        <4>4. ps[k].buf <= here + 1
          BY ONLY <1>0, <1>1, <4>1, <4>3
        <4> QED
          BY ONLY <4>2, <4>3, <4>4
      <3>7. \A a \in r.start .. (s.buf + (i + 1)) - 1 : m[a] # sep
        BY <1>0, <3>2
      <3>8. \A w \in P : w.buf < r.start => \E k \in 1 .. Len(r.parts) : r.parts[k] = w
        <4> SUFFICES ASSUME NEW w \in P, w.buf < here + 1
                     PROVE  \E k \in 1 .. Len(ps) : ps[k] = w
          BY <3>2
        <4>0. w \in Extents(m, s, sep) /\ EndOf(w) < EndOf(s) /\ (~ignore \/ w.len > 0)
          BY DEF Ended
        <4>1. w.buf \in Nat
          <5>1. w \in Views
            BY <4>0, ExtentIs
          <5> QED
            BY <5>1 DEF Views
        <4>2. CASE w.buf < acc.start
          BY <2>10, <4>2
        <4>3. CASE ~(w.buf < acc.start)
          <5>1. acc.start <= w.buf /\ w.buf <= here /\ here \in Nat
            BY <1>0, <1>1, <4>1, <4>3
          <5>2. w = part
            BY <1>0, <1>1, <1>4, <2>2, <4>0, <5>1, OneExtent DEF part
          <5>3. keep
            BY <4>0, <5>2 DEF keep
          <5> QED
            BY <2>5, <2>7, <5>2, <5>3
        <4> QED
          BY <4>2, <4>3
      <3>9. \A a \in s.buf .. r.start - 1 :
              m[a] # sep => \E k \in 1 .. Len(r.parts) : a \in Addresses(r.parts[k])
        <4> SUFFICES ASSUME NEW a \in s.buf .. here, m[a] # sep
                     PROVE  \E k \in 1 .. Len(ps) : a \in Addresses(ps[k])
          BY <1>0, <3>2
        <4>1. CASE a < acc.start
          <5>1. a \in s.buf .. acc.start - 1
            BY <1>0, <1>1, <4>1
          <5>2. PICK k \in 1 .. n : a \in Addresses(acc.parts[k])
            BY <1>4, <5>1 DEF TurnInv
          <5> QED
            BY <2>5, <2>7, <5>2
        <4>2. CASE ~(a < acc.start)
          <5>1. a # here /\ a \in acc.start .. here - 1
            BY <1>0, <1>1, <1>4, <4>2
          <5>2. a \in Addresses(part) /\ part.len > 0
            BY <1>0, <1>1, <2>3, <5>1 DEF Addresses
          <5> QED
            BY <2>5, <2>7, <5>2 DEF keep
        <4> QED
          BY <4>1, <4>2
      <3>10. \A a \in 1 .. K : \/ r.mem[a] = m[a]
                               \/ subst /\ s.buf <= a /\ a < r.start /\ m[a] = sep
        <4> SUFFICES ASSUME NEW a \in 1 .. K
                     PROVE  \/ mm[a] = m[a]
                            \/ subst /\ s.buf <= a /\ a < here + 1 /\ m[a] = sep
          BY <3>2
        <4>1. CASE a = here
          BY <1>0, <1>1, <1>2, <1>4, <3>1, <4>1
        <4>2. CASE a # here
          <5>1. acc.mem[a] = m[a] \/ (subst /\ s.buf <= a /\ a < acc.start /\ m[a] = sep)
            BY DEF TurnInv
          <5> QED
            BY <1>0, <1>1, <3>1, <4>2, <5>1
        <4> QED
          BY <4>1, <4>2
      <3>11. subst => \A k \in 1 .. Len(r.parts) :
               EndOf(r.parts[k]) < r.start => r.mem[EndOf(r.parts[k])] = NUL
        <4> SUFFICES ASSUME subst, NEW k \in 1 .. Len(ps)
                     PROVE  mm[EndOf(ps[k])] = NUL
          BY <3>2
        <4>1. CASE ps[k] = part
          BY <2>3, <3>1, <4>1
        <4>2. CASE k \in 1 .. n /\ ps[k] = acc.parts[k]
          <5>1. acc.mem[EndOf(ps[k])] = NUL /\ EndOf(ps[k]) < acc.start
            BY <2>2, <4>2 DEF TurnInv
          <5>2. ps[k] \in Extents(m, s, sep)
            BY <2>8 DEF Ended
          <5>3. EndOf(ps[k]) \in Nat /\ s.buf <= EndOf(ps[k])
            <6>1. ps[k] \in Views /\ s.buf <= ps[k].buf
              BY <5>2, ExtentIs
            <6> QED
              BY <1>0, <6>1 DEF Views, EndOf
          <5>4. EndOf(ps[k]) \in 1 .. K /\ EndOf(ps[k]) # here
            BY <1>0, <1>1, <5>1, <5>3
          <5> QED
            BY <3>1, <5>1, <5>4
        <4> QED
          BY <2>6, <4>1, <4>2
      <3> QED
        BY <2>9, <3>0, <3>2, <3>3, <3>4, <3>5, <3>6, <3>7, <3>8, <3>9, <3>10, <3>11 DEF TurnInv
    <2> QED
      BY <2>12, <2>13
  <1> QED
    BY <1>1, <1>3, <1>4

\* The turns exist: the recursion of SplitLoop has a solution, built turn by turn.
LEMMA SplitLoopIs ==
  ASSUME NEW first, NEW s, s.len \in Nat, NEW sep, NEW room, NEW ignore, NEW subst
  PROVE  LET acc == SplitLoop(first, s, sep, room, ignore, subst) IN
         acc = [i \in 0 .. s.len |->
                  IF i = 0 THEN first ELSE SplitTurn(acc[i - 1], i - 1, s, sep, room, ignore, subst)]
  <1> DEFINE TurnOf(a, i) == SplitTurn(a, i, s, sep, room, ignore, subst)
             Is(f, n) == f = [i \in 0 .. n |-> IF i = 0 THEN first ELSE TurnOf(f[i - 1], i - 1)]
             S == {n \in Nat : \E f : Is(f, n)}
  <1>0. SplitLoop(first, s, sep, room, ignore, subst) = CHOOSE f : Is(f, s.len)
    BY DEF SplitLoop
  <1> HIDE DEF TurnOf
  <1>1. 0 \in S
    <2> DEFINE f == [i \in 0 .. 0 |-> first]
    <2>1. \A i \in 0 .. 0 : i = 0
      OBVIOUS
    <2>2. Is(f, 0)
      BY <2>1
    <2> QED
      BY <2>2
  <1>2. ASSUME NEW n \in Nat, n \in S
        PROVE  n + 1 \in S
    <2>1. PICK f : Is(f, n)
      BY <1>2
    <2> DEFINE g == [i \in 0 .. n + 1 |-> IF i <= n THEN f[i] ELSE TurnOf(f[n], n)]
               h == [i \in 0 .. n + 1 |-> IF i = 0 THEN first ELSE TurnOf(g[i - 1], i - 1)]
    <2>2. ASSUME NEW i \in 0 .. n + 1 PROVE g[i] = h[i]
      <3>1. CASE i = 0
        <4>1. f[0] = first /\ 0 \in 0 .. n /\ 0 \in 0 .. n + 1
          BY <2>1
        <4> QED
          BY <3>1, <4>1
      <3>2. CASE i \in 1 .. n
        <4>1. f[i] = TurnOf(f[i - 1], i - 1) /\ i # 0
          BY <2>1, <3>2
        <4>2. i - 1 \in 0 .. n + 1 /\ i - 1 <= n /\ i <= n
          BY <3>2
        <4>3. g[i - 1] = f[i - 1]
          BY <4>2
        <4> QED
          BY <4>1, <4>2, <4>3
      <3>3. CASE i = n + 1
        <4>1. i - 1 = n /\ i # 0 /\ ~(i <= n) /\ n \in 0 .. n + 1 /\ n <= n
          BY <3>3
        <4>2. g[n] = f[n]
          BY <4>1
        <4> QED
          BY <3>3, <4>1, <4>2
      <3> QED
        BY <3>1, <3>2, <3>3
    <2>3. g = h
      BY <2>2
    <2>4. Is(g, n + 1)
      BY <2>3
    <2> HIDE DEF g, Is
    <2>5. \E f2 : Is(f2, n + 1)
      BY <2>4
    <2> QED
      BY <2>5
  <1>3. Nat \subseteq S
    <2> HIDE DEF S
    <2> QED
      BY <1>1, <1>2, SetInduction
  <1>4. \E f : Is(f, s.len)
    BY <1>3
  <1>5. Is(CHOOSE f : Is(f, s.len), s.len)
    <2> HIDE DEF Is
    <2> QED
      BY <1>4
  <1> QED
    BY <1>0, <1>5 DEF TurnOf

\* So the loop ends with its invariant.
LEMMA LoopDone ==
  ASSUME NEW m \in Memory, NEW s \in View, NEW sep \in Byte, NEW room \in Nat,
         NEW ignore \in BOOLEAN, NEW subst \in BOOLEAN,
         s.buf > 0, EndOf(s) <= K, s.len > 0,
         NEW first, TurnInv(first, 0, m, s, sep, room, ignore, subst)
  PROVE  TurnInv(SplitLoop(first, s, sep, room, ignore, subst)[s.len], s.len,
                 m, s, sep, room, ignore, subst)
  <1> DEFINE acc == SplitLoop(first, s, sep, room, ignore, subst)
             Inv(a, i) == TurnInv(a, i, m, s, sep, room, ignore, subst)
             S == {i \in Nat : i <= s.len => Inv(acc[i], i)}
  <1>0. s.len \in Nat
    BY DEF View
  <1>1. acc = [i \in 0 .. s.len |->
                 IF i = 0 THEN first ELSE SplitTurn(acc[i - 1], i - 1, s, sep, room, ignore, subst)]
    <2> HIDE DEF acc
    <2> QED
      BY <1>0, SplitLoopIs DEF acc
  <1> HIDE DEF acc
  <1>2. 0 \in S
    <2>1. acc[0] = first
      BY <1>0, <1>1
    <2> QED
      BY <2>1
  <1>3. ASSUME NEW i \in Nat, i \in S PROVE i + 1 \in S
    <2> SUFFICES ASSUME i + 1 <= s.len PROVE Inv(acc[i + 1], i + 1)
      OBVIOUS
    <2>1. i < s.len /\ i + 1 \in 0 .. s.len /\ i + 1 # 0 /\ (i + 1) - 1 = i
      BY <1>0
    <2>2. acc[i + 1] = SplitTurn(acc[i], i, s, sep, room, ignore, subst)
      BY <1>1, <2>1
    <2>3. Inv(acc[i], i)
      BY <1>0, <1>3, <2>1
    <2> QED
      BY <2>1, <2>2, <2>3, TurnKeeps
  <1>4. Nat \subseteq S
    <2> HIDE DEF S
    <2> QED
      BY <1>2, <1>3, SetInduction
  <1> QED
    BY <1>0, <1>4 DEF acc

\* Extents do not overlap: what begins before another one ends before it, at a
\* separator, and two that begin at one place are one.
LEMMA ExtentsApart ==
  ASSUME NEW m, NEW s \in View, NEW sep,
         NEW w \in Extents(m, s, sep), NEW x \in Extents(m, s, sep)
  PROVE  /\ w.buf < x.buf => EndOf(w) < x.buf /\ EndOf(w) < EndOf(s)
         /\ w.buf = x.buf => w = x
  <1>1. /\ w \in Views /\ s.buf <= w.buf /\ EndOf(w) <= EndOf(s)
        /\ \A a \in Addresses(w) : m[a] # sep
        /\ EndOf(w) = EndOf(s) \/ m[EndOf(w)] = sep
    BY ExtentIs
  <1>2. /\ x \in Views /\ s.buf <= x.buf /\ EndOf(x) <= EndOf(s)
        /\ \A a \in Addresses(x) : m[a] # sep
        /\ x.buf = s.buf \/ m[x.buf - 1] = sep
        /\ EndOf(x) = EndOf(s) \/ m[EndOf(x)] = sep
    BY ExtentIs
  <1>3. /\ s.buf \in Nat /\ EndOf(s) \in Int
        /\ w.buf \in Nat /\ w.len \in Nat /\ EndOf(w) = w.buf + w.len /\ w = Str(w.buf, w.len)
        /\ x.buf \in Nat /\ x.len \in Nat /\ EndOf(x) = x.buf + x.len /\ x = Str(x.buf, x.len)
    BY <1>1, <1>2 DEF View, Views, EndOf, Str
  <1>4. ASSUME w.buf < x.buf PROVE EndOf(w) < x.buf /\ EndOf(w) < EndOf(s)
    <2>1. m[x.buf - 1] = sep
      BY <1>1, <1>2, <1>3, <1>4
    <2>2. x.buf - 1 \notin Addresses(w)
      BY <1>1, <2>1
    <2> QED
      BY <1>2, <1>3, <1>4, <2>2 DEF Addresses
  <1>5. ASSUME w.buf = x.buf PROVE w = x
    <2>1. ~(EndOf(w) < EndOf(x))
      <3> SUFFICES ASSUME EndOf(w) < EndOf(x) PROVE FALSE
        OBVIOUS
      <3>1. EndOf(w) \in Addresses(x) /\ EndOf(w) # EndOf(s)
        BY <1>2, <1>3, <1>5 DEF Addresses
      <3> QED
        BY <1>1, <1>2, <3>1
    <2>2. ~(EndOf(x) < EndOf(w))
      <3> SUFFICES ASSUME EndOf(x) < EndOf(w) PROVE FALSE
        OBVIOUS
      <3>1. EndOf(x) \in Addresses(w) /\ EndOf(x) # EndOf(s)
        BY <1>1, <1>3, <1>5 DEF Addresses
      <3> QED
        BY <1>1, <1>2, <3>1
    <2>3. w.len = x.len
      BY <1>3, <1>5, <2>1, <2>2
    <2> QED
      BY <1>3, <1>5, <2>3
  <1> QED
    BY <1>4, <1>5

\* There are finitely many: no more than places to begin at.
LEMMA ExtentsFinite ==
  ASSUME NEW m, NEW s \in View, NEW sep
  PROVE  IsFiniteSet(Extents(m, s, sep))
  <1> DEFINE E == Extents(m, s, sep)
             f == [w \in E |-> w.buf]
             I == s.buf .. EndOf(s)
  <1>0. s.buf \in Int /\ EndOf(s) \in Int
    BY DEF View, EndOf
  <1>1. \A w \in E : w.buf \in I
    <2> SUFFICES ASSUME NEW w \in E PROVE w.buf \in I
      OBVIOUS
    <2>1. w \in Views /\ s.buf <= w.buf /\ EndOf(w) <= EndOf(s)
      BY ExtentIs
    <2> QED
      BY <1>0, <2>1 DEF Views, EndOf
  <1>2. \A w, x \in E : w.buf = x.buf => w = x
    BY ExtentsApart
  <1> HIDE DEF E, I
  <1>3. f \in Injection(E, I)
    BY <1>1, <1>2 DEF Injection, IsInjective
  <1>4. IsFiniteSet(I)
    BY <1>0, FS_Interval DEF I
  <1> QED
    BY <1>3, <1>4, FS_Injection DEF E

\* Counting a set by a sequence without repetitions.
LEMMA Counted ==
  ASSUME NEW T, IsFiniteSet(T), NEW n \in Nat, NEW q,
         \A k \in 1 .. n : q[k] \in T,
         \A j, k \in 1 .. n : q[j] = q[k] => j = k
  PROVE  /\ Cardinality(T) \in Nat /\ n <= Cardinality(T)
         /\ (\A w \in T : \E k \in 1 .. n : q[k] = w) => n = Cardinality(T)
  <1> DEFINE f == [k \in 1 .. n |-> q[k]]
  <1>1. f \in Injection(1 .. n, T)
    BY DEF Injection, IsInjective
  <1>2. Cardinality(1 .. n) = n
    BY FS_Interval
  <1>3. (\A w \in T : \E k \in 1 .. n : q[k] = w) => f \in Surjection(1 .. n, T)
    BY DEF Surjection
  <1> HIDE DEF f
  <1>4. Cardinality(1 .. n) <= Cardinality(T)
        /\ (Cardinality(1 .. n) = Cardinality(T) <=> f \in Surjection(1 .. n, T))
    BY <1>1, FS_Injection
  <1>5. Cardinality(T) \in Nat
    BY FS_CardinalityType
  <1> QED
    BY <1>2, <1>3, <1>4, <1>5

----------------------------------------------------------------------------
\* What a split does, in either library: what SplitExact, SubstituteTerminates
\* and TrimKeepsContent say of one, for its operands and its results.

WantedIn(lng, m, s, sep, ignore) ==
  {w \in Extents(m, s, sep) :
     ~ignore \/ w.len > 0 \/ (lng = "cpp" /\ s.len > 0 /\ w.buf = EndOf(s))}

Exact(wanted, room, ps) ==
  /\ \A k \in DOMAIN ps : ps[k] \in wanted
  /\ Cardinality(wanted) \in Nat
  /\ Len(ps) = IF room <= Cardinality(wanted) THEN room ELSE Cardinality(wanted)
  /\ \A k \in DOMAIN ps, w \in wanted :
       w.buf < ps[k].buf => \E j \in 1 .. k - 1 : ps[j] = w

Covers(m, s, sep, room, ps) ==
  Len(ps) < room =>
    \A a \in Addresses(s) : m[a] # sep =>
      \E k \in DOMAIN ps : {j \in DOMAIN ps : a \in Addresses(ps[j])} = {k}

Writes(m, s, sep, subst, mm) ==
  \A a \in 1 .. K : mm[a] = m[a] \/ (subst /\ a \in Addresses(s) /\ m[a] = sep)

Terminates(s, room, subst, ps, mm) ==
  (subst /\ ps # <<>> /\ ~IsNull(s)) =>
    /\ \A k \in 1 .. Len(ps) - 1 : mm[EndOf(ps[k])] = NUL
    /\ (Len(ps) < room /\ mm[EndOf(s)] = NUL) => mm[EndOf(Last(ps))] = NUL

SplitFacts(lng, m, s, sep, room, ignore, subst, ps, mm) ==
  /\ ps \in Seq(Views) /\ mm \in Memory
  /\ \A k \in DOMAIN ps : s.buf <= ps[k].buf /\ EndOf(ps[k]) <= EndOf(s)
  /\ Exact(WantedIn(lng, m, s, sep, ignore), room, ps)
  /\ Covers(m, s, sep, room, ps)
  /\ Writes(m, s, sep, subst, mm)
  /\ Terminates(s, room, subst, ps, mm)

\* The parts lie in order and apart, and so they are different.
Ordered(ps) ==
  \A j, k \in 1 .. Len(ps) : j < k => EndOf(ps[j]) < ps[k].buf

LEMMA OrderedOnce ==
  ASSUME NEW ps \in Seq(Views), Ordered(ps)
  PROVE  \A j, k \in 1 .. Len(ps) : /\ ps[j].buf <= ps[k].buf => j <= k
                                    /\ ps[j] = ps[k] => j = k
  <1>1. ASSUME NEW j \in 1 .. Len(ps), NEW k \in 1 .. Len(ps), k < j
        PROVE  ~(ps[j].buf <= ps[k].buf) /\ ps[j] # ps[k]
    <2>1. ps[j] \in Views /\ ps[k] \in Views
      OBVIOUS
    <2>2. EndOf(ps[k]) < ps[j].buf
      BY <1>1 DEF Ordered
    <2>3. ps[k].buf \in Nat /\ ps[k].len \in Nat /\ ps[j].buf \in Nat
          /\ EndOf(ps[k]) = ps[k].buf + ps[k].len
      BY <2>1 DEF Views, EndOf
    <2> QED
      BY <2>2, <2>3
  <1> SUFFICES ASSUME NEW j \in 1 .. Len(ps), NEW k \in 1 .. Len(ps)
               PROVE  /\ ps[j].buf <= ps[k].buf => j <= k
                      /\ ps[j] = ps[k] => j = k
    OBVIOUS
  <1>2. j = k \/ k < j \/ j < k
    OBVIOUS
  <1>3. CASE k < j
    BY <1>1, <1>3
  <1>4. CASE j < k
    BY <1>1, <1>4
  <1>5. CASE j = k
    BY <1>5
  <1> QED
    BY <1>2, <1>3, <1>4, <1>5

Holds(ps, w) == \E k \in 1 .. Len(ps) : ps[k] = w

\* What holds of the parts when the loop and the last part are done: they are in
\* order, and all that begins before one of them is among them.
LEMMA InOrder ==
  ASSUME NEW lng, NEW m, NEW s \in View, NEW sep, NEW room \in Nat, NEW ignore \in BOOLEAN,
         NEW ps \in Seq(Views), Ordered(ps),
         \A k \in 1 .. Len(ps) : ps[k] \in WantedIn(lng, m, s, sep, ignore),
         \A w \in Ended(m, s, sep, ignore), k \in 1 .. Len(ps) :
           w.buf < ps[k].buf => Holds(ps, w),
         \/ Len(ps) = room
         \/ Len(ps) <= room /\ \A w \in WantedIn(lng, m, s, sep, ignore) : Holds(ps, w)
  PROVE  Exact(WantedIn(lng, m, s, sep, ignore), room, ps)
  <1> DEFINE W == WantedIn(lng, m, s, sep, ignore)
             n == Len(ps)
  <1>0. n \in Nat /\ DOMAIN ps = 1 .. n /\ \A k \in 1 .. n : ps[k] \in Views
    OBVIOUS
  <1>1. \A k \in 1 .. n : /\ ps[k].buf \in Nat /\ ps[k].len \in Nat
                          /\ EndOf(ps[k]) = ps[k].buf + ps[k].len
    BY <1>0 DEF Views, EndOf
  <1>2. W \subseteq Extents(m, s, sep)
    BY DEF WantedIn
  <1>3. IsFiniteSet(W)
    BY <1>2, ExtentsFinite, FS_Subset
  <1>4. \A j, k \in 1 .. n : ps[j] = ps[k] => j = k
    BY OrderedOnce
  <1>5. /\ Cardinality(W) \in Nat /\ n <= Cardinality(W)
        /\ (\A w \in W : Holds(ps, w)) => n = Cardinality(W)
    <2>1. \A k \in 1 .. n : ps[k] \in W
      OBVIOUS
    <2> HIDE DEF W, n
    <2>2. /\ Cardinality(W) \in Nat /\ n <= Cardinality(W)
          /\ (\A w \in W : \E k \in 1 .. n : ps[k] = w) => n = Cardinality(W)
      BY <1>0, <1>3, <1>4, <2>1, Counted
    <2> QED
      BY <2>2 DEF Holds, n
  <1>6. n = IF room <= Cardinality(W) THEN room ELSE Cardinality(W)
    BY <1>5
  <1>7. ASSUME NEW k \in 1 .. n, NEW w \in W, w.buf < ps[k].buf
        PROVE  \E j \in 1 .. k - 1 : ps[j] = w
    <2>1. EndOf(w) < EndOf(s)
      BY <1>2, <1>7, ExtentsApart
    <2>2. w \in Views
      BY <1>2, ExtentIs
    <2>3. w.buf # EndOf(s)
      BY <2>1, <2>2 DEF Views, View, EndOf
    <2>4. w \in Ended(m, s, sep, ignore)
      BY <2>1, <2>3 DEF WantedIn, Ended
    <2>5. PICK j \in 1 .. n : ps[j] = w
      BY <1>7, <2>4 DEF Holds
    <2>6. j <= k /\ j # k
      BY <1>1, <1>7, <2>5, OrderedOnce
    <2>7. j \in 1 .. k - 1
      BY <2>6
    <2> QED
      BY <2>5, <2>7
  <1> HIDE DEF W, n
  <1> QED
    BY <1>0, <1>5, <1>6, <1>7 DEF Exact, W, n

\* No character is in two parts.
LEMMA OnePart ==
  ASSUME NEW ps \in Seq(Views), NEW a \in Int, NEW i \in 1 .. Len(ps), Ordered(ps),
         a \in Addresses(ps[i])
  PROVE  {j \in DOMAIN ps : a \in Addresses(ps[j])} = {i}
  <1>0. /\ Len(ps) \in Nat /\ DOMAIN ps = 1 .. Len(ps)
        /\ \A k \in 1 .. Len(ps) : ps[k] \in Views
    OBVIOUS
  <1>1. ASSUME NEW j \in 1 .. Len(ps), a \in Addresses(ps[j])
        PROVE  j = i
    <2>1. \A k \in {i, j} : /\ ps[k].buf \in Nat /\ ps[k].len \in Nat
                            /\ EndOf(ps[k]) = ps[k].buf + ps[k].len
      BY <1>0 DEF Views, EndOf
    <2>2. /\ ps[j].buf <= a /\ a < EndOf(ps[j])
          /\ ps[i].buf <= a /\ a < EndOf(ps[i])
      BY <1>1, <2>1 DEF Addresses
    <2>3. ~(i < j) /\ ~(j < i)
      BY <2>1, <2>2 DEF Ordered
    <2> QED
      BY <1>0, <2>3
  <1> QED
    BY <1>0, <1>1

\* The end of the split, behind the loop.
LEMMA SplitEnds ==
  ASSUME NEW lng, NEW m \in Memory, NEW s \in View, NEW sep \in Byte, NEW room \in Nat,
         NEW ignore \in BOOLEAN, NEW subst \in BOOLEAN, s.len >= 0, EndOf(s) <= K,
         NEW acc, TurnInv(acc, s.len, m, s, sep, room, ignore, subst),
         NEW rest, rest = Str(acc.start, EndOf(s) - acc.start),
         NEW ps,
         ps = IF \/ acc.done \/ rest.len < 0
                 \/ ~(~ignore \/ (IF lng = "cpp" THEN s.len ELSE rest.len) # 0)
                 THEN acc.parts ELSE Append(acc.parts, rest)
  PROVE  SplitFacts(lng, m, s, sep, room, ignore, subst, ps, acc.mem)
  <1> DEFINE n == Len(acc.parts)
             W == WantedIn(lng, m, s, sep, ignore)
             P == Ended(m, s, sep, ignore)
             keep == ~ignore \/ (IF lng = "cpp" THEN s.len ELSE rest.len) # 0
  <1>0. s.buf \in Nat /\ s.len \in Nat /\ EndOf(s) = s.buf + s.len /\ EndOf(s) \in Nat
    BY DEF View, EndOf
  <1>1. /\ acc.parts \in Seq(Views) /\ acc.start \in Nat /\ acc.done \in BOOLEAN /\ acc.mem \in Memory
        /\ n \in Nat /\ DOMAIN acc.parts = 1 .. n
        /\ s.buf <= acc.start /\ acc.start <= EndOf(s)
    <2>1. acc \in Locals /\ acc.start \in s.buf .. s.buf + s.len
      BY DEF TurnInv
    <2> QED
      BY <1>0, <2>1 DEF Locals
  <1>2. ~acc.done =>
          /\ n < room
          /\ \A k \in 1 .. n : EndOf(acc.parts[k]) < acc.start
          /\ \A a \in acc.start .. EndOf(s) - 1 : m[a] # sep
          /\ \A a \in s.buf .. acc.start - 1 :
               m[a] # sep => \E k \in 1 .. n : a \in Addresses(acc.parts[k])
    <2>1. EndOf(s) - 1 = (s.buf + s.len) - 1
      BY <1>0
    <2> QED
      BY <2>1, Zenon DEF TurnInv
  <1>3. /\ \A k \in 1 .. n : acc.parts[k] \in P /\ acc.parts[k].buf <= acc.start
        /\ \A j, k \in 1 .. n : j < k => EndOf(acc.parts[j]) < acc.parts[k].buf
        /\ \A w \in P : w.buf < acc.start => \E k \in 1 .. n : acc.parts[k] = w
        /\ acc.done => n = room
    BY DEF TurnInv
  <1>4. \A k \in 1 .. n : /\ acc.parts[k] \in W /\ acc.parts[k] \in Extents(m, s, sep)
                          /\ EndOf(acc.parts[k]) < EndOf(s)
    BY <1>3 DEF Ended, WantedIn
  <1>5. \A k \in 1 .. n : /\ acc.parts[k].buf \in Nat /\ acc.parts[k].len \in Nat
                          /\ s.buf <= acc.parts[k].buf
                          /\ EndOf(acc.parts[k]) = acc.parts[k].buf + acc.parts[k].len
    <2> SUFFICES ASSUME NEW k \in 1 .. n
                 PROVE  /\ acc.parts[k].buf \in Nat /\ acc.parts[k].len \in Nat
                        /\ s.buf <= acc.parts[k].buf
                        /\ EndOf(acc.parts[k]) = acc.parts[k].buf + acc.parts[k].len
      OBVIOUS
    <2>1. acc.parts[k] \in Views /\ s.buf <= acc.parts[k].buf
      BY <1>4, ExtentIs
    <2> QED
      BY <2>1 DEF Views, EndOf
  <1>6. Writes(m, s, sep, subst, acc.mem)
    <2> SUFFICES ASSUME NEW a \in 1 .. K
                 PROVE  acc.mem[a] = m[a] \/ (subst /\ a \in Addresses(s) /\ m[a] = sep)
      BY DEF Writes
    <2>1. \/ acc.mem[a] = m[a]
          \/ subst /\ s.buf <= a /\ a < acc.start /\ m[a] = sep
      BY DEF TurnInv
    <2> QED
      BY <1>0, <1>1, <2>1 DEF Addresses
  <1>7. subst => \A k \in 1 .. n : EndOf(acc.parts[k]) < acc.start => acc.mem[EndOf(acc.parts[k])] = NUL
    BY DEF TurnInv
  <1>8. /\ rest \in Views /\ rest.buf = acc.start /\ rest.len = EndOf(s) - acc.start
        /\ EndOf(rest) = EndOf(s) /\ ~(rest.len < 0)
    BY <1>0, <1>1 DEF Str, Views, EndOf
  \* Before the last part, whether the array is full or not.
  <1>9. CASE acc.done
    <2>1. ps = acc.parts
      BY <1>9
    <2>2. Exact(W, room, acc.parts)
      <3>1. \A w \in P, k \in 1 .. n :
              w.buf < acc.parts[k].buf => Holds(acc.parts, w)
        <4> SUFFICES ASSUME NEW w \in P, NEW k \in 1 .. n, w.buf < acc.parts[k].buf
                     PROVE  Holds(acc.parts, w)
          OBVIOUS
        <4>1. w \in Views
          BY ExtentIs DEF Ended
        <4>2. w.buf < acc.start
          <5>1. acc.parts[k].buf \in Nat /\ acc.parts[k].buf <= acc.start
            BY <1>3, <1>5
          <5>2. w.buf \in Nat
            BY <4>1 DEF Views
          <5> QED
            BY <1>1, <5>1, <5>2
        <4> QED
          BY <1>3, <4>2 DEF Holds
      <3>2. Ordered(acc.parts)
        BY <1>3 DEF Ordered
      <3>3. Len(acc.parts) = room
        BY <1>3, <1>9
      <3> HIDE DEF keep
      <3> QED
        BY <1>1, <1>4, <3>1, <3>2, <3>3, InOrder
    <2>3. Covers(m, s, sep, room, acc.parts)
      BY <1>1, <1>3, <1>9 DEF Covers
    <2>4. Terminates(s, room, subst, acc.parts, acc.mem)
      <3>1. \A k \in 1 .. n - 1 : EndOf(acc.parts[k]) < acc.start /\ k \in 1 .. n
        <4> SUFFICES ASSUME NEW k \in 1 .. n - 1
                     PROVE  EndOf(acc.parts[k]) < acc.start /\ k \in 1 .. n
          OBVIOUS
        <4>1. k \in 1 .. n /\ k + 1 \in 1 .. n /\ k < k + 1
          BY <1>1
        <4>2. EndOf(acc.parts[k]) < acc.parts[k + 1].buf /\ acc.parts[k + 1].buf <= acc.start
          BY <1>3, <4>1
        <4>3. /\ acc.parts[k].buf \in Nat /\ acc.parts[k].len \in Nat
              /\ EndOf(acc.parts[k]) = acc.parts[k].buf + acc.parts[k].len
          BY <1>5, <4>1
        <4>4. acc.parts[k + 1].buf \in Nat
          BY <1>5, <4>1
        <4> QED
          BY <1>1, <4>1, <4>2, <4>3, <4>4
      <3> HIDE DEF keep
      <3> QED
        BY <1>1, <1>3, <1>7, <1>9, <3>1 DEF Terminates
    <2> HIDE DEF W
    <2>5. \A k \in DOMAIN acc.parts : s.buf <= acc.parts[k].buf /\ EndOf(acc.parts[k]) <= EndOf(s)
      <3> SUFFICES ASSUME NEW k \in 1 .. n
                   PROVE  s.buf <= acc.parts[k].buf /\ EndOf(acc.parts[k]) <= EndOf(s)
        BY <1>1
      <3>1. /\ s.buf <= acc.parts[k].buf /\ EndOf(acc.parts[k]) < EndOf(s)
            /\ EndOf(acc.parts[k]) \in Nat
        BY <1>4, <1>5
      <3> QED
        BY <1>0, <3>1
    <2> QED
      BY <1>1, <1>6, <2>1, <2>2, <2>3, <2>4, <2>5 DEF SplitFacts, W
  <1>10. CASE ~acc.done
    <2>1. rest \in Extents(m, s, sep)
      <3>1. rest.buf = s.buf \/ m[rest.buf - 1] = sep
        BY <1>8 DEF TurnInv
      <3>2. \A a \in Addresses(rest) : m[a] # sep
        BY <1>2, <1>8, <1>10 DEF Addresses
      <3>3. s.buf <= rest.buf /\ EndOf(rest) <= EndOf(s)
        BY <1>0, <1>1, <1>8
      <3> QED
        BY <1>8, <3>1, <3>2, <3>3, ExtentIs
    <2>2. keep <=> rest \in W
      <3>1. rest.len = 0 <=> rest.buf = EndOf(s)
        BY <1>0, <1>1, <1>8
      <3>2. rest.len > 0 => s.len # 0
        BY <1>0, <1>1, <1>8
      <3>3. rest.len \in Nat /\ s.len \in Nat
        BY <1>0, <1>1, <1>8
      <3>4. rest \in W <=> \/ ~ignore \/ rest.len > 0
                           \/ lng = "cpp" /\ s.len > 0 /\ rest.buf = EndOf(s)
        BY <2>1 DEF WantedIn
      <3>5. CASE lng = "cpp"
        BY <3>1, <3>2, <3>3, <3>4, <3>5
      <3>6. CASE lng # "cpp"
        BY <3>3, <3>4, <3>6
      <3> QED
        BY <3>5, <3>6
    <2>3. ASSUME NEW w \in W PROVE (w \in P /\ w.buf < acc.start) \/ w = rest
      <3>0. w \in Extents(m, s, sep)
        BY DEF WantedIn
      <3>s. s \in View
        OBVIOUS
      <3>1. w \in Views /\ EndOf(w) <= EndOf(s) /\ (EndOf(w) = EndOf(s) \/ m[EndOf(w)] = sep)
        BY ONLY <3>s, <3>0, ExtentEnds
      <3>2. w.buf \in Nat /\ w.len \in Nat /\ EndOf(w) = w.buf + w.len
        BY ONLY <3>1 DEF Views, EndOf
      <3>3. CASE w.buf < rest.buf
        <4>1. EndOf(w) < EndOf(s)
          BY <2>1, <3>0, <3>3, ExtentsApart
        <4>2. w.buf # EndOf(s)
          BY <1>0, <3>2, <4>1
        <4> QED
          BY <1>8, <3>3, <4>1, <4>2 DEF WantedIn, Ended
      <3>4. CASE w.buf = rest.buf
        BY <2>1, <3>0, <3>4, ExtentsApart
      <3>5. CASE rest.buf < w.buf
        <4>1. EndOf(rest) < EndOf(s)
          BY <2>1, <3>0, <3>5, ExtentsApart
        <4> QED
          BY <1>0, <1>8, <4>1
      <3> QED
        BY <1>1, <1>8, <3>2, <3>3, <3>4, <3>5
    <2>4. /\ ps = IF keep THEN Append(acc.parts, rest) ELSE acc.parts
          /\ ps \in Seq(Views) /\ Len(ps) \in Nat /\ DOMAIN ps = 1 .. Len(ps)
          /\ Len(ps) = IF keep THEN n + 1 ELSE n
          /\ \A k \in 1 .. n : ps[k] = acc.parts[k]
          /\ keep => ps[n + 1] = rest
      <3>1. ps = IF keep THEN Append(acc.parts, rest) ELSE acc.parts
        BY <1>8, <1>10
      <3> HIDE DEF keep
      <3>2. ps \in Seq(Views)
        BY <1>1, <1>8, <3>1, AppendIs
      <3> QED
        BY <1>1, <1>8, <3>1, <3>2, AppendIs
    <2> HIDE DEF keep, W, P
    <2>5. \A k \in 1 .. Len(ps) : \/ k \in 1 .. n /\ ps[k] = acc.parts[k]
                                  \/ keep /\ k = n + 1 /\ ps[k] = rest
      BY <1>1, <2>4
    <2>6. 1 .. n \subseteq 1 .. Len(ps) /\ (keep => n + 1 \in 1 .. Len(ps))
      BY <1>1, <2>4
    <2>7. \A k \in 1 .. Len(ps) : ps[k] \in W
      BY <1>4, <2>2, <2>5
    <2>8. Ordered(ps)
      <3> SUFFICES ASSUME NEW j \in 1 .. Len(ps), NEW k \in 1 .. Len(ps), j < k
                   PROVE  EndOf(ps[j]) < ps[k].buf
        BY DEF Ordered
      <3>1. j \in 1 .. n /\ ps[j] = acc.parts[j]
        BY <1>1, <2>4, <2>5
      <3>2. CASE k \in 1 .. n /\ ps[k] = acc.parts[k]
        BY <1>3, <3>1, <3>2
      <3>3. CASE ps[k] = rest
        BY <1>2, <1>8, <1>10, <3>1, <3>3
      <3> QED
        BY <2>5, <3>2, <3>3
    <2>9. ASSUME NEW w \in W PROVE Holds(ps, w)
      <3>1. CASE w \in P /\ w.buf < acc.start
        <4>1. PICK k \in 1 .. n : acc.parts[k] = w
          BY <1>3, <3>1 DEF P
        <4> QED
          BY <2>4, <2>6, <4>1 DEF Holds
      <3>2. CASE w = rest
        BY <2>2, <2>4, <2>6, <3>2 DEF Holds
      <3> QED
        BY <2>3, <3>1, <3>2
    <2>10. P \subseteq W
      BY DEF P, W, Ended, WantedIn
    <2>11. Exact(W, room, ps)
      <3>1. Len(ps) <= room
        BY <1>1, <1>2, <1>10, <2>4
      <3>2. \A w \in Ended(m, s, sep, ignore) : Holds(ps, w)
        BY <2>9, <2>10 DEF P
      <3> QED
        BY <2>4, <2>7, <2>8, <2>9, <3>1, <3>2, InOrder DEF W
    <2>12. Covers(m, s, sep, room, ps)
      <3> SUFFICES ASSUME NEW a \in Addresses(s), m[a] # sep
                   PROVE  \E k \in DOMAIN ps : {j \in DOMAIN ps : a \in Addresses(ps[j])} = {k}
        BY DEF Covers
      <3>0. a \in Int /\ s.buf <= a /\ a < EndOf(s)
        BY <1>0 DEF Addresses
      <3>1. \E k \in 1 .. Len(ps) : a \in Addresses(ps[k])
        <4>1. CASE a < acc.start
          <5>1. a \in s.buf .. acc.start - 1
            BY <1>0, <1>1, <3>0, <4>1
          <5>2. PICK k \in 1 .. n : a \in Addresses(acc.parts[k])
            BY <1>2, <1>10, <5>1
          <5> QED
            BY <2>4, <2>6, <5>2
        <4>2. CASE ~(a < acc.start)
          <5>1. a \in Addresses(rest) /\ rest.len > 0
            BY <1>0, <1>1, <1>8, <3>0, <4>2 DEF Addresses
          <5>2. keep
            BY <2>1, <2>2, <5>1 DEF W, WantedIn
          <5> QED
            BY <2>4, <2>6, <5>1, <5>2
        <4> QED
          BY <4>1, <4>2
      <3>2. PICK k \in 1 .. Len(ps) : a \in Addresses(ps[k])
        BY <3>1
      <3> QED
        BY <2>4, <2>8, <3>0, <3>2, OnePart
    <2>13. Terminates(s, room, subst, ps, acc.mem)
      <3> SUFFICES ASSUME subst, ps # <<>>
                   PROVE  /\ \A k \in 1 .. Len(ps) - 1 : acc.mem[EndOf(ps[k])] = NUL
                          /\ acc.mem[EndOf(s)] = NUL => acc.mem[EndOf(Last(ps))] = NUL
        BY DEF Terminates
      <3>1. \A k \in 1 .. n : acc.mem[EndOf(acc.parts[k])] = NUL
        BY <1>2, <1>7, <1>10
      <3>2. \A k \in 1 .. Len(ps) - 1 : k \in 1 .. n /\ ps[k] = acc.parts[k]
        BY <1>1, <2>4
      <3>3. Len(ps) \in 1 .. Len(ps) /\ Last(ps) = ps[Len(ps)]
        BY <2>4 DEF Last
      <3>4. \/ Len(ps) \in 1 .. n /\ Last(ps) = acc.parts[Len(ps)]
            \/ Last(ps) = rest
        BY <2>5, <3>3
      <3> QED
        BY <1>8, <3>1, <3>2, <3>4
    <2>14. \A k \in DOMAIN ps : s.buf <= ps[k].buf /\ EndOf(ps[k]) <= EndOf(s)
      <3> SUFFICES ASSUME NEW k \in 1 .. Len(ps)
                   PROVE  s.buf <= ps[k].buf /\ EndOf(ps[k]) <= EndOf(s)
        BY <2>4
      <3>1. ps[k] \in Extents(m, s, sep)
        BY <2>7 DEF W, WantedIn
      <3> QED
        BY <3>1, ExtentIs
    <2> QED
      BY <1>1, <1>6, <2>4, <2>11, <2>12, <2>13, <2>14 DEF SplitFacts, W
  <1> QED
    BY <1>1, <1>9, <1>10

LEMMA SplitIs ==
  ASSUME NEW lng, NEW m \in Memory, NEW s \in View, NEW sep \in Byte, NEW room \in Nat,
         NEW ignore \in BOOLEAN, NEW subst \in BOOLEAN, EndOf(s) <= K, s.buf = 0 => s.len = 0
  PROVE  LET r == SplitC(lng, m, s, sep, room, ignore, subst) IN
         SplitFacts(lng, m, s, sep, room, ignore, subst, r.parts, r.mem)
  <1> DEFINE first == [parts |-> <<>>, start |-> s.buf, done |-> FALSE, mem |-> m]
             acc   == IF s.len <= 0 THEN first
                      ELSE SplitLoop(first, s, sep, room, ignore, subst)[s.len]
             rest  == Str(acc.start, EndOf(s) - acc.start)
             keep  == \/ ~ignore
                      \/ (IF lng = "cpp" THEN s.len ELSE rest.len) # 0
             W     == WantedIn(lng, m, s, sep, ignore)
             r     == SplitC(lng, m, s, sep, room, ignore, subst)
  <1>0. /\ s.buf \in Nat /\ s.len \in Int /\ EndOf(s) = s.buf + s.len
        /\ first.parts = <<>> /\ first.start = s.buf /\ first.done = FALSE /\ first.mem = m
        /\ <<>> \in Seq(Views) /\ Len(<<>>) = 0 /\ DOMAIN <<>> = 1 .. 0
    BY DEF View, EndOf
  <1>1. r = IF room = 0 THEN first
            ELSE IF acc.done \/ rest.len < 0 \/ ~keep THEN acc
            ELSE [acc EXCEPT !.parts = Append(@, rest)]
    BY DEF SplitC
  <1>2. IsFiniteSet(W)
    <2>1. W \subseteq Extents(m, s, sep)
      BY DEF WantedIn
    <2> QED
      BY <2>1, ExtentsFinite, FS_Subset
  \* Nothing is handed out: there is no room, or nothing to split.
  <1>3. ASSUME room = 0 \/ W = {}
        PROVE  SplitFacts(lng, m, s, sep, room, ignore, subst, <<>>, m) \/ (room # 0 /\ s.len >= 0)
    <2>1. Cardinality(W) \in Nat /\ (W = {} => Cardinality(W) = 0)
      BY <1>2, FS_CardinalityType, FS_EmptySet
    <2>2. Exact(W, room, <<>>)
      BY <1>0, <1>3, <2>1 DEF Exact
    <2>3. Covers(m, s, sep, room, <<>>) \/ (room # 0 /\ s.len >= 0)
      <3>1. s.len < 0 => Addresses(s) = {}
        BY <1>0 DEF Addresses
      <3> QED
        BY <1>0, <3>1 DEF Covers
    <2>4. Writes(m, s, sep, subst, m) /\ Terminates(s, room, subst, <<>>, m)
      BY DEF Writes, Terminates
    <2> HIDE DEF W
    <2> QED
      BY <1>0, <2>2, <2>3, <2>4 DEF SplitFacts, W
  <1>4. CASE room = 0
    BY <1>0, <1>1, <1>3, <1>4
  <1>5. CASE room # 0 /\ s.len < 0
    <2>1. W = {}
      <3> SUFFICES ASSUME NEW w \in W PROVE FALSE
        OBVIOUS
      <3>1. w \in Views /\ s.buf <= w.buf /\ EndOf(w) <= EndOf(s)
        BY ExtentIs DEF WantedIn
      <3>2. w.buf \in Nat /\ w.len \in Nat /\ EndOf(w) = w.buf + w.len
        BY <3>1 DEF Views, EndOf
      <3> QED
        BY <1>0, <1>5, <3>1, <3>2
    <2>2. acc = first
      BY <1>0, <1>5
    <2>3. rest.len < 0
      BY <1>0, <1>5, <2>2, StrFields
    <2>4. r = first
      <3> HIDE DEF acc, rest, keep, first, r
      <3> QED
        BY <1>1, <1>5, <2>2, <2>3
    <2> QED
      BY <1>0, <1>3, <1>5, <2>1, <2>4
  <1>6. CASE room # 0 /\ s.len >= 0
    <2>1. TurnInv(first, 0, m, s, sep, room, ignore, subst)
      <3>1. first \in Locals
        BY <1>0 DEF Locals
      <3>2. /\ first.start \in s.buf .. s.buf + 0
            /\ s.buf .. s.buf - 1 = {} /\ s.buf .. (s.buf + 0) - 1 = {}
        BY <1>0
      <3>3. \A w \in Ended(m, s, sep, ignore) : ~(w.buf < s.buf)
        <4> SUFFICES ASSUME NEW w \in Ended(m, s, sep, ignore) PROVE ~(w.buf < s.buf)
          OBVIOUS
        <4>1. w \in Views /\ s.buf <= w.buf
          BY ExtentIs DEF Ended
        <4> QED
          BY <1>0, <4>1 DEF Views
      <3>4. 1 .. Len(first.parts) = {} /\ Len(first.parts) < room /\ first.start = s.buf
            /\ first.done = FALSE /\ first.mem = m
        BY <1>0, <1>6
      <3> HIDE DEF first
      <3> QED
        BY <3>1, <3>2, <3>3, <3>4 DEF TurnInv
    <2>2. TurnInv(acc, s.len, m, s, sep, room, ignore, subst)
      <3>1. CASE s.len = 0
        BY <2>1, <3>1
      <3>2. CASE s.len > 0
        <4>1. s.buf > 0
          BY <1>0, <3>2
        <4>2. acc = SplitLoop(first, s, sep, room, ignore, subst)[s.len]
          BY <1>0, <3>2
        <4> HIDE DEF acc, first
        <4> QED
          BY <2>1, <3>2, <4>1, <4>2, LoopDone
      <3> QED
        BY <1>0, <1>6, <3>1, <3>2
    <2> DEFINE ps == IF acc.done \/ rest.len < 0 \/ ~keep THEN acc.parts ELSE Append(acc.parts, rest)
    <2>3. SplitFacts(lng, m, s, sep, room, ignore, subst, ps, acc.mem)
      <3>1. rest = Str(acc.start, EndOf(s) - acc.start)
        OBVIOUS
      <3>2. ps = IF \/ acc.done \/ rest.len < 0
                    \/ ~(~ignore \/ (IF lng = "cpp" THEN s.len ELSE rest.len) # 0)
                    THEN acc.parts ELSE Append(acc.parts, rest)
        OBVIOUS
      <3> HIDE DEF acc, rest, ps
      <3> QED
        BY <1>6, <2>2, <3>1, <3>2, SplitEnds
    <2>4. r.parts = ps /\ r.mem = acc.mem
      <3>1. acc \in Locals
        BY <2>2 DEF TurnInv
      <3> HIDE DEF acc, rest, keep, r
      <3> QED
        BY <1>1, <1>6, <3>1 DEF Locals
    <2> HIDE DEF r, ps, acc
    <2> QED
      BY <2>3, <2>4, Zenon DEF r
  <1> QED
    BY <1>0, <1>4, <1>5, <1>6

----------------------------------------------------------------------------
\* Pairs

InText(s) == s \in Views /\ (IsNull(s) => s.len = 0) /\ EndOf(s) <= M + 1

\* What TrimKeepsContent says of a pair, for its operands and results.
PairFacts(m, s, sep, blank, a, b) ==
  LET seps == {p \in Addresses(s) : m[p] = sep}
      kept == Addresses(a) \cup (IF IsNull(b) THEN {} ELSE Addresses(b))
  IN
  /\ IsNull(b) <=> seps = {}
  /\ seps # {} => EndOf(a) <= Min(seps) /\ b.buf > Min(seps)
  /\ \A p \in Addresses(s) \ kept : m[p] \in blank \/ (seps # {} /\ p = Min(seps))

LEMMA PairIs ==
  ASSUME NEW m, NEW s \in Views, InText(s), NEW sep, NEW flags
  PROVE  \E a, b \in Views :
           /\ SplitPair(m, s, sep, flags) = <<a, b>>
           /\ InText(a) /\ InText(b)
           /\ PairFacts(m, s, sep, flags.blank, a, b)
  <1> DEFINE found == {i \in 0 .. s.len - 1 : m[s.buf + i] = sep}
             seps  == {p \in Addresses(s) : m[p] = sep}
  <1>0. /\ s.buf \in Nat /\ s.len \in Nat /\ EndOf(s) = s.buf + s.len /\ s \in View
        /\ EndOf(s) <= M + 1 /\ M \in Nat /\ (s.buf = 0 => s.len = 0)
        /\ Addresses(s) = s.buf .. (s.buf + s.len) - 1
    BY TextAssumption DEF View, Views, EndOf, InText, IsNull, Addresses
  <1>1. StrNull \in Views /\ InText(StrNull) /\ IsNull(StrNull)
    BY <1>0 DEF StrNull, Str, Views, InText, EndOf, IsNull
  <1>2. \A p \in Addresses(s) : p \in Nat /\ p - s.buf \in 0 .. s.len - 1 /\ s.buf + (p - s.buf) = p
    BY <1>0
  <1>3. \A i \in 0 .. s.len - 1 : i \in Nat /\ s.buf + i \in Addresses(s)
    BY <1>0
  <1>4. \A p \in seps : p - s.buf \in found
    BY <1>2
  <1>5. \A i \in found : s.buf + i \in seps
    BY <1>3
  <1>6. CASE s.len = 0
    <2>1. SplitPair(m, s, sep, flags) = <<s, StrNull>>
      BY <1>6 DEF SplitPair
    <2>2. Addresses(s) = {}
      BY <1>0, <1>6
    <2>3. PairFacts(m, s, sep, flags.blank, s, StrNull)
      BY <1>1, <2>2 DEF PairFacts
    <2> QED
      BY <1>1, <2>1, <2>3
  <1>7. CASE s.len # 0 /\ found = {}
    <2> DEFINE a == Trim(m, s, flags)
    <2>1. SplitPair(m, s, sep, flags) = <<a, StrNull>>
      BY <1>7 DEF SplitPair
    <2>2. /\ a \in View /\ s.buf <= a.buf /\ EndOf(a) <= EndOf(s) /\ a.len >= 0
          /\ \A p \in Addresses(s) : m[p] \notin flags.blank => p \in Addresses(a)
      <3>1. s \in View /\ s.len >= 0
        BY <1>0
      <3>2. a = Trim(m, s, flags)
        OBVIOUS
      <3> HIDE DEF a
      <3> QED
        BY <3>1, <3>2, TrimIs
    <2>3. seps = {}
      BY <1>4, <1>7
    <2> HIDE DEF a, seps, found
    <2>4. PairFacts(m, s, sep, flags.blank, a, StrNull)
      BY <1>1, <2>2, <2>3 DEF PairFacts, seps
    <2>5. a \in Views /\ InText(a)
      BY <1>0, <1>7, <2>2 DEF View, Views, InText, IsNull, EndOf
    <2> QED
      BY <1>1, <2>1, <2>4, <2>5
  <1>8. CASE s.len # 0 /\ found # {}
    <2> DEFINE j == Min(found)
               q == s.buf + j
    <2>1. j \in 0 .. s.len - 1 /\ j \in found /\ \A i \in found : j <= i
      <3>1. found \subseteq 0 .. s.len - 1 /\ found \subseteq Nat
        BY <1>3
      <3> HIDE DEF found
      <3> QED
        BY <1>8, <3>1, MinIs
    <2>2. q = Min(seps) /\ seps # {} /\ q \in Nat
      <3>1. seps \subseteq Nat /\ q \in seps
        BY <1>2, <1>5, <2>1
      <3> HIDE DEF seps
      <3>2. Min(seps) \in seps /\ Min(seps) <= q /\ Min(seps) \in Nat
        BY <3>1, MinIs
      <3>3. j <= Min(seps) - s.buf
        BY <1>4, <2>1, <3>2
      <3> HIDE DEF j
      <3>4. q <= Min(seps)
        BY <1>0, <2>1, <3>2, <3>3
      <3> QED
        BY <1>0, <2>1, <3>1, <3>2, <3>4
    <2> HIDE DEF j
    <2> DEFINE s1 == StrSub(s, 0, j)
               s2 == StrSub(s, j + 1, s.len)
               a  == Trim(m, s1, flags)
               b  == Trim(m, s2, flags)
    <2>3. SplitPair(m, s, sep, flags) = <<a, b>>
      BY <1>8 DEF SplitPair, j
    <2>4. /\ s1 \in View /\ s1.buf = s.buf /\ s1.len = j /\ EndOf(s1) = q
          /\ s2 \in View /\ s2.buf = q + 1 /\ s2.len = s.len - (j + 1) /\ EndOf(s2) = EndOf(s)
          /\ s1.len >= 0 /\ s2.len >= 0
      BY <1>0, <2>1 DEF StrSub, Str, View, EndOf
    <2> HIDE DEF s1, s2
    <2>5. /\ a \in View /\ s.buf <= a.buf /\ EndOf(a) <= q /\ a.len >= 0
          /\ \A p \in Addresses(s1) : m[p] \notin flags.blank => p \in Addresses(a)
      BY <2>4, TrimIs
    <2>6. /\ b \in View /\ q + 1 <= b.buf /\ EndOf(b) <= EndOf(s) /\ b.len >= 0
          /\ \A p \in Addresses(s2) : m[p] \notin flags.blank => p \in Addresses(b)
      BY <2>4, TrimIs
    <2> HIDE DEF a, b
    <2>7. \A p \in Addresses(s) : p \in Addresses(s1) \/ p \in Addresses(s2) \/ p = q
      <3>1. Addresses(s1) = s.buf .. q - 1 /\ Addresses(s2) = q + 1 .. EndOf(s) - 1
        BY <2>4 DEF Addresses
      <3> QED
        BY <1>0, <2>2, <3>1
    <2>8. b.buf > q /\ ~IsNull(b)
      BY <2>2, <2>6 DEF View, IsNull
    <2>9. PairFacts(m, s, sep, flags.blank, a, b)
      <3>1. \A p \in Addresses(s) \ (Addresses(a) \cup Addresses(b)) : m[p] \in flags.blank \/ p = q
        BY <2>5, <2>6, <2>7
      <3> HIDE DEF q
      <3>2. EndOf(a) <= Min(seps) /\ b.buf > Min(seps)
        BY <2>2, <2>5, <2>8
      <3> HIDE DEF seps
      <3> QED
        BY <2>2, <2>8, <3>1, <3>2 DEF PairFacts, seps
    <2>10. a \in Views /\ InText(a) /\ b \in Views /\ InText(b)
      <3>1. a.buf \in Nat /\ a.len \in Nat /\ EndOf(a) <= M + 1
            /\ b.buf \in Nat /\ b.len \in Nat /\ EndOf(b) <= M + 1
            /\ a.buf > 0 /\ b.buf > 0
        <4>1. /\ a.buf \in Nat /\ a.len \in Nat /\ EndOf(a) \in Int
              /\ b.buf \in Nat /\ b.len \in Nat /\ EndOf(b) \in Int
          BY <2>5, <2>6 DEF View, EndOf
        <4>2. q <= EndOf(s) /\ s.buf > 0
          BY <1>0, <1>8, <2>1
        <4> HIDE DEF q, seps
        <4>3. EndOf(a) <= M + 1 /\ EndOf(b) <= M + 1
          BY <1>0, <2>2, <2>5, <2>6, <4>1, <4>2
        <4>4. a.buf > 0 /\ b.buf > 0
          BY <1>0, <2>2, <2>5, <2>6, <4>1, <4>2
        <4> QED
          BY <4>1, <4>3, <4>4
      <3> QED
        BY <2>5, <2>6, <3>1 DEF View, Views, InText, IsNull
    <2> QED
      BY <2>3, <2>9, <2>10
  <1> QED
    BY <1>6, <1>7, <1>8

----------------------------------------------------------------------------
\* The inductive invariant

Jobs == [op : {"split", "trim", "pair", "compare"}, src : View, with : Views, sep : Byte,
         room : Nat, ignore : BOOLEAN, subst : BOOLEAN, flags : Flags \cup {NoFlags},
         mem : Memory]

\* What TrimKeepsContent says of trims after a split of s in the memory m.
TrimFacts(m, mm, s, sep, room, flags, ps) ==
  /\ Len(ps) < room =>
       \A a \in Addresses(s) : m[a] \notin flags.blank \cup {sep} =>
         \E k \in DOMAIN ps : {j \in DOMAIN ps : a \in Addresses(ps[j])} = {k}
  /\ \A k \in DOMAIN ps :
       (\E a \in Addresses(ps[k]) : mm[a] \notin flags.blank) =>
         /\ flags.left => mm[ps[k].buf] \notin flags.blank
         /\ flags.right => mm[EndOf(ps[k]) - 1] \notin flags.blank

JobSplit(lng, mm, ps, j) ==
  /\ j \in Jobs
  /\ j.flags = NoFlags
  /\ EndOf(j.src) <= K /\ (IsNull(j.src) => j.src.len = 0)
  /\ SplitFacts(lng, j.mem, j.src, j.sep, j.room, j.ignore, j.subst, ps, mm)

JobTrim(mm, ps, j) ==
  /\ j \in Jobs
  /\ ps \in Seq(Views)
  /\ TrimFacts(j.mem, mm, j.src, j.sep, j.room, j.flags, ps)

\* Of the last call: what the properties say of its operands and its results.
JobFacts(lng, mm, ps, j) ==
  /\ j.op = "split" => JobSplit(lng, mm, ps, j)
  /\ j.op = "trim" => JobTrim(mm, ps, j)
  /\ j.op = "pair" => PairFacts(mm, j.src, j.sep, j.flags.blank, ps[1], ps[2])
  /\ j.op = "compare" => Agree(lng, mm, j.src, j.with)

\* A literal as the needle of a loop.
Needle(w) == w \in Views /\ M + 2 <= w.buf /\ EndOf(w) <= K /\ w.len <= Len(Literals)

\* The needle of the loop l is at p, in the memory l began with.
FoundAt(lng, l, p) == SameBytes(lng, l.mem, p, l.needle.buf, l.needle.len)

\* From b on two memories are one.
AgreeFrom(m1, m2, b) == \A a \in 1 .. K : a >= b => m1[a] = m2[a]

\* Where a loop l stands: what is ahead of it is as it was at its beginning, and
\* ends where its source ends; behind that it may be by less than a needle.
Stands(l, s, mm) ==
  /\ l.by \in {"char", "str"} /\ (l.by = "char" => l.needle.len = 1)
  /\ InText(l.from) /\ Needle(l.needle) /\ l.mem \in Memory
  /\ s \in View /\ EndOf(s) = EndOf(l.from) /\ l.from.buf <= s.buf
  /\ s.len > -l.needle.len \/ s.len = 0
  /\ s.len > 0 => AgreeFrom(mm, l.mem, s.buf)

\* The part at hand ends at the needle the loop has just gone over, if it has not
\* come to the end, and there were no more turns than characters.
AtHand(lng, l, s, g) ==
  /\ s.len # 0 => l.from.buf > 0 /\ (l.needle.len > 0 => Len(g) <= l.from.len)
  /\ (s.len > 0 /\ l.needle.len > 0) => Len(g) <= s.buf - l.from.buf
  /\ g = <<>> => s.buf = l.from.buf
  /\ g # <<>> =>
       /\ l.from.buf > 0 /\ g[1].buf = l.from.buf
       /\ l.from.buf <= Last(g).buf /\ EndOf(Last(g)) <= EndOf(l.from)
       /\ s.len # 0 => /\ s.buf = EndOf(Last(g)) + l.needle.len /\ Last(g).len >= 0
                       /\ FoundAt(lng, l, EndOf(Last(g)))
       /\ s.len = 0 => EndOf(l.from) - EndOf(Last(g)) \in {0, l.needle.len}

\* In a part only the end of the text could hide a needle.
HidesNone(lng, l, part) ==
  l.needle.len > 0 =>
    \A p \in Addresses(part) : FoundAt(lng, l, p) => p + l.needle.len > EndOf(l.from)

\* The parts and the needles between them lie one after the other, and no part
\* hides a needle.
Tiled(lng, l, g) ==
  /\ g \in Seq(View)
  /\ \A k \in 1 .. Len(g) - 1 :
       /\ g[k].len >= 0
       /\ g[k + 1].buf = EndOf(g[k]) + l.needle.len
       /\ FoundAt(lng, l, EndOf(g[k]))
  /\ \A k \in 1 .. Len(g) : HidesNone(lng, l, g[k])

\* Outside of loops every part lies in the text.
Outside(l, s, g, ps) ==
  /\ l = NoLoop /\ s = StrNull /\ g = <<>>
  /\ ps \in Seq(Views) /\ \A k \in 1 .. Len(ps) : InText(ps[k])

TextInv ==
  /\ mem \in Memory
  /\ IF Looped THEN Stands(loop, src, mem) /\ AtHand(lang, loop, src, got) /\ Tiled(lang, loop, got)
     ELSE Outside(loop, src, got, parts)
  /\ JobFacts(lang, mem, parts, job)
----------------------------------------------------------------------------
\* A turn of a loop

\* A memory is a sequence of K bytes.
LEMMA MemoryLength ==
  ASSUME NEW m \in Memory
  PROVE  Len(m) = K /\ DOMAIN m = 1 .. K
  <1>1. m \in [1 .. K -> Byte] /\ K \in Nat
    BY TextAssumption DEF Memory, K
  <1> QED
    BY <1>1

LEMMA TextSize == M \in Nat /\ Len(Literals) \in Nat /\ K \in Nat /\ K = M + 2 + Len(Literals)
  BY TextAssumption DEF K

\* Two memories that agree from b on have the same strings there.
LEMMA SameLater ==
  ASSUME NEW lng, NEW m1, NEW m2, NEW b \in Nat, NEW p \in Nat, NEW q \in Nat, NEW n \in Nat,
         b > 0, b <= p, b <= q, p + n <= K + 1, q + n <= K + 1, AgreeFrom(m1, m2, b)
  PROVE  SameBytes(lng, m1, p, q, n) <=> SameBytes(lng, m2, p, q, n)
  <1>1. \A i \in 0 .. n - 1 : m1[p + i] = m2[p + i] /\ m1[q + i] = m2[q + i]
    <2> SUFFICES ASSUME NEW i \in 0 .. n - 1
                 PROVE  m1[p + i] = m2[p + i] /\ m1[q + i] = m2[q + i]
      OBVIOUS
    <2>1. p + i \in 1 .. K /\ p + i >= b /\ q + i \in 1 .. K /\ q + i >= b
      BY TextSize
    <2> QED
      BY <2>1 DEF AgreeFrom
  <1> DEFINE Byt(m, i) == \/ m[p + i] = m[q + i]
                          \/ lng = "cpp" /\ \E j \in 0 .. i - 1 : m[p + j] = NUL /\ m[q + j] = NUL
  <1>2. ASSUME NEW i \in 0 .. n - 1 PROVE Byt(m1, i) <=> Byt(m2, i)
    <2>1. \A j \in 0 .. i - 1 : j \in 0 .. n - 1
      OBVIOUS
    <2> QED
      BY <1>1, <2>1
  <1>3. /\ SameBytes(lng, m1, p, q, n) <=> \A i \in 0 .. n - 1 : Byt(m1, i)
        /\ SameBytes(lng, m2, p, q, n) <=> \A i \in 0 .. n - 1 : Byt(m2, i)
    BY DEF SameBytes
  <1> HIDE DEF Byt
  <1> QED
    BY <1>2, <1>3

\* One character is compared whole.
LEMMA SameOne ==
  ASSUME NEW lng, NEW m, NEW p \in Nat, NEW q \in Nat
  PROVE  SameBytes(lng, m, p, q, 1) <=> m[p] = m[q]
  <1>1. 0 .. 1 - 1 = {0} /\ 0 .. 0 - 1 = {} /\ p + 0 = p /\ q + 0 = q
    OBVIOUS
  <1> QED
    BY <1>1 DEF SameBytes

\* What a turn of the loop l makes of its source s in the memory m.
Stepped(lng, m, l, s) ==
  IF l.by = "char" THEN TillNextC(m, s, m[l.needle.buf]) ELSE TillNext(lng, m, s, l.needle)

\* A turn that finds no needle hands out the rest of the source and ends the loop.
NoneIn(lng, l, s, part, rest) ==
  /\ l.needle.len > 0
  /\ part = s
  /\ rest = Str(EndOf(s), 0)
  /\ \A p \in Addresses(s) : FoundAt(lng, l, p) => p + l.needle.len > EndOf(s)

\* One that finds it at pos goes on behind it.
OneAt(lng, l, s, part, rest, pos) ==
  /\ s.len > 0 /\ pos \in 0 .. s.len - 1
  /\ l.needle.len = 0 => pos = 0
  /\ part = Str(s.buf, pos)
  /\ rest = Str(s.buf + pos + l.needle.len, (s.len - pos) - l.needle.len)
  /\ FoundAt(lng, l, s.buf + pos)
  /\ l.needle.len > 0 => \A p \in Addresses(part) : ~FoundAt(lng, l, p)

LEMMA StepIs ==
  ASSUME NEW lng, NEW m \in Memory, NEW l, NEW s, Stands(l, s, m), s.len # 0, l.from.buf > 0
  PROVE  LET r == Stepped(lng, m, l, s) IN
         \/ NoneIn(lng, l, s, r.part, r.src)
         \/ \E pos \in 0 .. s.len - 1 : OneAt(lng, l, s, r.part, r.src, pos)
  <1> DEFINE w == l.needle
             n == l.needle.len
             r == Stepped(lng, m, l, s)
             Same(p) == SameBytes(lng, m, p, w.buf, n)
  <1>1. /\ s \in View /\ s.buf \in Nat /\ s.len \in Int /\ s.buf > 0 /\ EndOf(s) = s.buf + s.len
        /\ EndOf(s) <= M + 1 /\ s = Str(s.buf, s.len)
    <2>1. l.from \in Views /\ s \in View /\ EndOf(s) <= M + 1 /\ l.from.buf <= s.buf
      BY DEF Stands, InText
    <2> QED
      BY <2>1 DEF View, Views, EndOf, Str
  <1>2. /\ w \in Views /\ w.buf \in Nat /\ n \in Nat /\ M + 2 <= w.buf /\ w.buf + n <= K
        /\ n <= Len(Literals) /\ l.by \in {"char", "str"} /\ (l.by = "char" => n = 1)
        /\ s.len > -n
    BY DEF Stands, Needle, Views, EndOf
  <1>3. Addresses(s) = s.buf .. (s.buf + s.len) - 1
    BY <1>1 DEF Addresses
  <1>4. s.len > 0 => AgreeFrom(m, l.mem, s.buf)
    BY DEF Stands
  <1>5. \A p \in s.buf .. (s.buf + s.len) - 1 : FoundAt(lng, l, p) <=> Same(p)
    <2> SUFFICES ASSUME NEW p \in s.buf .. (s.buf + s.len) - 1
                 PROVE  FoundAt(lng, l, p) <=> Same(p)
      OBVIOUS
    <2> DEFINE q == w.buf
    <2>1. w.buf = q /\ l.needle.len = n
      OBVIOUS
    <2>2. q \in Nat /\ n \in Nat /\ M + 2 <= q /\ q + n <= K /\ n <= Len(Literals)
      BY <1>2
    <2> HIDE DEF q, n
    <2>3. p \in Nat /\ s.buf <= p /\ p <= M /\ s.len > 0
      BY <1>1, TextSize
    <2>4. s.buf <= q /\ p + n <= K + 1 /\ q + n <= K + 1
      BY <1>1, <2>2, <2>3, TextSize
    <2>5. SameBytes(lng, m, p, q, n) <=> SameBytes(lng, l.mem, p, q, n)
      BY <1>1, <1>4, <2>2, <2>3, <2>4, SameLater
    <2> QED
      BY <2>1, <2>5 DEF FoundAt, q
  <1>6. \A i \in 0 .. s.len - 1 : s.buf + i \in s.buf .. (s.buf + s.len) - 1
    BY <1>1
  <1>7. \A p \in s.buf .. (s.buf + s.len) - 1 : p - s.buf \in 0 .. s.len - 1 /\ s.buf + (p - s.buf) = p
    BY <1>1
  <1>8. \A pos \in 0 .. s.len - 1 : \A p \in Addresses(Str(s.buf, pos)) :
          p - s.buf \in 0 .. pos - 1 /\ s.buf + (p - s.buf) = p
    BY <1>1, StrFields DEF Addresses, EndOf
  \* No needle: the rest is handed out.
  <1>9. ASSUME r = Handed(s, Str(EndOf(s), 0)), n > 0,
               n <= s.len => \A i \in 0 .. s.len - 1 : ~Same(s.buf + i)
        PROVE  NoneIn(lng, l, s, r.part, r.src)
    <2>1. r.part = s /\ r.src = Str(EndOf(s), 0)
      BY <1>9 DEF Handed
    <2>2. ASSUME NEW p \in Addresses(s), FoundAt(lng, l, p)
          PROVE  p + n > EndOf(s)
      <3>1. Same(p)
        BY <1>3, <1>5, <2>2
      <3>2. p - s.buf \in 0 .. s.len - 1 /\ s.buf + (p - s.buf) = p
        BY <1>3, <1>7
      <3>3. ~(n <= s.len)
        BY <1>9, <3>1, <3>2
      <3> QED
        BY <1>1, <1>2, <1>3, <3>3
    <2> QED
      BY <1>9, <2>1, <2>2 DEF NoneIn
  \* A needle at pos.
  <1>10. ASSUME NEW pos \in 0 .. s.len - 1,
                r = Handed(Str(s.buf, pos), Str(s.buf + pos + n, (s.len - pos) - n)),
                Same(s.buf + pos), n = 0 => pos = 0,
                n > 0 => \A i \in 0 .. pos - 1 : ~Same(s.buf + i)
         PROVE  OneAt(lng, l, s, r.part, r.src, pos)
    <2>1. r.part = Str(s.buf, pos) /\ r.src = Str(s.buf + pos + n, (s.len - pos) - n)
      BY <1>10 DEF Handed
    <2>2. s.len > 0
      BY <1>1
    <2>3. FoundAt(lng, l, s.buf + pos)
      BY <1>5, <1>6, <1>10
    <2>4. ASSUME n > 0, NEW p \in Addresses(Str(s.buf, pos))
          PROVE  ~FoundAt(lng, l, p)
      <3>1. p - s.buf \in 0 .. pos - 1 /\ s.buf + (p - s.buf) = p
        BY <1>8
      <3>2. ~Same(p)
        BY <1>10, <2>4, <3>1
      <3>3. p \in s.buf .. (s.buf + s.len) - 1
        BY <1>1, <3>1
      <3> QED
        BY <1>5, <3>2, <3>3
    <2> QED
      BY <1>10, <2>1, <2>2, <2>3, <2>4 DEF OneAt
  <1>11. CASE l.by = "char"
    <2> DEFINE hits == {i \in 0 .. s.len - 1 : m[s.buf + i] = m[w.buf]}
    <2>1. n = 1 /\ r = TillNextC(m, s, m[w.buf])
      BY <1>2, <1>11 DEF Stepped
    <2>2. r = IF hits = {} THEN Handed(s, Str(EndOf(s), 0))
              ELSE Handed(StrSub(s, 0, Min(hits)), StrSub(s, Min(hits) + 1, s.len))
      BY <2>1 DEF TillNextC
    <2>3. \A i \in 0 .. s.len - 1 : i \in hits <=> Same(s.buf + i)
      BY <1>1, <1>2, <2>1, SameOne
    <2>4. CASE hits = {}
      BY <1>9, <2>1, <2>2, <2>3, <2>4
    <2>5. CASE hits # {}
      <3>1. hits \subseteq 0 .. s.len - 1 /\ hits \subseteq Nat
        OBVIOUS
      <3> DEFINE pos == Min(hits)
      <3>2. pos \in hits /\ \A i \in hits : pos <= i
        <4> HIDE DEF hits
        <4> QED
          BY <2>5, <3>1, MinIs
      <3>3. r = Handed(Str(s.buf + 0, pos - 0), Str(s.buf + (pos + 1), s.len - (pos + 1)))
        BY <2>2, <2>5 DEF StrSub
      <3> HIDE DEF pos, hits
      <3>4. pos \in 0 .. s.len - 1 /\ Same(s.buf + pos)
        BY <2>3, <3>1, <3>2
      <3>5. r = Handed(Str(s.buf, pos), Str(s.buf + pos + n, (s.len - pos) - n))
        <4>1. s.buf + 0 = s.buf /\ pos - 0 = pos /\ s.buf + (pos + 1) = s.buf + pos + n
              /\ s.len - (pos + 1) = (s.len - pos) - n
          BY <1>1, <2>1, <3>4
        <4> QED
          BY <3>3, <4>1
      <3>6. \A i \in 0 .. pos - 1 : ~Same(s.buf + i)
        <4> SUFFICES ASSUME NEW i \in 0 .. pos - 1 PROVE ~Same(s.buf + i)
          OBVIOUS
        <4>1. i \in 0 .. s.len - 1 /\ ~(pos <= i)
          BY <1>1, <3>4
        <4> QED
          BY <2>3, <3>2, <4>1
      <3> QED
        BY <1>10, <2>1, <3>4, <3>5, <3>6
    <2> QED
      BY <2>4, <2>5
  <1>12. CASE l.by = "str"
    <2> DEFINE pos == StrFind(lng, m, s, w)
    <2>1. r = IF pos < 0 THEN Handed(s, Str(EndOf(s), 0))
              ELSE Handed(Str(s.buf, pos), Str(s.buf + pos + n, (s.len - pos) - n))
      BY <1>12 DEF Stepped, TillNext
    <2>2. ~IsNull(s)
      BY <1>1 DEF IsNull
    <2>3. CASE n = 0
      <3>1. pos = 0
        BY <2>2, <2>3 DEF StrFind
      <3>2. 0 \in 0 .. s.len - 1 /\ Same(s.buf + 0)
        BY <1>1, <1>2, <2>3 DEF SameBytes
      <3> HIDE DEF pos
      <3> QED
        BY <1>10, <2>1, <2>3, <3>1, <3>2
    <2>4. CASE n > 0
      <3>1. \/ /\ pos = -1
               /\ n <= s.len => \A i \in 0 .. s.len - 1 : ~Same(s.buf + i)
            \/ /\ pos \in 0 .. s.len - 1 /\ n <= s.len
               /\ Same(s.buf + pos)
               /\ \A i \in 0 .. pos - 1 : ~Same(s.buf + i)
        BY <1>1, <1>2, <2>2, <2>4, FindIs
      <3>2. pos \in Int /\ n # 0
        BY <2>4, <3>1
      <3> HIDE DEF pos, n, r, Same
      <3>3. CASE pos = -1
        <4>1. r = Handed(s, Str(EndOf(s), 0))
          BY <2>1, <3>3
        <4>2. NoneIn(lng, l, s, r.part, r.src)
          BY <1>9, <2>4, <3>1, <3>3, <4>1
        <4> QED
          BY <4>2 DEF r
      <3>4. CASE pos # -1
        <4>1. r = Handed(Str(s.buf, pos), Str(s.buf + pos + n, (s.len - pos) - n))
          BY <2>1, <3>1, <3>4
        <4> QED
          BY <1>10, <3>1, <3>2, <3>4, <4>1 DEF r
      <3> QED
        BY <3>3, <3>4
    <2> QED
      BY <1>2, <2>3, <2>4
  <1> QED
    BY <1>2, <1>11, <1>12
\* Appending the part at the source of a loop that goes on.
Grown(lng, l, c, part, h) ==
  /\ Tiled(lng, l, h)
  /\ h # <<>> /\ Last(h) = part /\ h[1].buf = l.from.buf
  /\ Len(h) = c + 1

LEMMA AppendTiles ==
  ASSUME NEW lng, NEW l, NEW s, NEW g, NEW part \in View, s.len # 0,
         AtHand(lng, l, s, g), Tiled(lng, l, g), part.buf = s.buf, HidesNone(lng, l, part)
  PROVE  Grown(lng, l, Len(g), part, Append(g, part))
  <1> DEFINE h == Append(g, part)
  <1>1. /\ g \in Seq(View) /\ h \in Seq(View) /\ Len(h) = Len(g) + 1 /\ h[Len(g) + 1] = part
        /\ \A k \in 1 .. Len(g) : h[k] = g[k]
        /\ Len(g) \in Nat
    BY AppendIs DEF Tiled
  <1> HIDE DEF h
  <1>2. h # <<>> /\ Last(h) = part
    BY <1>1 DEF Last
  <1>3. g # <<>> => Last(g) = g[Len(g)] /\ Len(g) \in 1 .. Len(g)
    BY <1>1 DEF Last
  <1>4. Len(g) = 0 => g = <<>>
    BY <1>1
  <1>5. h[1].buf = l.from.buf
    <2>1. CASE g = <<>>
      BY <1>1, <2>1 DEF AtHand
    <2>2. CASE g # <<>>
      <3>1. 1 \in 1 .. Len(g)
        BY <1>1, <1>3, <2>2
      <3> QED
        BY <1>1, <2>2, <3>1 DEF AtHand
    <2> QED
      BY <2>1, <2>2
  <1>6. ASSUME NEW k \in 1 .. Len(h) - 1
        PROVE  h[k].len >= 0 /\ h[k + 1].buf = EndOf(h[k]) + l.needle.len /\ FoundAt(lng, l, EndOf(h[k]))
    <2>1. k \in 1 .. Len(g) /\ h[k] = g[k] /\ g # <<>>
      BY <1>1, <1>6
    <2>2. CASE k = Len(g)
      BY <1>1, <1>3, <2>1, <2>2 DEF AtHand
    <2>3. CASE k # Len(g)
      <3>1. k \in 1 .. Len(g) - 1 /\ k + 1 \in 1 .. Len(g)
        BY <1>1, <2>1, <2>3
      <3> QED
        BY <1>1, <2>1, <3>1 DEF Tiled
    <2> QED
      BY <2>2, <2>3
  <1>7. ASSUME NEW k \in 1 .. Len(h)
        PROVE  HidesNone(lng, l, h[k])
    <2>1. (k \in 1 .. Len(g) /\ h[k] = g[k]) \/ h[k] = part
      BY <1>1
    <2> QED
      BY <1>7, <2>1 DEF Tiled
  <1> QED
    BY <1>1, <1>2, <1>5, <1>6, <1>7 DEF Tiled, Grown, h

\* Where a loop with c parts stands behind a needle of n characters at pos.
LEMMA BehindNeedle ==
  ASSUME NEW sb \in Nat, NEW sl \in Int, NEW fb \in Nat, NEW fl \in Nat, NEW c \in Nat,
         NEW n \in Nat, NEW pos \in 0 .. sl - 1, sb + sl = fb + fl, fb <= sb,
         n > 0 => c <= sb - fb
  PROVE  /\ sl > 0 /\ pos \in Nat
         /\ sb + pos + n \in Nat /\ (sl - pos) - n \in Int /\ (sl - pos) - n > -n
         /\ (sb + pos + n) + ((sl - pos) - n) = fb + fl
         /\ fb <= sb + pos + n /\ sb <= sb + pos + n
         /\ n > 0 => c + 1 <= (sb + pos + n) - fb /\ c + 1 <= fl
         /\ sb + pos <= fb + fl
         /\ (fb + fl) - (sb + pos) = ((sl - pos) - n) + n
  OBVIOUS

\* A turn keeps the invariant of the loop.
LEMMA TurnTiles ==
  ASSUME NEW lng, NEW m \in Memory, NEW l, NEW s, NEW g, s.len # 0,
         Stands(l, s, m), AtHand(lng, l, s, g), Tiled(lng, l, g),
         NEW part, NEW rest,
         NoneIn(lng, l, s, part, rest) \/ \E pos \in 0 .. s.len - 1 : OneAt(lng, l, s, part, rest, pos),
         NEW h, h = IF Len(g) > M + 1 THEN g ELSE Append(g, part)
  PROVE  Stands(l, rest, m) /\ AtHand(lng, l, rest, h) /\ Tiled(lng, l, h)
  <1> DEFINE n == l.needle.len
             f == l.from
  <1>1. /\ s \in View /\ s.buf \in Nat /\ s.len \in Int /\ EndOf(s) = s.buf + s.len
        /\ f.buf \in Nat /\ f.len \in Nat /\ EndOf(f) = f.buf + f.len /\ EndOf(f) <= M + 1
        /\ EndOf(s) = EndOf(f) /\ f.buf <= s.buf /\ n \in Nat /\ (s.len > -n)
        /\ f.buf > 0 /\ M \in Nat /\ g \in Seq(View) /\ Len(g) \in Nat
    <2>1. /\ s \in View /\ f \in Views /\ EndOf(f) <= M + 1 /\ EndOf(s) = EndOf(f)
          /\ f.buf <= s.buf /\ l.needle \in Views /\ s.len > -n /\ f.buf > 0 /\ g \in Seq(View)
      BY DEF Stands, AtHand, InText, Needle, Tiled
    <2> QED
      BY <2>1, TextSize DEF View, Views, EndOf
  <1>2. n > 0 => Len(g) <= f.len
    BY DEF AtHand
  \* No needle: nothing is left.
  <1>3. CASE NoneIn(lng, l, s, part, rest)
    <2>1. part = s /\ n > 0 /\ rest = Str(EndOf(s), 0) /\ HidesNone(lng, l, part)
      BY <1>1, <1>3 DEF NoneIn, HidesNone
    <2>2. rest \in View /\ rest.buf = EndOf(f) /\ rest.len = 0 /\ EndOf(rest) = EndOf(f)
      <3>1. rest.buf = EndOf(s) /\ rest.len = 0
        BY <2>1, StrFields
      <3>2. EndOf(s) = EndOf(f) /\ EndOf(f) \in Nat /\ EndOf(f) + 0 = EndOf(f)
        BY ONLY <1>1
      <3>3. EndOf(rest) = EndOf(f)
        BY ONLY <3>1, <3>2 DEF EndOf
      <3>4. rest \in View
        <4>1. rest = [buf |-> EndOf(f), len |-> 0]
          BY <2>1, <3>2 DEF Str
        <4> QED
          BY ONLY <3>2, <4>1 DEF View
      <3> QED
        BY ONLY <3>1, <3>2, <3>3, <3>4
    <2>3. Stands(l, rest, m)
      <3>1. f.buf <= rest.buf /\ ~(rest.len > 0)
        BY <1>1, <2>2
      <3> QED
        BY <2>2, <3>1 DEF Stands
    <2>4. h = Append(g, part)
      BY <1>1, <1>2, <2>1
    <2>5. /\ Tiled(lng, l, h) /\ h # <<>> /\ Last(h) = part /\ h[1].buf = f.buf
      <3>1. part \in View /\ part.buf = s.buf
        BY <1>1, <2>1
      <3> QED
        <4>1. Grown(lng, l, Len(g), part, Append(g, part))
          BY <2>1, <3>1, AppendTiles
        <4> QED
          BY <2>4, <4>1 DEF Grown
    <2>6. AtHand(lng, l, rest, h)
      <3>1. EndOf(f) - EndOf(Last(h)) = 0 /\ EndOf(Last(h)) <= EndOf(f) /\ f.buf <= Last(h).buf
        BY <1>1, <2>1, <2>5
      <3> QED
        BY <1>1, <2>2, <2>5, <3>1 DEF AtHand
    <2> QED
      BY <2>3, <2>5, <2>6
  \* A needle: the loop goes on behind it.
  <1>4. ASSUME NEW pos \in 0 .. s.len - 1, OneAt(lng, l, s, part, rest, pos)
        PROVE  Stands(l, rest, m) /\ AtHand(lng, l, rest, h) /\ Tiled(lng, l, h)
    <2>1. /\ part = Str(s.buf, pos) /\ rest = Str(s.buf + pos + n, (s.len - pos) - n)
          /\ FoundAt(lng, l, s.buf + pos) /\ (n = 0 => pos = 0) /\ s.len > 0
          /\ HidesNone(lng, l, part)
      BY <1>4 DEF OneAt, HidesNone
    <2>2. n > 0 => Len(g) <= s.buf - f.buf
      BY <1>1, <2>1 DEF AtHand
    <2>3. AgreeFrom(m, l.mem, s.buf)
      BY <2>1 DEF Stands
    <2> DEFINE sb == s.buf
               sl == s.len
               fb == f.buf
               fl == f.len
               c == Len(g)
               b == sb + pos + n
               d == (sl - pos) - n
    <2>4. /\ sb \in Nat /\ sl \in Int /\ fb \in Nat /\ fl \in Nat /\ c \in Nat /\ n \in Nat
          /\ pos \in 0 .. sl - 1 /\ sb + sl = fb + fl /\ fb <= sb /\ (n > 0 => c <= sb - fb)
      BY <1>1, <2>2
    <2>5. /\ part.buf = sb /\ part.len = pos /\ EndOf(part) = sb + pos /\ EndOf(f) = fb + fl
          /\ rest.buf = b /\ rest.len = d /\ EndOf(rest) = b + d /\ rest = Str(b, d) /\ part = Str(sb, pos)
      BY <1>1, <2>1 DEF Str, EndOf
    <2>6. /\ sl > 0 /\ pos \in Nat /\ b \in Nat /\ d \in Int /\ d > -n /\ b + d = fb + fl
          /\ fb <= b /\ sb <= b
          /\ n > 0 => c + 1 <= b - fb /\ c + 1 <= fl
          /\ sb + pos <= fb + fl
          /\ b = (sb + pos) + n
          /\ (fb + fl) - (sb + pos) = d + n
      <3> HIDE DEF n, sb, sl, fb, fl, c
      <3> QED
        BY <2>4, BehindNeedle
    <2>6a. /\ part \in View /\ rest \in View /\ EndOf(rest) = EndOf(f)
           /\ sb = s.buf /\ sl = s.len /\ fb = f.buf /\ fl = f.len /\ c = Len(g)
      <3> HIDE DEF b, d
      <3> QED
        BY <1>1, <2>5, <2>6 DEF View, Str
    <2> HIDE DEF n, sb, sl, fb, fl, c, b, d
    <2>7. AgreeFrom(m, l.mem, rest.buf)
      BY <2>3, <2>5, <2>6, <2>6a, <2>4 DEF AgreeFrom
    <2>8. Stands(l, rest, m)
      BY <1>1, <2>4, <2>5, <2>6, <2>6a, <2>7 DEF Stands, n
    <2>9. CASE c > M + 1
      <3>1. n = 0
        BY <1>1, <1>2, <2>4, <2>9, <2>6a
      <3>2. pos = 0 /\ b = sb /\ d = sl
        BY <2>1, <2>4, <3>1 DEF b, d
      <3>3. rest = s
        BY <1>1, <2>5, <2>6a, <3>2, ViewEqual
      <3>4. h = g
        BY <2>9 DEF c
      <3> QED
        BY <2>8, <3>3, <3>4
    <2>10. CASE ~(c > M + 1)
      <3>1. h = Append(g, part)
        BY <2>10 DEF c
      <3>2. part.buf = s.buf
        BY <2>5, <2>6a
      <3>3. Tiled(lng, l, h) /\ h # <<>> /\ Last(h) = part /\ h[1].buf = f.buf /\ Len(h) = c + 1
        <4>1. part \in View /\ HidesNone(lng, l, part)
          BY <2>1, <2>6a
        <4> QED
          <5>1. Grown(lng, l, Len(g), part, Append(g, part))
            BY <3>2, <4>1, AppendTiles
          <5> QED
            BY <3>1, <5>1 DEF Grown, c
      <3>4. AtHand(lng, l, rest, h)
        <4>1. EndOf(f) - EndOf(Last(h)) = rest.len + n /\ EndOf(Last(h)) <= EndOf(f) /\ f.buf <= Last(h).buf
              /\ rest.buf = EndOf(Last(h)) + n /\ Last(h).len >= 0
          <5>1. EndOf(Last(h)) = sb + pos /\ Last(h).buf = sb /\ Last(h).len = pos
            BY <2>5, <3>3
          <5>2. EndOf(f) - (sb + pos) = d + n /\ sb + pos <= EndOf(f) /\ f.buf <= sb
            BY <1>1, <2>5, <2>6, <2>6a
          <5>3. b = (sb + pos) + n /\ pos >= 0
            BY <2>6
          <5> QED
            BY <2>5, <5>1, <5>2, <5>3
        <4>2. rest.len = 0 => EndOf(f) - EndOf(Last(h)) = n
          BY <2>4, <4>1
        <4>3. FoundAt(lng, l, EndOf(Last(h)))
          BY <2>1, <2>5, <2>6a, <3>3
        <4>4. n > 0 => Len(h) <= rest.buf - f.buf /\ Len(h) <= f.len
          BY <2>5, <2>6, <2>6a, <3>3
        <4> QED
          BY <1>1, <3>3, <4>1, <4>2, <4>3, <4>4 DEF AtHand, n
      <3> QED
        BY <2>8, <3>3, <3>4
    <2> QED
      BY <2>9, <2>10
  <1> QED
    BY <1>3, <1>4
\* A loop begins with nothing behind it.
LEMMA StartTiles ==
  ASSUME NEW lng, NEW m \in Memory, NEW s, InText(s), NEW w, Needle(w), NEW by \in {"char", "str"},
         by = "char" => w.len = 1,
         NEW l, l = [by |-> by, from |-> s, needle |-> w, mem |-> m]
  PROVE  Stands(l, s, m) /\ AtHand(lng, l, s, <<>>) /\ Tiled(lng, l, <<>>)
  <1>1. /\ s \in View /\ s.buf \in Nat /\ s.len \in Nat /\ EndOf(s) = s.buf + s.len
        /\ w.len \in Nat /\ (s.len # 0 => s.buf > 0)
    BY DEF InText, Needle, IsNull, View, Views, EndOf
  <1>2. l.by = by /\ l.from = s /\ l.needle = w /\ l.mem = m
    OBVIOUS
  <1>3. s.len > -w.len \/ s.len = 0
    BY <1>1
  <1>4. Stands(l, s, m)
    BY <1>1, <1>2, <1>3 DEF Stands, AgreeFrom
  <1>5. /\ <<>> \in Seq(View) /\ Len(<<>>) = 0 /\ 1 .. 0 - 1 = {} /\ 1 .. 0 = {}
        /\ 0 <= s.len /\ (s.len > 0 => 0 <= s.buf - s.buf)
    BY <1>1
  <1>6. AtHand(lng, l, s, <<>>)
    BY <1>1, <1>2, <1>5 DEF AtHand
  <1>7. Tiled(lng, l, <<>>)
    BY <1>5 DEF Tiled
  <1> QED
    BY <1>4, <1>6, <1>7

\* What only writes to the part at hand disturbs no loop.
LEMMA BodyTiles ==
  ASSUME NEW lng, NEW m, NEW mm, NEW l, NEW s, NEW g, g # <<>>,
         Stands(l, s, m), AtHand(lng, l, s, g), Tiled(lng, l, g),
         \A a \in 1 .. K : mm[a] = m[a] \/ a \in Addresses(Last(g))
  PROVE  Stands(l, s, mm)
  <1> SUFFICES ASSUME s.len > 0
               PROVE  AgreeFrom(mm, l.mem, s.buf)
    BY DEF Stands
  <1>1. AgreeFrom(m, l.mem, s.buf) /\ s \in View /\ l.needle.len \in Nat
    BY DEF Stands, Needle, Views
  <1>2. s.buf = EndOf(Last(g)) + l.needle.len /\ s.buf \in Nat
    BY <1>1 DEF AtHand, View
  <1>3. EndOf(Last(g)) \in Int
    <2>1. Last(g) \in View
      BY DEF Tiled, Last
    <2> QED
      BY <2>1 DEF View, EndOf
  <1>4. \A a \in 1 .. K : a >= s.buf => a \notin Addresses(Last(g))
    BY <1>1, <1>2, <1>3 DEF Addresses
  <1> QED
    BY <1>1, <1>4 DEF AgreeFrom

\* The part at hand ends in the text.
LEMMA AtHandIs ==
  ASSUME NEW lng, NEW m, NEW l, NEW s, NEW g, g # <<>>,
         Stands(l, s, m), AtHand(lng, l, s, g), Tiled(lng, l, g)
  PROVE  Last(g) \in View /\ Last(g).buf > 0 /\ EndOf(Last(g)) <= K
  <1>1. Last(g) \in View
    BY DEF Tiled, Last
  <1>2. /\ EndOf(l.from) \in Int /\ EndOf(l.from) <= M + 1 /\ l.from.buf \in Nat
        /\ EndOf(Last(g)) \in Int /\ Last(g).buf \in Nat
    BY <1>1 DEF Stands, InText, Views, View, EndOf
  <1>3. l.from.buf > 0 /\ l.from.buf <= Last(g).buf /\ EndOf(Last(g)) <= EndOf(l.from)
    BY DEF AtHand
  <1> QED
    BY <1>1, <1>2, <1>3, TextSize

----------------------------------------------------------------------------
\* Calls

LEMMA InTextIs ==
  ASSUME NEW s, InText(s)
  PROVE  s \in View /\ s \in Views /\ EndOf(s) <= K /\ (s.buf = 0 => s.len = 0) /\ s.len >= 0
  <1>1. s \in Views /\ EndOf(s) \in Int /\ EndOf(s) <= M + 1 /\ (s.buf = 0 => s.len = 0)
    BY DEF InText, IsNull, Views, EndOf
  <1> QED
    BY <1>1, TextSize DEF View, Views

\* What a call may be given lies in the text; a literal lies behind it.
LEMMA OperandsAre ==
  ASSUME TextInv, ~Looped
  PROVE  /\ \A s \in Operands : InText(s)
         /\ \A w \in Literal : Needle(w)
  <1>1. parts \in Seq(Views) /\ \A k \in 1 .. Len(parts) : InText(parts[k])
    BY DEF TextInv, Outside
  <1>2. InText(Whole)
    BY TextSize DEF Whole, Str, InText, IsNull, Views, EndOf
  <1>3. ASSUME NEW s \in Range(parts) PROVE InText(s)
    <2>1. PICK k \in DOMAIN parts : s = parts[k]
      BY <1>3 DEF Range
    <2> QED
      BY <1>1, <2>1
  <1>4. ASSUME NEW w \in Literal PROVE Needle(w)
    <2>1. mem \in Memory
      BY DEF TextInv
    <2>2. Len(mem) = K
      BY <2>1, MemoryLength
    <2> QED
      BY <1>4, <2>2, TextSize DEF Literal, Needle, Views, EndOf
  <1> QED
    BY <1>2, <1>3, <1>4 DEF Operands

\* The records of the calls.
JobOf(op, s, w, sep, room, ignore, subst, flags, m) ==
  [op |-> op, src |-> s, with |-> w, sep |-> sep, room |-> room,
   ignore |-> ignore, subst |-> subst, flags |-> flags, mem |-> m]

LEMMA JobIs ==
  ASSUME NEW op, NEW s
  PROVE  \E no \in BOOLEAN : Job(op, s) = JobOf(op, s, StrNull, NUL, 0, no, no, NoFlags, mem)
  BY DEF Job, JobOf

\* What a split of s leaves behind, wherever it is called.
LEMMA SplitAtIs ==
  ASSUME mem \in Memory, NEW s \in View, EndOf(s) <= K, s.buf = 0 => s.len = 0,
         NEW sep \in Byte, NEW room \in Nat, NEW ignore \in BOOLEAN, NEW subst \in BOOLEAN,
         SplitAt(s, sep, room, ignore, subst)
  PROVE  /\ mem' \in Memory /\ parts' \in Seq(Views)
         /\ JobFacts(lang', mem', parts', job')
         /\ \A a \in 1 .. K : mem'[a] = mem[a] \/ a \in Addresses(s)
         /\ \A k \in DOMAIN parts' : s.buf <= parts'[k].buf /\ EndOf(parts'[k]) <= EndOf(s)
  <1> DEFINE r == SplitC(lang, mem, s, sep, room, ignore, subst)
             j == [op |-> "split", src |-> s, with |-> StrNull, sep |-> sep, room |-> room,
                   ignore |-> ignore, subst |-> subst, flags |-> NoFlags, mem |-> mem]
  <1>1. SplitFacts(lang, mem, s, sep, room, ignore, subst, r.parts, r.mem)
    <2> HIDE DEF r
    <2> QED
      BY SplitIs DEF r
  <1>2. parts' = r.parts /\ mem' = r.mem /\ lang' = lang
    BY DEF SplitAt
  <1>3. job' = j
    <2>1. PICK no \in BOOLEAN :
            Job("split", s) = JobOf("split", s, StrNull, NUL, 0, no, no, NoFlags, mem)
      BY JobIs
    <2> DEFINE j0 == Job("split", s)
               j1 == [j0 EXCEPT !.sep = sep]
               j2 == [j1 EXCEPT !.room = room]
               j3 == [j2 EXCEPT !.ignore = ignore]
    <2>2. job' = [j3 EXCEPT !.subst = subst]
      BY DEF SplitAt
    <2>3. j = JobOf("split", s, StrNull, sep, room, ignore, subst, NoFlags, mem)
      BY DEF JobOf
    <2> HIDE DEF j, j0
    <2>4. j1 = JobOf("split", s, StrNull, sep, 0, no, no, NoFlags, mem)
      BY <2>1 DEF JobOf, j0
    <2> HIDE DEF j1
    <2>5. j2 = JobOf("split", s, StrNull, sep, room, no, no, NoFlags, mem)
      BY <2>4 DEF JobOf
    <2> HIDE DEF j2
    <2>6. j3 = JobOf("split", s, StrNull, sep, room, ignore, no, NoFlags, mem)
      BY <2>5 DEF JobOf
    <2> HIDE DEF j3
    <2> QED
      BY <2>2, <2>3, <2>6 DEF JobOf
  <1> HIDE DEF r
  <1>4. SplitFacts(lang', mem, s, sep, room, ignore, subst, parts', mem')
    BY <1>1, <1>2
  <1>5. j \in Jobs
    <2>1. StrNull \in Views
      BY DEF StrNull, Str, Views
    <2> QED
      BY <2>1 DEF Jobs
  <1>6. JobFacts(lang', mem', parts', j)
    BY <1>4, <1>5 DEF JobFacts, JobSplit, IsNull
  <1> QED
    BY <1>3, <1>4, <1>6 DEF SplitFacts, Writes
\* A view within one of the text is one of the text.
LEMMA WithinText ==
  ASSUME NEW s, InText(s), NEW t \in Views, s.buf <= t.buf, EndOf(t) <= EndOf(s)
  PROVE  InText(t)
  <1>1. /\ s.buf \in Nat /\ s.len \in Nat /\ t.buf \in Nat /\ t.len \in Nat
        /\ EndOf(s) = s.buf + s.len /\ EndOf(t) = t.buf + t.len
        /\ EndOf(s) <= M + 1 /\ (s.buf = 0 => s.len = 0)
    BY DEF InText, IsNull, Views, EndOf
  <1>2. EndOf(t) <= M + 1 /\ (t.buf = 0 => t.len = 0)
    BY <1>1, TextSize
  <1> QED
    BY <1>2 DEF InText, IsNull

\* A trim keeps a view of the text one, and the characters that are to stay.
LEMMA TrimInText ==
  ASSUME NEW m, NEW s, InText(s), NEW flags
  PROVE  LET t == Trim(m, s, flags) IN
         /\ t \in Views /\ InText(t)
         /\ \A a \in Addresses(t) : a \in Addresses(s)
         /\ \A a \in Addresses(s) : m[a] \notin flags.blank => a \in Addresses(t)
         /\ (\E a \in Addresses(t) : m[a] \notin flags.blank) =>
              /\ flags.left => m[t.buf] \notin flags.blank
              /\ flags.right => m[EndOf(t) - 1] \notin flags.blank
  <1> DEFINE t == Trim(m, s, flags)
  <1>1. s \in View /\ s \in Views /\ s.len >= 0
    BY InTextIs
  <1>2. t = Trim(m, s, flags)
    OBVIOUS
  <1> HIDE DEF t
  <1>3. /\ t \in View /\ s.buf <= t.buf /\ EndOf(t) <= EndOf(s) /\ t.len >= 0
        /\ \A a \in Addresses(s) : m[a] \notin flags.blank => a \in Addresses(t)
        /\ (\E a \in Addresses(t) : m[a] \notin flags.blank) =>
             /\ flags.left => m[t.buf] \notin flags.blank
             /\ flags.right => m[EndOf(t) - 1] \notin flags.blank
    BY <1>1, <1>2, TrimIs
  <1>4. t \in Views
    BY <1>3 DEF View, Views
  <1>5. InText(t)
    BY <1>3, <1>4, WithinText
  <1>6. \A a \in Addresses(t) : a \in Addresses(s)
    <2>1. t.buf \in Nat /\ s.buf \in Nat /\ EndOf(t) \in Int /\ EndOf(s) \in Int
      BY <1>1, <1>4 DEF Views, EndOf
    <2> QED
      BY <1>3, <2>1 DEF Addresses
  <1> QED
    BY <1>3, <1>4, <1>5, <1>6 DEF t

AllInText(ps) == \A k \in 1 .. Len(ps) : InText(ps[k])

\* Trims after a split leave out separators and trimmed characters only.
LEMMA TrimsAre ==
  ASSUME NEW m, NEW mm, NEW s \in View, EndOf(s) <= K, IsNull(s) => s.len = 0,
         NEW sep, NEW room, NEW subst, NEW flags,
         NEW ps \in Seq(Views), AllInText(ps),
         Covers(m, s, sep, room, ps), Writes(m, s, sep, subst, mm),
         NEW qs, qs = [k \in DOMAIN ps |-> Trim(mm, ps[k], flags)]
  PROVE  qs \in Seq(Views) /\ AllInText(qs) /\ TrimFacts(m, mm, s, sep, room, flags, qs)
  <1>1. DOMAIN ps = 1 .. Len(ps) /\ Len(ps) \in Nat
    OBVIOUS
  <1>2. \A k \in 1 .. Len(ps) :
          /\ qs[k] \in Views /\ InText(qs[k])
          /\ \A a \in Addresses(qs[k]) : a \in Addresses(ps[k])
          /\ \A a \in Addresses(ps[k]) : mm[a] \notin flags.blank => a \in Addresses(qs[k])
          /\ (\E a \in Addresses(qs[k]) : mm[a] \notin flags.blank) =>
               /\ flags.left => mm[qs[k].buf] \notin flags.blank
               /\ flags.right => mm[EndOf(qs[k]) - 1] \notin flags.blank
    <2> SUFFICES ASSUME NEW k \in 1 .. Len(ps)
                 PROVE  /\ qs[k] \in Views /\ InText(qs[k])
                        /\ \A a \in Addresses(qs[k]) : a \in Addresses(ps[k])
                        /\ \A a \in Addresses(ps[k]) : mm[a] \notin flags.blank => a \in Addresses(qs[k])
                        /\ (\E a \in Addresses(qs[k]) : mm[a] \notin flags.blank) =>
                             /\ flags.left => mm[qs[k].buf] \notin flags.blank
                             /\ flags.right => mm[EndOf(qs[k]) - 1] \notin flags.blank
      OBVIOUS
    <2> DEFINE p == ps[k]
               q == qs[k]
    <2>1. InText(p) /\ q = Trim(mm, p, flags)
      BY <1>1 DEF AllInText
    <2> HIDE DEF p, q
    <2>2. /\ q \in Views /\ InText(q)
          /\ \A a \in Addresses(q) : a \in Addresses(p)
          /\ \A a \in Addresses(p) : mm[a] \notin flags.blank => a \in Addresses(q)
          /\ (\E a \in Addresses(q) : mm[a] \notin flags.blank) =>
               /\ flags.left => mm[q.buf] \notin flags.blank
               /\ flags.right => mm[EndOf(q) - 1] \notin flags.blank
      BY <2>1, TrimInText
    <2> QED
      BY <2>2, Zenon DEF p, q
  <1>3. DOMAIN qs = 1 .. Len(ps) /\ \A k \in 1 .. Len(ps) : qs[k] \in Views
    BY <1>1, <1>2
  <1>4. qs \in Seq(Views) /\ Len(qs) = Len(ps)
    <2>1. qs \in [1 .. Len(ps) -> Views]
      BY <1>1, <1>3
    <2> QED
      BY <1>1, <2>1
  <1>5. ASSUME Len(ps) < room, NEW a \in Addresses(s), m[a] \notin flags.blank \cup {sep}
        PROVE  \E k \in 1 .. Len(ps) : {j \in 1 .. Len(ps) : a \in Addresses(qs[j])} = {k}
    <2>1. PICK k \in 1 .. Len(ps) : {j \in 1 .. Len(ps) : a \in Addresses(ps[j])} = {k}
      BY <1>1, <1>5 DEF Covers
    <2>2. mm[a] = m[a]
      <3>1. a \in 1 .. K
        BY <1>5, TextSize DEF Addresses, View, EndOf, IsNull
      <3> QED
        BY <1>5, <3>1 DEF Writes
    <2>3. k \in {j \in 1 .. Len(ps) : a \in Addresses(ps[j])}
      BY <2>1
    <2>4. a \in Addresses(qs[k])
      BY <1>2, <1>5, <2>2, <2>3
    <2>5. \A j \in 1 .. Len(ps) : a \in Addresses(qs[j]) => j = k
      BY <1>2, <2>1
    <2> QED
      BY <2>4, <2>5
  <1>6. TrimFacts(m, mm, s, sep, room, flags, qs)
    BY <1>2, <1>3, <1>4, <1>5 DEF TrimFacts
  <1> QED
    BY <1>2, <1>4, <1>6 DEF AllInText
----------------------------------------------------------------------------
\* The steps

LEMMA TextInit == Init => TextInv
  <1> SUFFICES ASSUME Init PROVE TextInv
    OBVIOUS
  <1>1. mem \in Memory
    <2>1. PICK text \in [1 .. M -> Char] : mem = text \o <<NUL>> \o Literals \o <<NUL>>
      BY DEF Init
    <2>2. text \in Seq(Byte) /\ Len(text) = M /\ Literals \in Seq(Byte) /\ <<NUL>> \in Seq(Byte)
          /\ Len(<<NUL>>) = 1
      <3>1. M \in Nat /\ Literals \in Seq(Char) /\ Char \subseteq Byte /\ NUL \in Byte
        BY TextAssumption DEF Byte
      <3>2. \A k \in 1 .. Len(Literals) : Literals[k] \in Byte
        BY <3>1
      <3>3. text \in [1 .. M -> Byte] /\ Literals \in [1 .. Len(Literals) -> Byte]
        BY <3>1, <3>2
      <3> HIDE DEF Byte
      <3>4. text \in Seq(Byte) /\ Len(text) = M
        BY <3>1, <3>3
      <3>5. Literals \in Seq(Byte)
        BY <3>1, <3>2
      <3> QED
        BY <3>1, <3>4, <3>5
    <2>3. mem \in Seq(Byte) /\ Len(mem) = K
      <3>1. text \o <<NUL>> \in Seq(Byte) /\ Len(text \o <<NUL>>) = M + 1
        BY <2>2, TextSize
      <3> DEFINE a == text \o <<NUL>>
      <3> HIDE DEF a
      <3>2. a \o Literals \in Seq(Byte) /\ Len(a \o Literals) = M + 1 + Len(Literals)
        BY <2>2, <3>1, TextSize DEF a
      <3> DEFINE b == a \o Literals
      <3> HIDE DEF b
      <3>3. b \o <<NUL>> \in Seq(Byte) /\ Len(b \o <<NUL>>) = M + 1 + Len(Literals) + 1
        BY <2>2, <3>2, TextSize DEF b
      <3>4. M + 1 + Len(Literals) + 1 = K
        BY TextSize
      <3> QED
        BY <2>1, <3>3, <3>4 DEF a, b
    <2>4. mem \in [1 .. K -> Byte]
      BY <2>3
    <2> QED
      BY <2>4 DEF Memory
  <1>2. loop = NoLoop /\ src = StrNull /\ got = <<>> /\ parts = <<>> /\ job.op = "none"
    BY DEF Init
  <1>3. ~Looped
    BY <1>2 DEF Looped, NoLoop
  <1>4. Outside(loop, src, got, parts)
    BY <1>2 DEF Outside
  <1>5. JobFacts(lang, mem, parts, job)
    BY <1>2 DEF JobFacts
  <1> QED
    BY <1>1, <1>3, <1>4, <1>5 DEF TextInv

\* Seps, the newline and the sizes of the arrays are what a split takes.
LEMMA SplitTakes ==
  /\ \A sep \in Seps \cup {Newline} : sep \in Byte
  /\ \A room \in Rooms : room \in Nat
  BY TextAssumption DEF Byte

LEMMA SplitKeeps ==
  ASSUME TextInv, ~Looped, NEW s \in Operands, Split(s)
  PROVE  TextInv'
  <1>1. PICK sep \in Seps \cup {Newline}, room \in Rooms, ignore \in BOOLEAN, subst \in BOOLEAN :
          SplitAt(s, sep, room, ignore, subst)
    BY DEF Split, SplitLines
  <1>2. InText(s)
    BY OperandsAre
  <1>3. mem \in Memory /\ Outside(loop, src, got, parts)
    BY DEF TextInv
  <1>4. /\ mem' \in Memory /\ parts' \in Seq(Views)
        /\ JobFacts(lang', mem', parts', job')
        /\ \A k \in DOMAIN parts' : s.buf <= parts'[k].buf /\ EndOf(parts'[k]) <= EndOf(s)
    <2>1. s \in View /\ EndOf(s) <= K /\ (s.buf = 0 => s.len = 0) /\ sep \in Byte /\ room \in Nat
      BY <1>1, <1>2, InTextIs, SplitTakes
    <2> QED
      BY <1>1, <1>3, <2>1, SplitAtIs
  <1>5. UNCHANGED <<loop, src, got>>
    BY <1>1 DEF SplitAt
  <1>6. \A k \in 1 .. Len(parts') : InText(parts'[k])
    <2> SUFFICES ASSUME NEW k \in 1 .. Len(parts') PROVE InText(parts'[k])
      OBVIOUS
    <2>1. parts'[k] \in Views /\ s.buf <= parts'[k].buf /\ EndOf(parts'[k]) <= EndOf(s)
      BY <1>4
    <2> QED
      BY <1>2, <2>1, WithinText
  <1> QED
    BY <1>3, <1>4, <1>5, <1>6 DEF TextInv, Looped, Outside

LEMMA TrimKeeps ==
  ASSUME TextInv, ~Looped, NEW flags \in Flags, TrimAll(flags)
  PROVE  TextInv'
  <1>1. /\ job.op = "split"
        /\ parts' = [k \in DOMAIN parts |-> Trim(mem, parts[k], flags)]
        /\ job' = [job EXCEPT !.op = "trim", !.flags = flags]
        /\ UNCHANGED <<lang, mem, loop, src, got>>
    BY DEF TrimAll
  <1>2. mem \in Memory /\ Outside(loop, src, got, parts) /\ JobSplit(lang, mem, parts, job)
    BY <1>1 DEF TextInv, JobFacts
  <1>3. /\ job \in Jobs /\ EndOf(job.src) <= K /\ (IsNull(job.src) => job.src.len = 0)
        /\ Covers(job.mem, job.src, job.sep, job.room, parts)
        /\ Writes(job.mem, job.src, job.sep, job.subst, mem)
    BY <1>2 DEF JobSplit, SplitFacts
  <1>4. /\ job' \in Jobs /\ job'.op = "trim" /\ job'.flags = flags /\ job'.src = job.src
        /\ job'.sep = job.sep /\ job'.room = job.room /\ job'.mem = job.mem
    BY <1>1, <1>3 DEF Jobs
  <1>5. job.src \in View
    BY <1>3 DEF Jobs
  <1>6. parts \in Seq(Views) /\ \A k \in 1 .. Len(parts) : InText(parts[k])
    BY <1>2 DEF Outside
  <1>7. /\ parts' \in Seq(Views) /\ \A k \in 1 .. Len(parts') : InText(parts'[k])
        /\ TrimFacts(job.mem, mem, job.src, job.sep, job.room, flags, parts')
    <2> DEFINE qs == [k \in DOMAIN parts |-> Trim(mem, parts[k], flags)]
    <2>1. AllInText(parts)
      BY <1>6 DEF AllInText
    <2>2. parts' = qs /\ qs = [k \in DOMAIN parts |-> Trim(mem, parts[k], flags)]
      BY <1>1
    <2> HIDE DEF qs
    <2>3. qs \in Seq(Views) /\ AllInText(qs) /\ TrimFacts(job.mem, mem, job.src, job.sep, job.room, flags, qs)
      BY <1>3, <1>5, <1>6, <2>1, <2>2, TrimsAre
    <2> QED
      BY <2>2, <2>3 DEF AllInText
  <1>8. JobFacts(lang', mem', parts', job')
    <2>1. mem' = mem
      BY <1>1
    <2> QED
      BY <1>4, <1>7, <2>1 DEF JobFacts, JobTrim
  <1> QED
    BY <1>1, <1>2, <1>7, <1>8 DEF TextInv, Looped, Outside

LEMMA PairKeeps ==
  ASSUME TextInv, ~Looped, NEW s \in Operands, NEW sep \in Seps, NEW flags \in Flags,
         Pair(s, sep, flags)
  PROVE  TextInv'
  <1>1. InText(s) /\ s \in Views
    BY OperandsAre, InTextIs
  <1>2. /\ parts' = SplitPair(mem, s, sep, flags)
        /\ job' = [Job("pair", s) EXCEPT !.sep = sep, !.flags = flags]
        /\ UNCHANGED <<lang, mem, loop, src, got>>
    BY DEF Pair
  <1>3. PICK a \in Views, b \in Views :
          /\ SplitPair(mem, s, sep, flags) = <<a, b>>
          /\ InText(a) /\ InText(b)
          /\ PairFacts(mem, s, sep, flags.blank, a, b)
    BY <1>1, PairIs
  <1>4. job' = JobOf("pair", s, StrNull, sep, 0, job'.ignore, job'.subst, flags, mem)
    <2>1. PICK no \in BOOLEAN :
            Job("pair", s) = JobOf("pair", s, StrNull, NUL, 0, no, no, NoFlags, mem)
      BY JobIs
    <2> DEFINE j0 == Job("pair", s)
               j1 == [j0 EXCEPT !.sep = sep]
    <2>2. job' = [j1 EXCEPT !.flags = flags]
      BY <1>2
    <2> HIDE DEF j0
    <2>3. j1 = JobOf("pair", s, StrNull, sep, 0, no, no, NoFlags, mem)
      BY <2>1 DEF JobOf, j0
    <2> HIDE DEF j1
    <2>4. job' = JobOf("pair", s, StrNull, sep, 0, no, no, flags, mem)
      BY <2>2, <2>3 DEF JobOf
    <2> QED
      BY <2>4 DEF JobOf
  <1>5. job'.op = "pair" /\ job'.src = s /\ job'.sep = sep /\ job'.flags = flags
    BY <1>4 DEF JobOf
  <1>6. parts'[1] = a /\ parts'[2] = b /\ parts' \in Seq(Views) /\ Len(parts') = 2
    BY <1>2, <1>3
  <1>7. \A k \in 1 .. Len(parts') : InText(parts'[k])
    BY <1>3, <1>6
  <1>8. JobFacts(lang', mem', parts', job')
    BY <1>2, <1>3, <1>5, <1>6 DEF JobFacts
  <1> QED
    BY <1>2, <1>6, <1>7, <1>8 DEF TextInv, Looped, Outside

LEMMA CompareKeeps ==
  ASSUME TextInv, ~Looped, NEW s \in Operands, NEW w \in Operands \cup Literal, Compare(s, w)
  PROVE  TextInv'
  <1>1. InText(s) /\ s \in Views /\ w \in Views /\ (IsNull(w) => w.len = 0)
    <2>1. CASE w \in Operands
      BY <2>1, OperandsAre, InTextIs DEF IsNull
    <2>2. CASE w \in Literal
      <3>1. M + 2 <= w.buf /\ w \in Views
        BY <2>2, OperandsAre DEF Needle
      <3> QED
        BY <3>1, OperandsAre, InTextIs, TextSize DEF IsNull
    <2> QED
      BY <2>1, <2>2
  <1>2. Agree(lang, mem, s, w)
    BY <1>1, Agreement DEF InText
  <1>3. /\ job' = [Job("compare", s) EXCEPT !.with = w]
        /\ UNCHANGED <<lang, mem, parts, loop, src, got>>
    BY DEF Compare
  <1>4. job'.op = "compare" /\ job'.src = s /\ job'.with = w
    <2>1. PICK no \in BOOLEAN :
            Job("compare", s) = JobOf("compare", s, StrNull, NUL, 0, no, no, NoFlags, mem)
      BY JobIs
    <2> QED
      BY <1>3, <2>1 DEF JobOf
  <1>5. JobFacts(lang', mem', parts', job')
    BY <1>2, <1>3, <1>4 DEF JobFacts
  <1> QED
    BY <1>3, <1>5 DEF TextInv, Looped, Outside

LEMMA StartKeeps ==
  ASSUME TextInv, ~Looped, NEW s \in Operands, NEW by \in {"char", "str"}, NEW w \in Literal,
         StartLoop(s, by, w)
  PROVE  TextInv'
  <1>1. InText(s) /\ Needle(w) /\ mem \in Memory
    BY OperandsAre DEF TextInv
  <1>2. /\ by = "char" => w.len = 1
        /\ loop' = [by |-> by, from |-> s, needle |-> w, mem |-> mem]
        /\ src' = s /\ got' = <<>> /\ job'.op = "none"
        /\ UNCHANGED <<lang, mem>>
    BY DEF StartLoop
  <1>3. Stands(loop', s, mem) /\ AtHand(lang, loop', s, <<>>) /\ Tiled(lang, loop', <<>>)
    BY <1>1, <1>2, StartTiles
  <1>4. Looped'
    BY <1>2 DEF Looped
  <1>5. JobFacts(lang', mem', parts', job')
    BY <1>2 DEF JobFacts
  <1> QED
    BY <1>1, <1>2, <1>3, <1>4, <1>5 DEF TextInv

LEMMA TurnHolds ==
  ASSUME TextInv, Looped, Turn
  PROVE  TextInv'
  <1> DEFINE r == Stepped(lang, mem, loop, src)
  <1>1. /\ mem \in Memory /\ Stands(loop, src, mem) /\ AtHand(lang, loop, src, got)
        /\ Tiled(lang, loop, got)
    BY DEF TextInv
  <1>2. /\ src.len # 0
        /\ src' = r.src
        /\ got' = IF Len(got) > M + 1 THEN got ELSE Append(got, r.part)
        /\ job'.op = "none"
        /\ UNCHANGED <<lang, mem, loop>>
    BY DEF Turn, Step, Stepped, InLoop
  <1>3. loop.from.buf > 0
    BY <1>1, <1>2 DEF AtHand
  <1>4. \/ NoneIn(lang, loop, src, r.part, r.src)
        \/ \E pos \in 0 .. src.len - 1 : OneAt(lang, loop, src, r.part, r.src, pos)
    BY <1>1, <1>2, <1>3, StepIs
  <1> HIDE DEF r
  <1>5. Stands(loop, src', mem) /\ AtHand(lang, loop, src', got') /\ Tiled(lang, loop, got')
    <2> DEFINE h == IF Len(got) > M + 1 THEN got ELSE Append(got, r.part)
    <2>1. got' = h /\ h = IF Len(got) > M + 1 THEN got ELSE Append(got, r.part)
      BY <1>2
    <2> HIDE DEF h
    <2>2. Stands(loop, r.src, mem) /\ AtHand(lang, loop, r.src, h) /\ Tiled(lang, loop, h)
      BY <1>1, <1>2, <1>4, <2>1, TurnTiles
    <2> QED
      BY <1>2, <2>1, <2>2
  <1>6. JobFacts(lang', mem', parts', job')
    BY <1>2 DEF JobFacts
  <1> QED
    BY <1>1, <1>2, <1>5, <1>6 DEF TextInv, Looped

LEMMA BodyKeeps ==
  ASSUME TextInv, Looped, Body
  PROVE  TextInv'
  <1>1. PICK s \in PartAtHand, sep \in Seps, room \in Rooms, ignore \in BOOLEAN :
          SplitAt(s, sep, room, ignore, TRUE)
    BY DEF Body
  <1>2. got # <<>> /\ s = Last(got)
    BY <1>1 DEF PartAtHand
  <1>3. /\ mem \in Memory /\ Stands(loop, src, mem) /\ AtHand(lang, loop, src, got)
        /\ Tiled(lang, loop, got)
    BY DEF TextInv
  <1>4. s \in View /\ s.buf > 0 /\ EndOf(s) <= K
    BY <1>2, <1>3, AtHandIs
  <1>5. /\ mem' \in Memory /\ JobFacts(lang', mem', parts', job')
        /\ \A a \in 1 .. K : mem'[a] = mem[a] \/ a \in Addresses(s)
    <2>1. sep \in Byte /\ room \in Nat /\ (s.buf = 0 => s.len = 0)
      BY <1>4, SplitTakes
    <2> DEFINE yes == TRUE
    <2>2. yes \in BOOLEAN /\ SplitAt(s, sep, room, ignore, yes)
      BY <1>1
    <2> HIDE DEF yes
    <2> QED
      BY <1>3, <1>4, <2>1, <2>2, SplitAtIs
  <1>6. UNCHANGED <<lang, loop, src, got>>
    BY <1>1 DEF SplitAt
  <1>7. Stands(loop, src, mem')
    BY <1>2, <1>3, <1>5, BodyTiles
  <1> QED
    BY <1>3, <1>5, <1>6, <1>7 DEF TextInv, Looped

\* The invariant is inductive.
LEMMA TextNext == TextInv /\ [Next]_vars => TextInv'
  <1> SUFFICES ASSUME TextInv, [Next]_vars PROVE TextInv'
    OBVIOUS
  <1>1. CASE ~Looped /\ Call
    BY <1>1, SplitKeeps, PairKeeps, CompareKeeps, StartKeeps DEF Call
  <1>2. CASE ~Looped /\ \E flags \in Flags : TrimAll(flags)
    BY <1>2, TrimKeeps
  <1>3. CASE Looped /\ Turn
    BY <1>3, TurnHolds
  <1>4. CASE Looped /\ Body
    BY <1>4, BodyKeeps
  <1>5. CASE UNCHANGED vars
    BY <1>5 DEF TextInv, Looped, vars
  <1> QED
    BY <1>1, <1>2, <1>3, <1>4, <1>5 DEF Next

LEMMA TextHolds == Spec => []TextInv
  BY TextInit, TextNext, PTL DEF Spec
----------------------------------------------------------------------------
\* The theorems

LEMMA MinOfTwo ==
  ASSUME NEW a \in Nat, NEW b \in Nat
  PROVE  Min({a, b}) = IF a <= b THEN a ELSE b
  <1>1. {a, b} \subseteq Nat /\ {a, b} # {}
    OBVIOUS
  <1>2. Min({a, b}) \in {a, b} /\ \A x \in {a, b} : Min({a, b}) <= x
    BY <1>1, MinIs
  <1> QED
    BY <1>2

LEMMA SplitIsExact == TextInv => SplitExact
  <1> SUFFICES ASSUME TextInv, job.op = "split" PROVE SplitExact
    BY DEF SplitExact
  <1> DEFINE wanted == Wanted(job.mem, job.src, job.sep, job.ignore)
  <1>1. JobSplit(lang, mem, parts, job)
    BY DEF TextInv, JobFacts
  <1>2. wanted = WantedIn(lang, job.mem, job.src, job.sep, job.ignore)
    BY DEF Wanted, WantedIn
  <1>3. parts \in Seq(Views) /\ Exact(wanted, job.room, parts) /\ job.room \in Nat
    BY <1>1, <1>2 DEF JobSplit, SplitFacts, Jobs
  <1>4. wanted = Wanted(job.mem, job.src, job.sep, job.ignore)
    OBVIOUS
  <1> HIDE DEF wanted
  <1>5. Len(parts) = Min({job.room, Cardinality(wanted)})
    BY <1>3, MinOfTwo DEF Exact
  <1>6. Range(parts) \subseteq wanted
    BY <1>3 DEF Exact, Range
  <1>7. \A k \in DOMAIN parts, w \in wanted :
          w.buf < parts[k].buf => \E j \in 1 .. k - 1 : parts[j] = w
    BY <1>3 DEF Exact
  <1> QED
    BY <1>4, <1>5, <1>6, <1>7 DEF SplitExact

\* A split hands out exactly the stretches between the separators that are
\* wanted, in order, or the first maxlen of them (str_splitc, str.h:278-308).
THEOREM SplitsExact == Spec => []SplitExact
  BY TextHolds, SplitIsExact, PTL

LEMMA SplitTerminates == TextInv => SubstituteTerminates
  <1> SUFFICES ASSUME TextInv, job.op = "split" PROVE SubstituteTerminates
    BY DEF SubstituteTerminates
  <1>1. JobSplit(lang, mem, parts, job) /\ mem \in Memory
    BY DEF TextInv, JobFacts
  <1>2. /\ Writes(job.mem, job.src, job.sep, job.subst, mem)
        /\ Terminates(job.src, job.room, job.subst, parts, mem)
    BY <1>1 DEF JobSplit, SplitFacts
  <1>3. DOMAIN mem = 1 .. K
    BY <1>1, MemoryLength
  <1> QED
    BY <1>2, <1>3 DEF SubstituteTerminates, Writes, Terminates

\* After a split with SPLIT_SUBSTITUTE_NULL the parts end with NUL, and a split
\* writes to nothing but the separators of its source (str.h:287-289).
THEOREM SubstitutesTerminate == Spec => []SubstituteTerminates
  BY TextHolds, SplitTerminates, PTL

LEMMA TrimKeepsAll == TextInv => TrimKeepsContent
  <1> SUFFICES ASSUME TextInv PROVE TrimKeepsContent
    OBVIOUS
  <1>1. ASSUME job.op \in {"split", "trim"}, Len(parts) < job.room, NEW a \in Addresses(job.src),
               job.mem[a] \notin job.flags.blank \cup {job.sep}
        PROVE  Cardinality({k \in DOMAIN parts : a \in Addresses(parts[k])}) = 1
    <2>1. \E k \in DOMAIN parts : {j \in DOMAIN parts : a \in Addresses(parts[j])} = {k}
      <3>1. CASE job.op = "split"
        <4>1. Covers(job.mem, job.src, job.sep, job.room, parts)
          BY <3>1 DEF TextInv, JobFacts, JobSplit, SplitFacts
        <4> QED
          BY <1>1, <4>1 DEF Covers
      <3>2. CASE job.op = "trim"
        <4>1. TrimFacts(job.mem, mem, job.src, job.sep, job.room, job.flags, parts)
          BY <3>2 DEF TextInv, JobFacts, JobTrim
        <4> QED
          BY <1>1, <4>1 DEF TrimFacts
      <3> QED
        BY <1>1, <3>1, <3>2
    <2> QED
      BY <2>1, FS_Singleton
  <1>2. ASSUME job.op = "trim", NEW s \in Range(parts), \E a \in Addresses(s) : mem[a] \notin job.flags.blank
        PROVE  /\ job.flags.left => mem[s.buf] \notin job.flags.blank
               /\ job.flags.right => mem[EndOf(s) - 1] \notin job.flags.blank
    <2>1. TrimFacts(job.mem, mem, job.src, job.sep, job.room, job.flags, parts)
      BY <1>2 DEF TextInv, JobFacts, JobTrim
    <2>2. PICK k \in DOMAIN parts : s = parts[k]
      BY <1>2 DEF Range
    <2> QED
      BY <1>2, <2>1, <2>2 DEF TrimFacts
  <1>3. ASSUME job.op = "pair"
        PROVE  PairTellsMissing(job.src, parts[1], parts[2])
    BY <1>3 DEF TextInv, JobFacts, PairFacts, PairTellsMissing
  <1> QED
    BY <1>1, <1>2, <1>3 DEF TrimKeepsContent

\* Nothing but separators and trimmed characters is lost by a split and a trim
\* of its parts, nothing but its separator by a pair, and nothing is in two parts
\* (str_trim, str_split_pair, str.h:198-268).
THEOREM TrimsKeepContent == Spec => []TrimKeepsContent
  BY TextHolds, TrimKeepsAll, PTL

LEMMA CompareAgrees == TextInv => ComparesAgree
  BY DEF TextInv, JobFacts, Agree, ComparesAgree

\* str_equal, str_startswith, str_endswith and str_find answer what the bytes of
\* their operands say, whatever these are (str.h:106-190).
THEOREM ComparisonsAgree == Spec => []ComparesAgree
  BY TextHolds, CompareAgrees, PTL

LEMMA LoopIsTiled == TextInv => LoopTiles
  <1> SUFFICES ASSUME TextInv PROVE LoopTiles
    OBVIOUS
  <1>1. CASE ~Looped
    <2>1. src = StrNull /\ got = <<>> /\ loop = NoLoop
      BY <1>1 DEF TextInv, Outside
    <2>2. src.len = 0 /\ Len(got) = 0
      BY <2>1 DEF StrNull, Str
    <2>3. 1 .. Len(got) - 1 = {} /\ DOMAIN got = {}
      BY <2>1, <2>2
    <2> QED
      BY <2>1, <2>2, <2>3 DEF LoopTiles
  <1>2. CASE Looped
    <2>1. Stands(loop, src, mem) /\ AtHand(lang, loop, src, got) /\ Tiled(lang, loop, got)
      BY <1>2 DEF TextInv
    <2>2. src.len > -loop.needle.len \/ src.len = 0
      BY <2>1 DEF Stands
    <2>3. got # <<>> => /\ got[1].buf = loop.from.buf
                        /\ src.len # 0 => src.buf = EndOf(Last(got)) + loop.needle.len
                        /\ src.len = 0 => EndOf(loop.from) - EndOf(Last(got)) \in {0, loop.needle.len}
      BY <2>1 DEF AtHand
    <2>4. \A k \in 1 .. Len(got) - 1 :
            /\ got[k].len >= 0
            /\ got[k + 1].buf = EndOf(got[k]) + loop.needle.len
            /\ SameBytes(lang, loop.mem, EndOf(got[k]), loop.needle.buf, loop.needle.len)
      BY <2>1 DEF Tiled, FoundAt
    <2>5. loop.needle.len > 0 => \A k \in DOMAIN got : \A p \in Addresses(got[k]) :
            SameBytes(lang, loop.mem, p, loop.needle.buf, loop.needle.len)
              => p + loop.needle.len > EndOf(loop.from)
      <3>1. DOMAIN got = 1 .. Len(got)
        BY <2>1 DEF Tiled
      <3> QED
        BY <2>1, <3>1 DEF Tiled, HidesNone, FoundAt
    <2> QED
      BY <2>2, <2>3, <2>4, <2>5, Zenon DEF LoopTiles
  <1> QED
    BY <1>1, <1>2

\* The parts of a loop and the needles between them tile its source as it was,
\* whatever its body splits, and no part hides a needle (str_till_next,
\* str.h:320-352).
THEOREM LoopsTile == Spec => []LoopTiles
  BY TextHolds, LoopIsTiled, PTL
============================================================================
