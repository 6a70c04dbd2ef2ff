-------------------------- MODULE ProgramsProofs --------------------------
(* Proofs about the harness of TestSuite, for any list of cases, any filters *)
(* and any number of checks; and about Programs, for any table of options,   *)
(* words and calls: what is proved of the harness holds while its cases      *)
(* parse arguments, each turn of the loop of args_parse takes getopt         *)
(* further, what a parse leaves is what its words mean, read from left to    *)
(* right, and mdcode does what its command line says.                        *)
EXTENDS Programs, SequenceTheorems, NatLemmas

----------------------------------------------------------------------------
\* The inductive invariant

Count == [pass : Nat, total : Nat]
Filter == Filters \cup {NoFilter}

\* What test_suite_start makes of a filter.
InForce(filter) == IF filter.bad THEN NoFilter ELSE filter

SuiteTypes ==
  /\ suite \in [cases : Count, checks : Count, total : Count,
                filter : Filter]
  /\ at \in {"start", "between", "body", "exited"}
  /\ next \in 1 .. Len(Cases) + 1
  /\ log \in [returns : BOOLEAN, filter : Filter, checks : Seq([in : Nat, ok : BOOLEAN]),
              ended : SUBSET Nat, lost : SUBSET Nat]

\* The filter is the one that was given, and the cases before the next one are
\* dealt with.
Progress ==
  /\ suite.filter = InForce(log.filter)
  /\ at = "start" => next = 1
  /\ at = "body" => next <= Len(Cases) /\ Selected(suite.filter, Cases[next])
  /\ at = "exited" => next = Len(Cases) + 1
  /\ log.ended \cup log.lost = {k \in 1 .. next - 1 : Selected(suite.filter, Cases[k])}

\* A check belongs to the case whose body is running, or to one before it.
ChecksPlaced ==
  \A c \in DOMAIN log.checks :
    /\ log.checks[c].in <= next
    /\ log.checks[c].in = next => at = "body"

\* Counters that are equal say that nothing failed: the counter of the checks for
\* the case that is running, the counter of the cases for those that ended.
CountersTell ==
  /\ suite.cases.pass <= suite.cases.total
  /\ suite.cases.pass = suite.cases.total <=> \A k \in log.ended : ~Failing(k)
  /\ at = "body" => /\ suite.checks.pass <= suite.checks.total
                    /\ suite.checks.pass = suite.checks.total <=> ~Failing(next)
  /\ (at = "exited" /\ log.returns) =>
       (status = 0 <=> suite.cases.pass = suite.cases.total)

SuiteInv == SuiteTypes /\ Progress /\ ChecksPlaced /\ CountersTell

----------------------------------------------------------------------------
\* Steps

LEMMA ElementOf ==
  ASSUME NEW S, NEW s \in Seq(S), NEW i \in DOMAIN s
  PROVE  s[i] \in S
  OBVIOUS

LEMMA CheckType ==
  ASSUME SuiteTypes, NEW c \in DOMAIN log.checks
  PROVE  log.checks[c].in \in Nat
  <1>1. log.checks \in Seq([in : Nat, ok : BOOLEAN])
    BY DEF SuiteTypes
  <1>2. log.checks[c] \in [in : Nat, ok : BOOLEAN]
    BY <1>1, ElementOf
  <1> QED
    BY <1>2

\* The cases up to the n-th that are selected.
LEMMA UpTo ==
  ASSUME NEW n \in Nat \ {0}, NEW filter
  PROVE  {k \in 1 .. n : Selected(filter, Cases[k])} =
           {k \in 1 .. n - 1 : Selected(filter, Cases[k])}
             \cup IF Selected(filter, Cases[n]) THEN {n} ELSE {}
  <1>1. 1 .. n = (1 .. n - 1) \cup {n}
    OBVIOUS
  <1> QED
    BY <1>1

\* One case more is dealt with; no check belongs to the one after it yet.
LEMMA NextCase ==
  ASSUME SuiteInv, next \in Nat, at' = "between", next' = next + 1,
         log'.checks = log.checks, log'.filter = log.filter,
         suite'.filter = suite.filter,
         log'.ended \cup log'.lost =
           log.ended \cup log.lost \cup IF Selected(suite.filter, Cases[next]) THEN {next} ELSE {}
  PROVE  Progress' /\ ChecksPlaced'
  <1>0. next \in Nat \ {0} /\ next + 1 - 1 = next
    BY CasesAssumption DEF SuiteInv, SuiteTypes
  <1>1. log'.ended \cup log'.lost = {k \in 1 .. next : Selected(suite.filter, Cases[k])}
    BY <1>0, UpTo DEF SuiteInv, Progress
  <1>2. Progress'
    BY <1>0, <1>1 DEF SuiteInv, Progress
  <1>3. ASSUME NEW c \in DOMAIN log.checks
        PROVE  log.checks[c].in <= next + 1 /\ log.checks[c].in # next + 1
    <2>1. log.checks[c].in \in Nat /\ log.checks[c].in <= next
      BY CheckType DEF SuiteInv, ChecksPlaced
    <2> QED
      BY <1>0, <2>1
  <1>4. ChecksPlaced'
    BY <1>3 DEF ChecksPlaced
  <1> QED
    BY <1>2, <1>4

LEMMA SuiteInitHolds == SuiteInit => SuiteInv
  <1> SUFFICES ASSUME SuiteInit PROVE SuiteInv
    OBVIOUS
  <1>0. Len(Cases) \in Nat
    BY CasesAssumption
  <1>1. NoFilter.bad = FALSE /\ NoFilter \in Filter
    BY DEF NoFilter, Filter
  <1>2. SuiteTypes
    BY <1>0, <1>1 DEF SuiteInit, SuiteTypes, Count, Zero
  <1>3. Progress
    BY <1>0, <1>1 DEF SuiteInit, Progress, InForce
  <1>4. ChecksPlaced
    BY DEF SuiteInit, ChecksPlaced
  <1>5. CountersTell
    BY DEF SuiteInit, CountersTell, Zero
  <1> QED
    BY <1>2, <1>3, <1>4, <1>5 DEF SuiteInv

LEMMA SuiteStartKeeps ==
  ASSUME SuiteInv, NEW filter \in Filter, SuiteStart(filter)
  PROVE  SuiteInv'
  <1>0. Len(Cases) \in Nat /\ NoFilter \in Filter
    BY CasesAssumption DEF Filter
  <1>1. SuiteTypes'
    BY <1>0 DEF SuiteInv, SuiteTypes, SuiteStart
  <1>2. suite'.filter = InForce(filter) /\ log'.filter = filter
        /\ log'.ended = log.ended /\ log'.lost = log.lost /\ log'.checks = log.checks
        /\ suite'.cases = suite.cases /\ suite'.checks = suite.checks
    BY DEF SuiteInv, SuiteTypes, SuiteStart, InForce
  <1>3. Progress'
    BY <1>0, <1>2 DEF SuiteInv, Progress, SuiteStart, SuiteTypes
  <1>4. ChecksPlaced'
    BY <1>2 DEF SuiteInv, ChecksPlaced, SuiteStart
  <1>5. CountersTell'
    BY <1>2 DEF SuiteInv, CountersTell, SuiteStart, Failing
  <1> QED
    BY <1>1, <1>3, <1>4, <1>5 DEF SuiteInv

LEMMA CaseStartKeeps ==
  ASSUME SuiteInv, CaseStart
  PROVE  SuiteInv'
  <1>0. Len(Cases) \in Nat
    BY CasesAssumption
  <1>1. SuiteTypes'
    BY <1>0 DEF SuiteInv, SuiteTypes, CaseStart, Count, Zero
  <1>2. suite'.filter = suite.filter /\ suite'.cases = suite.cases /\ suite'.checks = Zero /\ log' = log
    BY DEF SuiteInv, SuiteTypes, CaseStart
  <1>3. Progress' /\ ChecksPlaced'
    <2>1. CASE Selected(suite.filter, Cases[next])
      <3>1. at' = "body" /\ next' = next /\ next <= Len(Cases)
        BY <2>1 DEF CaseStart
      <3> QED
        BY <1>2, <2>1, <3>1 DEF SuiteInv, Progress, ChecksPlaced
    <2>2. CASE ~Selected(suite.filter, Cases[next])
      <3>1. at' = "between" /\ next' = next + 1 /\ next \in Nat
        BY <1>0, <2>2 DEF CaseStart, SuiteInv, SuiteTypes
      <3> QED
        BY <1>2, <2>2, <3>1, NextCase
    <2> QED
      BY <2>1, <2>2
  <1>4. ~Failing(next)
    BY DEF SuiteInv, ChecksPlaced, CaseStart, Failing
  <1>5. CountersTell'
    BY <1>2, <1>4 DEF SuiteInv, CountersTell, CaseStart, Failing, Zero
  <1> QED
    BY <1>1, <1>3, <1>5 DEF SuiteInv

LEMMA CaseBreakKeeps ==
  ASSUME SuiteInv, CaseBreak
  PROVE  SuiteInv'
  <1>0. Len(Cases) \in Nat /\ next \in Nat
    BY CasesAssumption DEF SuiteInv, SuiteTypes
  <1>1. SuiteTypes'
    BY <1>0 DEF SuiteInv, SuiteTypes, CaseBreak, Progress
  <1>2. log'.filter = log.filter /\ log'.ended = log.ended /\ log'.lost = log.lost \cup {next}
        /\ log'.checks = log.checks /\ suite' = suite /\ at' = "between" /\ next' = next + 1
    BY DEF SuiteInv, SuiteTypes, CaseBreak
  <1>3. Selected(suite.filter, Cases[next])
    BY DEF SuiteInv, Progress, CaseBreak
  <1>4. Progress' /\ ChecksPlaced'
    BY <1>0, <1>2, <1>3, NextCase
  <1>5. CountersTell'
    <2>1. next \notin log.ended
      BY <1>0 DEF SuiteInv, Progress
    <2> QED
      BY <1>2, <2>1 DEF SuiteInv, CountersTell, CaseBreak, Failing
  <1> QED
    BY <1>1, <1>4, <1>5 DEF SuiteInv

LEMMA CaseEndKeeps ==
  ASSUME SuiteInv, CaseEnd
  PROVE  SuiteInv'
  <1> DEFINE ok == suite.checks.pass = suite.checks.total
             won == IF ok THEN 1 ELSE 0
  <1>0. /\ Len(Cases) \in Nat /\ at = "body" /\ next <= Len(Cases) /\ next \in Nat
        /\ suite.cases.pass \in Nat /\ suite.cases.total \in Nat
        /\ suite.checks.pass \in Nat /\ suite.checks.total \in Nat
        /\ suite.total.pass \in Nat /\ suite.total.total \in Nat
    BY CasesAssumption DEF SuiteInv, SuiteTypes, Progress, CaseEnd, Count
  <1>1. /\ suite'.cases = [pass |-> suite.cases.pass + won, total |-> suite.cases.total + 1]
        /\ suite'.checks = Zero
        /\ suite'.total = [pass |-> suite.total.pass + suite.checks.pass,
                           total |-> suite.total.total + suite.checks.total]
        /\ suite'.filter = suite.filter
        /\ suite' = [cases |-> suite'.cases, checks |-> suite'.checks, total |-> suite'.total,
                     filter |-> suite'.filter]
    BY DEF SuiteInv, SuiteTypes, CaseEnd, Finished
  <1>2. /\ log'.filter = log.filter /\ log'.ended = log.ended \cup {next} /\ log'.lost = log.lost
        /\ log'.checks = log.checks /\ log'.returns = log.returns
        /\ at' = "between" /\ next' = next + 1
    BY DEF SuiteInv, SuiteTypes, CaseEnd
  <1>3. SuiteTypes'
    <2>1. log' \in [returns : BOOLEAN, filter : Filter, checks : Seq([in : Nat, ok : BOOLEAN]),
                    ended : SUBSET Nat, lost : SUBSET Nat]
      BY <1>0 DEF SuiteInv, SuiteTypes, CaseEnd
    <2>2. suite'.cases \in Count /\ suite'.checks \in Count /\ suite'.total \in Count
      <3>1. won \in Nat
        OBVIOUS
      <3>2. ASSUME NEW p \in Nat, NEW t \in Nat PROVE [pass |-> p, total |-> t] \in Count
        BY DEF Count
      <3>3. suite.cases.pass + won \in Nat
        BY <1>0, <3>1
      <3>4. suite.cases.total + 1 \in Nat /\ suite.total.pass + suite.checks.pass \in Nat
            /\ suite.total.total + suite.checks.total \in Nat
        <4>1. ASSUME NEW x \in Nat, NEW y \in Nat PROVE x + y \in Nat /\ x + 1 \in Nat
          OBVIOUS
        <4> QED
          BY <1>0, <4>1, Zenon
      <3> HIDE DEF won
      <3> QED
        BY <1>1, <3>2, <3>3, <3>4 DEF Zero
    <2>3. suite'.filter \in Filter
      BY <1>1 DEF SuiteInv, SuiteTypes
    <2>4. suite' \in [cases : Count, checks : Count, total : Count, filter : Filter]
      BY <1>1, <2>2, <2>3
    <2> QED
      BY <1>0, <1>2, <2>1, <2>4 DEF SuiteTypes
  <1>4. Progress' /\ ChecksPlaced'
    <2>1. Selected(suite.filter, Cases[next])
      BY <1>0 DEF SuiteInv, Progress
    <2> QED
      BY <1>0, <1>1, <1>2, <2>1, NextCase
  <1>5. CountersTell'
    <2>1. ok <=> ~Failing(next)
      BY <1>0 DEF SuiteInv, CountersTell
    <2>2. suite.cases.pass <= suite.cases.total
          /\ (suite.cases.pass = suite.cases.total <=> \A k \in log.ended : ~Failing(k))
      BY DEF SuiteInv, CountersTell
    <2>3. \A k : Failing(k)' <=> Failing(k)
      BY <1>2 DEF Failing
    <2>4. CASE ok
      <3>1. suite'.cases.pass = suite.cases.pass + 1 /\ suite'.cases.total = suite.cases.total + 1
        BY <1>1, <2>4
      <3> QED
        BY <1>0, <1>2, <2>1, <2>2, <2>3, <2>4, <3>1 DEF CountersTell
    <2>5. CASE ~ok
      <3>1. suite'.cases.pass = suite.cases.pass /\ suite'.cases.total = suite.cases.total + 1
        BY <1>0, <1>1, <2>5
      <3> QED
        BY <1>0, <1>2, <2>1, <2>2, <2>3, <2>5, <3>1 DEF CountersTell
    <2> QED
      BY <2>4, <2>5
  <1> QED
    BY <1>3, <1>4, <1>5 DEF SuiteInv

LEMMA CheckKeeps ==
  ASSUME SuiteInv, NEW ok \in BOOLEAN, Check(ok)
  PROVE  SuiteInv'
  <1> DEFINE here == IF at = "body" THEN next ELSE 0
             entry == [in |-> here, ok |-> ok]
             n == Len(log.checks)
  <1>0. /\ log.checks \in Seq([in : Nat, ok : BOOLEAN]) /\ next \in Nat /\ next >= 1
        /\ suite.checks.pass \in Nat /\ suite.checks.total \in Nat
        /\ here \in Nat /\ entry \in [in : Nat, ok : BOOLEAN]
    BY CasesAssumption DEF SuiteInv, SuiteTypes, Count
  <1>1. /\ suite' = [suite EXCEPT !.checks = suite'.checks]
        /\ suite'.checks = [pass |-> suite.checks.pass + IF ok THEN 1 ELSE 0,
                            total |-> suite.checks.total + 1]
        /\ suite'.cases = suite.cases /\ suite'.filter = suite.filter
    BY DEF SuiteInv, SuiteTypes, Check
  <1>2. /\ log' = [log EXCEPT !.checks = log'.checks] /\ log'.checks = Append(log.checks, entry)
        /\ log'.filter = log.filter /\ log'.ended = log.ended /\ log'.lost = log.lost
        /\ log'.returns = log.returns
        /\ at' = at /\ next' = next /\ status' = status /\ at \in {"between", "body"}
    BY DEF SuiteInv, SuiteTypes, Check
  <1>3. /\ DOMAIN log'.checks = 1 .. n + 1 /\ DOMAIN log.checks = 1 .. n /\ n \in Nat
        /\ \A c \in 1 .. n : log'.checks[c] = log.checks[c]
        /\ log'.checks[n + 1] = entry
    BY <1>0, <1>2
  <1>4. SuiteTypes'
    <2>1. suite'.checks \in Count
      BY <1>0, <1>1 DEF Count
    <2>2. log'.checks \in Seq([in : Nat, ok : BOOLEAN])
      BY <1>0, <1>2
    <2>3. suite' \in [cases : Count, checks : Count, total : Count, filter : Filter]
      BY <1>1, <2>1 DEF SuiteInv, SuiteTypes
    <2>4. log' \in [returns : BOOLEAN, filter : Filter, checks : Seq([in : Nat, ok : BOOLEAN]),
                    ended : SUBSET Nat, lost : SUBSET Nat]
      BY <1>2, <2>2 DEF SuiteInv, SuiteTypes
    <2> QED
      BY <1>2, <2>3, <2>4 DEF SuiteInv, SuiteTypes
  <1>5. Progress'
    BY <1>1, <1>2 DEF SuiteInv, Progress
  <1>6. ChecksPlaced'
    <2> SUFFICES ASSUME NEW c \in 1 .. n + 1
                 PROVE  log'.checks[c].in <= next /\ (log'.checks[c].in = next => at = "body")
      BY <1>2, <1>3 DEF ChecksPlaced
    <2>1. CASE c = n + 1
      BY <1>0, <1>3, <2>1
    <2>2. CASE c \in 1 .. n
      BY <1>3, <2>2 DEF SuiteInv, ChecksPlaced
    <2> QED
      BY <1>3, <2>1, <2>2
  <1>7. \A k : Failing(k)' <=> (Failing(k) \/ (here = k /\ ~ok))
    BY <1>3 DEF Failing
  <1>8. \A k \in log.ended : k # here
    <2>1. \A k \in log.ended : k \in 1 .. next - 1
      BY DEF SuiteInv, Progress
    <2> QED
      BY <1>0, <2>1
  <1>9. CountersTell'
    <2>1. \A k \in log.ended : Failing(k)' <=> Failing(k)
      BY <1>7, <1>8
    <2>2. at = "body" => (Failing(next)' <=> (Failing(next) \/ ~ok))
      <3>1. Failing(next)' <=> \E c \in DOMAIN log'.checks :
                                log'.checks[c].in = next' /\ ~log'.checks[c].ok
        BY DEF Failing
      <3> QED
        BY <1>2, <1>3, <3>1 DEF Failing
    <2>3. at = "body" => /\ suite.checks.pass <= suite.checks.total
                         /\ suite.checks.pass = suite.checks.total <=> ~Failing(next)
      BY DEF SuiteInv, CountersTell
    <2>4. CASE ok
      <3>1. suite'.checks.pass = suite.checks.pass + 1 /\ suite'.checks.total = suite.checks.total + 1
        BY <1>1, <2>4
      <3> QED
        BY <1>0, <1>1, <1>2, <2>1, <2>2, <2>3, <2>4, <3>1 DEF SuiteInv, CountersTell
    <2>5. CASE ~ok
      <3>1. suite'.checks.pass = suite.checks.pass /\ suite'.checks.total = suite.checks.total + 1
        BY <1>0, <1>1, <2>5
      <3> QED
        BY <1>0, <1>1, <1>2, <2>1, <2>2, <2>3, <2>5, <3>1 DEF SuiteInv, CountersTell
    <2> QED
      BY <2>4, <2>5
  <1> QED
    BY <1>4, <1>5, <1>6, <1>9 DEF SuiteInv

LEMMA SuiteEndKeeps ==
  ASSUME SuiteInv, SuiteFinish \/ SuiteDrop
  PROVE  SuiteInv'
  <1>0. Len(Cases) \in Nat /\ next = Len(Cases) + 1
    BY CasesAssumption DEF SuiteInv, SuiteTypes, SuiteFinish, SuiteDrop
  <1>1. SuiteTypes' /\ Progress' /\ ChecksPlaced'
    BY <1>0 DEF SuiteInv, SuiteTypes, Progress, ChecksPlaced, SuiteFinish, SuiteDrop
  <1>2. CountersTell'
    BY DEF SuiteInv, CountersTell, SuiteFinish, SuiteDrop, Failing
  <1> QED
    BY <1>1, <1>2 DEF SuiteInv

LEMMA SuiteStep == SuiteInv /\ [SuiteNext]_suiteVars => SuiteInv'
  <1>1. ASSUME SuiteInv, UNCHANGED suiteVars
        PROVE  SuiteInv'
    BY <1>1
    DEF SuiteInv, SuiteTypes, Progress, ChecksPlaced, CountersTell, Failing, suiteVars
  <1> QED
    BY <1>1, SuiteStartKeeps, CaseStartKeeps, CheckKeeps, CaseEndKeeps, CaseBreakKeeps,
       SuiteEndKeeps
    DEF SuiteNext, Filter

LEMMA SuiteInvTells == SuiteInv => StatusTellsFailure
  <1> SUFFICES ASSUME SuiteInv, at = "exited", log.returns
                 PROVE  /\ (status = 0) <=> \A k \in log.ended : ~Failing(k)
                      /\ log.ended \cup log.lost =
                           {k \in DOMAIN Cases : log.filter.bad \/ Selected(log.filter, Cases[k])}
    BY DEF StatusTellsFailure
  <1>1. (status = 0) <=> \A k \in log.ended : ~Failing(k)
    BY DEF SuiteInv, CountersTell
  <1>2. DOMAIN Cases = 1 .. next - 1
    BY CasesAssumption DEF SuiteInv, Progress
  <1>3. \A k \in DOMAIN Cases :
          Selected(suite.filter, Cases[k]) <=> log.filter.bad \/ Selected(log.filter, Cases[k])
    BY DEF SuiteInv, Progress, InForce, Selected, NoFilter
  <1>4. log.ended \cup log.lost = {k \in 1 .. next - 1 : Selected(suite.filter, Cases[k])}
    BY DEF SuiteInv, Progress
  <1> QED
    BY <1>1, <1>2, <1>3, <1>4

----------------------------------------------------------------------------
\* What is counted

\* The checks made in the body of a case, and the cases that passed.
Of(k) == {c \in DOMAIN log.checks : log.checks[c].in = k}
Passed == {k \in log.ended : ~Failing(k)}

\* The counters at any time: the totals are those of the cases that ended, and
\* the counter of the checks has those of the case whose body is running.
SuiteCounts ==
  /\ suite.total.total = Cardinality(Counted)
  /\ suite.total.pass = Cardinality(Passing(Counted))
  /\ suite.cases.total = Cardinality(log.ended)
  /\ suite.cases.pass = Cardinality(Passed)
  /\ at = "body" => /\ suite.checks.total = Cardinality(Of(next))
                    /\ suite.checks.pass = Cardinality(Passing(Of(next)))

\* The sets that are counted are finite, and the next case is not among those
\* that ended.
LEMMA FiniteLog ==
  ASSUME SuiteInv
  PROVE  /\ \A S \in SUBSET DOMAIN log.checks : IsFiniteSet(S)
         /\ \A S \in SUBSET log.ended : IsFiniteSet(S)
         /\ next \notin log.ended /\ 0 \notin log.ended
  <1>1. log.checks \in Seq([in : Nat, ok : BOOLEAN]) /\ next \in Nat
    BY CasesAssumption DEF SuiteInv, SuiteTypes
  <1>2. log.ended \subseteq 1 .. next - 1
    BY DEF SuiteInv, Progress
  <1>3. IsFiniteSet(DOMAIN log.checks)
    <2>1. DOMAIN log.checks = 1 .. Len(log.checks) /\ Len(log.checks) \in Int
      BY <1>1
    <2>2. IsFiniteSet(1 .. Len(log.checks))
      BY <2>1, FS_Interval
    <2> QED
      BY <2>1, <2>2
  <1>4. IsFiniteSet(log.ended)
    <2>1. next - 1 \in Int
      BY <1>1
    <2>2. IsFiniteSet(1 .. next - 1)
      BY <2>1, FS_Interval
    <2> QED
      BY <1>2, <2>2, FS_Subset
  <1> QED
    BY <1>1, <1>2, <1>3, <1>4, FS_Subset

LEMMA DisjointUnion ==
  ASSUME NEW S, NEW T, IsFiniteSet(S), IsFiniteSet(T), S \cap T = {}
  PROVE  Cardinality(S \cup T) = Cardinality(S) + Cardinality(T)
  <1>1. Cardinality(S \cap T) = 0
    BY FS_EmptySet
  <1>2. Cardinality(S) \in Nat /\ Cardinality(T) \in Nat
    BY FS_CardinalityType
  <1>3. Cardinality(S \cup T) = Cardinality(S) + Cardinality(T) - Cardinality(S \cap T)
    BY FS_Union
  <1> QED
    BY <1>1, <1>2, <1>3

\* A case that ends brings in its checks, and itself.
LEMMA CaseEndCounts ==
  ASSUME SuiteInv, SuiteCounts, CaseEnd
  PROVE  SuiteCounts'
  <1> DEFINE ok == suite.checks.pass = suite.checks.total
             won == IF ok THEN 1 ELSE 0
             mine == Of(next)
  <1>0. at = "body" /\ (ok <=> ~Failing(next))
    BY DEF SuiteInv, CountersTell, CaseEnd
  <1>1. /\ suite'.cases = [pass |-> suite.cases.pass + won, total |-> suite.cases.total + 1]
        /\ suite'.total = [pass |-> suite.total.pass + suite.checks.pass,
                           total |-> suite.total.total + suite.checks.total]
    BY DEF SuiteInv, SuiteTypes, CaseEnd, Finished
  <1>2. log'.ended = log.ended \cup {next} /\ log'.checks = log.checks /\ at' = "between"
    BY DEF SuiteInv, SuiteTypes, CaseEnd
  <1>3. Counted' = Counted \cup mine /\ Counted \cap mine = {}
    <2>1. next \notin log.ended
      BY FiniteLog
    <2> QED
      BY <1>2, <2>1 DEF Counted, Of
  <1>4. /\ Passing(Counted)' = Passing(Counted) \cup Passing(mine)
        /\ Passing(Counted) \cap Passing(mine) = {}
    <2>1. Passing(Counted)' = {c \in Counted' : log.checks[c].ok}
      BY <1>2 DEF Passing
    <2> HIDE DEF mine
    <2> QED
      BY <1>3, <2>1 DEF Passing
  <1>5. Passed' = Passed \cup (IF ok THEN {next} ELSE {})
    <2>1. \A k : Failing(k)' <=> Failing(k)
      BY <1>2 DEF Failing
    <2> QED
      BY <1>0, <1>2, <2>1 DEF Passed
  <1>6. /\ IsFiniteSet(Counted) /\ IsFiniteSet(mine) /\ IsFiniteSet(Passing(Counted))
        /\ IsFiniteSet(Passing(mine)) /\ IsFiniteSet(log.ended) /\ IsFiniteSet(Passed)
    BY FiniteLog DEF Counted, Of, Passing, Passed
  <1>7. suite'.total.total = Cardinality(Counted') /\ suite'.total.pass = Cardinality(Passing(Counted)')
    <2> HIDE DEF mine
    <2>1. Cardinality(Counted') = Cardinality(Counted) + Cardinality(mine)
      BY <1>3, <1>6, DisjointUnion
    <2>2. Cardinality(Passing(Counted)') = Cardinality(Passing(Counted)) + Cardinality(Passing(mine))
      BY <1>4, <1>6, DisjointUnion
    <2> QED
      BY <1>0, <1>1, <2>1, <2>2 DEF SuiteCounts, mine
  <1>8. suite'.cases.total = Cardinality(log'.ended)
    <2>1. Cardinality(log.ended \cup {next}) = Cardinality(log.ended) + 1
      BY <1>6, FiniteLog, FS_AddElement
    <2> QED
      BY <1>1, <1>2, <2>1 DEF SuiteCounts
  <1>9. suite'.cases.pass = Cardinality(Passed')
    <2>1. next \notin Passed
      BY FiniteLog DEF Passed
    <2>2. CASE ok
      <3>1. Cardinality(Passed') = Cardinality(Passed) + 1
        BY <1>5, <1>6, <2>1, <2>2, FS_AddElement
      <3> QED
        BY <1>1, <2>2, <3>1 DEF SuiteCounts
    <2>3. CASE ~ok
      <3>1. Passed' = Passed
        BY <1>5, <2>3
      <3>2. suite.cases.pass \in Nat
        BY DEF SuiteInv, SuiteTypes, Count
      <3> QED
        BY <1>1, <2>3, <3>1, <3>2 DEF SuiteCounts
    <2> QED
      BY <2>2, <2>3
  <1> QED
    BY <1>2, <1>7, <1>8, <1>9 DEF SuiteCounts

\* A check counts for the case that is running, and for none that ended.
LEMMA CheckCounts ==
  ASSUME SuiteInv, SuiteCounts, NEW ok \in BOOLEAN, Check(ok)
  PROVE  SuiteCounts'
  <1> DEFINE here == IF at = "body" THEN next ELSE 0
             n == Len(log.checks)
             won == IF ok THEN 1 ELSE 0
  <1>0. log.checks \in Seq([in : Nat, ok : BOOLEAN]) /\ next \in Nat /\ here \notin log.ended
    BY CasesAssumption, FiniteLog DEF SuiteInv, SuiteTypes
  <1>1. /\ suite'.checks = [pass |-> suite.checks.pass + won, total |-> suite.checks.total + 1]
        /\ suite'.cases = suite.cases /\ suite'.total = suite.total
    BY DEF SuiteInv, SuiteTypes, Check
  <1>2. /\ log'.checks = Append(log.checks, [in |-> here, ok |-> ok]) /\ log'.ended = log.ended
        /\ at' = at /\ next' = next
    BY DEF SuiteInv, SuiteTypes, Check
  <1>3. /\ DOMAIN log'.checks = DOMAIN log.checks \cup {n + 1} /\ n + 1 \notin DOMAIN log.checks
        /\ \A c \in DOMAIN log.checks : log'.checks[c] = log.checks[c]
        /\ log'.checks[n + 1].in = here /\ log'.checks[n + 1].ok = ok
    BY <1>0, <1>2
  <1>4. Counted' = Counted
    BY <1>0, <1>2, <1>3 DEF Counted
  <1>5. Passing(Counted)' = Passing(Counted)
    <2>1. Passing(Counted)' = {c \in Counted' : log'.checks[c].ok}
      BY DEF Passing
    <2> QED
      BY <1>3, <1>4, <2>1 DEF Passing, Counted
  <1>6. Passed' = Passed
    <2>1. \A k \in log.ended : Failing(k)' <=> Failing(k)
      BY <1>0, <1>3 DEF Failing
    <2> QED
      BY <1>2, <2>1 DEF Passed
  <1>7. ASSUME at = "body"
        PROVE  /\ suite'.checks.total = Cardinality(Of(next)')
               /\ suite'.checks.pass = Cardinality(Passing(Of(next))')
    <2> DEFINE mine == Of(next)
    <2>1. Of(next)' = mine \cup {n + 1} /\ n + 1 \notin mine
      BY <1>2, <1>3, <1>7 DEF Of
    <2>2. Passing(Of(next))' = Passing(mine) \cup (IF ok THEN {n + 1} ELSE {})
      <3>1. Passing(Of(next))' = {c \in Of(next)' : log'.checks[c].ok}
        BY DEF Passing
      <3>2. mine \subseteq DOMAIN log.checks
        BY DEF Of
      <3> HIDE DEF mine
      <3> QED
        BY <1>3, <2>1, <3>1, <3>2 DEF Passing
    <2>3. IsFiniteSet(mine) /\ IsFiniteSet(Passing(mine)) /\ n + 1 \notin Passing(mine)
      BY <2>1, FiniteLog DEF Of, Passing
    <2>4. Cardinality(Of(next)') = suite.checks.total + 1
      BY <1>7, <2>1, <2>3, FS_AddElement DEF SuiteCounts
    <2>5. Cardinality(Passing(Of(next))') = suite.checks.pass + won
      <3>1. suite.checks.pass = Cardinality(Passing(mine)) /\ suite.checks.pass \in Nat
        BY <1>7 DEF SuiteCounts, SuiteInv, SuiteTypes, Count
      <3>2. CASE ok
        <4>1. Cardinality(Passing(mine) \cup {n + 1}) = Cardinality(Passing(mine)) + 1
          BY <2>3, FS_AddElement
        <4> QED
          BY <2>2, <3>1, <3>2, <4>1
      <3>3. CASE ~ok
        <4>1. Passing(Of(next))' = Passing(mine)
          BY <2>2, <3>3
        <4> QED
          BY <3>1, <3>3, <4>1
      <3> QED
        BY <3>2, <3>3
    <2> QED
      BY <1>1, <2>4, <2>5
  <1> QED
    BY <1>1, <1>2, <1>4, <1>5, <1>6, <1>7 DEF SuiteCounts

LEMMA CountsInit == SuiteInit => SuiteCounts
  <1> SUFFICES ASSUME SuiteInit PROVE SuiteCounts
    OBVIOUS
  <1>1. Counted = {} /\ Passing(Counted) = {} /\ Passed = {} /\ log.ended = {}
    BY DEF SuiteInit, Counted, Passing, Passed
  <1> QED
    BY <1>1, FS_EmptySet DEF SuiteInit, SuiteCounts, Zero

\* The other steps count nothing; a body starts without checks.
LEMMA CountsStep == SuiteInv /\ SuiteCounts /\ [SuiteNext]_suiteVars => SuiteCounts'
  <1> SUFFICES ASSUME SuiteInv, SuiteCounts, [SuiteNext]_suiteVars PROVE SuiteCounts'
    OBVIOUS
  <1>1. ASSUME log'.checks = log.checks, log'.ended = log.ended
        PROVE  /\ Counted' = Counted /\ Passing(Counted)' = Passing(Counted) /\ Passed' = Passed
               /\ next' = next => Of(next)' = Of(next) /\ Passing(Of(next))' = Passing(Of(next))
    <2>1. Counted' = Counted
      BY <1>1 DEF Counted
    <2>2. Passing(Counted)' = Passing(Counted)
      <3>1. Passing(Counted)' = {c \in Counted' : log'.checks[c].ok}
        BY DEF Passing
      <3> QED
        BY <1>1, <2>1, <3>1 DEF Passing
    <2>3. Passed' = Passed
      BY <1>1 DEF Passed, Failing
    <2>4. next' = next => Of(next)' = Of(next)
      BY <1>1 DEF Of
    <2>5. Passing(Of(next))' = {c \in Of(next)' : log'.checks[c].ok}
      BY DEF Passing
    <2> QED
      BY <1>1, <2>1, <2>2, <2>3, <2>4, <2>5 DEF Passing
  <1>2. ASSUME NEW filter, SuiteStart(filter)
        PROVE  SuiteCounts'
    BY <1>1, <1>2 DEF SuiteStart, SuiteCounts, SuiteInv, SuiteTypes
  <1>3. CASE CaseStart
    <2>1. log' = log /\ suite'.total = suite.total /\ suite'.cases = suite.cases
          /\ suite'.checks = Zero
      BY <1>3 DEF CaseStart, SuiteInv, SuiteTypes
    <2>2. ASSUME at' = "body"
          PROVE  Of(next)' = {} /\ Passing(Of(next))' = {}
      <3>1. next' = next /\ at = "between"
        BY <1>3, <2>2 DEF CaseStart
      <3>2. Of(next)' = {}
        BY <2>1, <3>1 DEF SuiteInv, ChecksPlaced, Of
      <3> QED
        BY <3>2 DEF Passing
    <2> QED
      BY <1>1, <2>1, <2>2, FS_EmptySet DEF SuiteCounts, Zero
  <1>4. CASE CaseBreak
    BY <1>1, <1>4 DEF CaseBreak, SuiteCounts, SuiteInv, SuiteTypes
  <1>5. CASE SuiteFinish \/ SuiteDrop
    BY <1>1, <1>5 DEF SuiteFinish, SuiteDrop, SuiteCounts
  <1>6. CASE UNCHANGED suiteVars
    BY <1>1, <1>6 DEF suiteVars, SuiteCounts
  <1> QED
    BY <1>2, <1>3, <1>4, <1>5, <1>6, CaseEndCounts, CheckCounts DEF SuiteNext

LEMMA CountsTell == SuiteInv /\ SuiteCounts => CountsAreOfEndedCases
  <1> SUFFICES ASSUME SuiteInv, SuiteCounts
               PROVE  /\ suite.total = [pass |-> Cardinality(Passing(Counted)),
                                        total |-> Cardinality(Counted)]
                      /\ suite.cases = [pass |-> Cardinality({k \in log.ended : ~Failing(k)}),
                                        total |-> Cardinality(log.ended)]
    BY DEF CountsAreOfEndedCases
  <1> QED
    BY DEF SuiteInv, SuiteTypes, Count, SuiteCounts, Passed

----------------------------------------------------------------------------
\* Theorems about the harness

\* The inductive invariant holds throughout.
THEOREM SuiteInvariance == SuiteSpec => []SuiteInv
  BY SuiteInitHolds, SuiteStep, PTL DEF SuiteSpec

\* A suite that returns its result returns 0 exactly if no check failed in a case
\* that came to its end, and it has dealt with every case that was selected.
THEOREM StatusCorrect == SuiteSpec => []StatusTellsFailure
  BY SuiteInvTells, SuiteInvariance, PTL

\* What a suite reports is what happened in the cases that came to their end: the
\* counters are the numbers of their checks and of the cases themselves.
THEOREM CountsCorrect == SuiteSpec => []CountsAreOfEndedCases
  <1>1. SuiteInv /\ [SuiteNext]_suiteVars /\ SuiteCounts => SuiteCounts'
    BY CountsStep
  <1>2. SuiteSpec => []SuiteCounts
    BY <1>1, CountsInit, SuiteInvariance, PTL DEF SuiteSpec
  <1> QED
    BY <1>2, CountsTell, SuiteInvariance, PTL

----------------------------------------------------------------------------
\* The program is a suite, or mdcode, which never enters one.
HarnessInv == at \in {"mdcode", "left"} \/ (SuiteInv /\ SuiteCounts)

LEMMA HarnessStep == HarnessInv /\ [Next]_vars => HarnessInv'
  <1> SUFFICES ASSUME HarnessInv, [Next]_vars PROVE HarnessInv'
    OBVIOUS
  <1>1. CASE UNCHANGED suiteVars
    BY <1>1, SuiteStep, CountsStep DEF HarnessInv, suiteVars
  <1>2. CASE SuiteNext
    <2>1. at \in {"start", "between", "body"}
      BY <1>2
      DEF SuiteNext, SuiteStart, CaseStart, Check, CaseEnd, CaseBreak, SuiteFinish, SuiteDrop
    <2> QED
      BY <1>2, <2>1, SuiteStep, CountsStep DEF HarnessInv
  <1>3. CASE MdcodeParse \/ MdcodeEnd
    BY <1>3 DEF MdcodeParse, MdcodeEnd, HarnessInv
  <1>4. Harness => SuiteNext
    BY DEF Harness, SuiteNext
  <1>5. Expect => SuiteNext
    <2> SUFFICES ASSUME Expect PROVE \E ok \in BOOLEAN : Check(ok)
      BY DEF SuiteNext
    <2> QED
      BY DEF Expect
  <1>6. CaseParse \/ ParseStep \/ Rest \/ UNCHANGED vars => UNCHANGED suiteVars
    BY DEF CaseParse, ParseStep, Rest, vars, suiteVars
  <1> QED
    BY <1>1, <1>2, <1>3, <1>4, <1>5, <1>6 DEF Next

----------------------------------------------------------------------------
\* The least of a set of natural numbers is one of them.
LEMMA MinIsLeast ==
  ASSUME NEW S, S \subseteq Nat, S # {}
  PROVE  Min(S) \in S
  BY LeastElement DEF Min

----------------------------------------------------------------------------
\* getopt's place

GoType == [optind : Nat, first : Nat, last : Nat, nextchar : Nat]

\* optind is a word or right behind the last one, and a word while letters of it
\* are unread; the others of the words that have been passed over lie before last.
Placed(g, n) ==
  /\ g \in GoType
  /\ 1 <= g.first /\ g.first <= g.last
  /\ 1 <= g.optind /\ g.optind <= n + 1
  /\ g.nextchar > 0 => g.optind <= n

LEMMA FourJoined ==
  ASSUME NEW D, NEW p \in Seq(D), NEW q \in Seq(D), NEW r \in Seq(D), NEW t \in Seq(D)
  PROVE  LET c == p \o q \o r \o t IN c \in Seq(D) /\ Len(c) = Len(p) + Len(q) + Len(r) + Len(t)
  <1>1. p \o q \in Seq(D) /\ Len(p \o q) = Len(p) + Len(q)
    BY ConcatProperties
  <1>2. p \o q \o r \in Seq(D) /\ Len(p \o q \o r) = Len(p \o q) + Len(r)
    BY <1>1, ConcatProperties
  <1>3. p \o q \o r \o t \in Seq(D) /\ Len(p \o q \o r \o t) = Len(p \o q \o r) + Len(t)
    BY <1>2, ConcatProperties
  <1> QED
    BY <1>1, <1>2, <1>3

LEMMA ExchangeKeeps ==
  ASSUME NEW D, NEW a \in Seq(D), NEW g,
         g.optind \in Nat, g.first \in Nat, g.last \in Nat,
         1 <= g.first, g.first <= g.last, g.last <= g.optind, g.optind <= Len(a) + 1
  PROVE  LET x == Exchanged(g, a) IN
         /\ x.argv \in Seq(D) /\ Len(x.argv) = Len(a)
         /\ x.first \in Nat /\ 1 <= x.first /\ x.first <= g.optind
         /\ x.last \in Nat /\ x.last <= g.optind
  <1>1. CASE g.first # g.last /\ g.last # g.optind
    <2> DEFINE p == SubSeq(a, 1, g.first - 1)
               q == SubSeq(a, g.last, g.optind - 1)
               r == SubSeq(a, g.first, g.last - 1)
               t == SubSeq(a, g.optind, Len(a))
    <2>0. Len(a) \in Nat
      OBVIOUS
    <2>1. p \in Seq(D) /\ Len(p) = g.first - 1
      BY <2>0, SubSeqProperties
    <2>2. q \in Seq(D) /\ Len(q) = g.optind - g.last
      BY <1>1, <2>0, SubSeqProperties
    <2>3. r \in Seq(D) /\ Len(r) = g.last - g.first
      BY <1>1, <2>0, SubSeqProperties
    <2>4. t \in Seq(D) /\ Len(t) = Len(a) + 1 - g.optind
      BY <2>0, SubSeqProperties
    <2> DEFINE c == p \o q \o r \o t
    <2>5. /\ Exchanged(g, a).argv = c
          /\ Exchanged(g, a).first = g.first + g.optind - g.last
          /\ Exchanged(g, a).last = g.optind
      BY <1>1 DEF Exchanged
    <2>6. c \in Seq(D) /\ Len(c) = Len(p) + Len(q) + Len(r) + Len(t)
      <3> HIDE DEF p, q, r, t
      <3>1. p \in Seq(D) /\ q \in Seq(D) /\ r \in Seq(D) /\ t \in Seq(D)
        BY <2>1, <2>2, <2>3, <2>4
      <3> QED
        BY <3>1, FourJoined
    <2> HIDE DEF p, q, r, t, c
    <2>7. Len(c) = Len(a)
      <3>1. Len(c) = (g.first - 1) + (g.optind - g.last) + (g.last - g.first)
                       + (Len(a) + 1 - g.optind)
        BY <2>1, <2>2, <2>3, <2>4, <2>6, Zenon
      <3> QED
        BY <2>0, <3>1
    <2> QED
      BY <2>0, <2>5, <2>6, <2>7
  <1>2. CASE ~(g.first # g.last /\ g.last # g.optind)
    <2>1. /\ Exchanged(g, a).argv = a
          /\ Exchanged(g, a).first = IF g.last # g.optind THEN g.optind ELSE g.first
          /\ Exchanged(g, a).last = g.last
      BY <1>2 DEF Exchanged
    <2> QED
      BY <2>1
  <1> QED
    BY <1>1, <1>2

LEMMA NextOptionBounds ==
  ASSUME NEW D, NEW a \in Seq(D), NEW i \in Nat, i <= Len(a) + 1
  PROVE  NextOption(a, i) \in i .. Len(a) + 1
  <1> DEFINE S == {j \in i .. Len(a) : Words[a[j]].kind # "other"} \cup {Len(a) + 1}
  <1>1. S \subseteq i .. Len(a) + 1 /\ S \subseteq Nat /\ S # {}
    OBVIOUS
  <1>2. Min(S) \in S
    <2> HIDE DEF S
    <2> QED
      BY <1>1, MinIsLeast
  <1> QED
    BY <1>1, <1>2 DEF NextOption

\* A word takes the one behind it only if there is one.
LEMMA ScanTakes ==
  ASSUME NEW D, NEW a \in Seq(D), NEW i \in 1 .. Len(a)
  PROVE  Scan(a, i)[2] \in {1, 2} /\ i + Scan(a, i)[2] <= Len(a) + 1
  <1>1. i \in Nat /\ Len(a) \in Nat /\ i <= Len(a)
    OBVIOUS
  <1>2. Scan(a, i)[2] = 1 \/ (Scan(a, i)[2] = 2 /\ i < Len(a))
    BY DEF Scan
  <1>3. CASE Scan(a, i)[2] = 1
    BY <1>1, <1>3
  <1>4. CASE Scan(a, i)[2] = 2 /\ i < Len(a)
    BY <1>1, <1>4
  <1> QED
    BY <1>2, <1>3, <1>4

LEMMA NextWordMoves ==
  ASSUME NEW D, NEW a \in Seq(D), NEW g, Placed(g, Len(a))
  PROVE  LET r == NextWord(g, a) IN
         /\ r.argv \in Seq(D) /\ Len(r.argv) = Len(a)
         /\ Placed(r.go, Len(a)) /\ r.go.nextchar = 0
         /\ r.got.ret # "end" =>
              /\ r.go.optind > g.optind /\ r.go.last \in g.optind .. Len(a)
              /\ r.argv = Exchanged([g EXCEPT !.last = IF @ > g.optind THEN g.optind ELSE @,
                                              !.first = IF @ > g.optind THEN g.optind ELSE @], a).argv
  <1> DEFINE n == Len(a)
             g0 == [g EXCEPT !.last = IF @ > g.optind THEN g.optind ELSE @,
                             !.first = IF @ > g.optind THEN g.optind ELSE @]
             x == Exchanged(g0, a)
             i == NextOption(x.argv, g.optind)
             end == i <= n /\ Words[x.argv[i]].kind = "end"
             h == [optind |-> i + 1, first |-> x.first, last |-> i]
             y == Exchanged(h, x.argv)
             b == IF end THEN y.argv ELSE x.argv
             first == IF ~end THEN x.first ELSE IF x.first = i THEN i + 1 ELSE y.first
             stop == n + 1
             s == Scan(b, i)
             out == [got |-> Got("end", 0, NoArg), argv |-> b,
                     go |-> [optind |-> IF first # stop THEN first ELSE stop,
                             first |-> first, last |-> stop, nextchar |-> 0]]
             turn == [got |-> s[1], argv |-> b,
                      go |-> [optind |-> i + s[2], first |-> first, last |-> i, nextchar |-> 0]]
  <1>1. NextWord(g, a) = IF end \/ i = stop THEN out ELSE turn
    BY DEF NextWord
  <1>2. /\ n \in Nat /\ g.optind \in Nat /\ 1 <= g.optind /\ g.optind <= n + 1
        /\ g0.optind = g.optind /\ g0.first \in Nat /\ g0.last \in Nat
        /\ 1 <= g0.first /\ g0.first <= g0.last /\ g0.last <= g.optind
    BY DEF Placed, GoType
  <1>3. /\ x.argv \in Seq(D) /\ Len(x.argv) = n
        /\ x.first \in Nat /\ 1 <= x.first /\ x.first <= g.optind
    <2> HIDE DEF g0
    <2> QED
      BY <1>2, ExchangeKeeps
  <1> HIDE DEF g0, x
  <1>4. i \in g.optind .. n + 1
    BY <1>2, <1>3, NextOptionBounds
  <1>5. i \in Nat /\ x.first <= i /\ i <= n + 1
    BY <1>2, <1>3, <1>4
  <1> HIDE DEF i
  <1>6. i <= n => y.argv \in Seq(D) /\ Len(y.argv) = n /\ y.first \in 1 .. i + 1
    <2> SUFFICES ASSUME i <= n
                 PROVE  y.argv \in Seq(D) /\ Len(y.argv) = n /\ y.first \in 1 .. i + 1
      OBVIOUS
    <2>1. h.optind = i + 1 /\ h.first = x.first /\ h.last = i
      OBVIOUS
    <2> HIDE DEF h
    <2>2. /\ h.optind \in Nat /\ h.first \in Nat /\ h.last \in Nat /\ 1 <= h.first
          /\ h.first <= h.last /\ h.last <= h.optind /\ h.optind <= Len(x.argv) + 1
      BY <1>2, <1>3, <1>5, <2>1
    <2>3. /\ y.argv \in Seq(D) /\ Len(y.argv) = Len(x.argv)
          /\ y.first \in Nat /\ 1 <= y.first /\ y.first <= h.optind
      BY <1>3, <2>2, ExchangeKeeps
    <2> QED
      BY <1>3, <1>5, <2>1, <2>3
  <1> HIDE DEF y, h
  <1>7. b \in Seq(D) /\ Len(b) = n /\ first \in 1 .. n + 1
    BY <1>2, <1>3, <1>5, <1>6
  <1>8. ~end => first = x.first /\ b = x.argv
    OBVIOUS
  <1> HIDE DEF b, first, end
  <1>9. CASE end \/ i = stop
    <2>1. NextWord(g, a) = out
      BY <1>1, <1>9
    <2>2. out.got.ret = "end" /\ out.argv = b /\ out.go.nextchar = 0
      BY DEF Got
    <2>3. Placed(out.go, n)
      BY <1>2, <1>7 DEF Placed, GoType
    <2> HIDE DEF out
    <2> QED
      BY <1>7, <2>1, <2>2, <2>3
  <1>10. CASE ~(end \/ i = stop)
    <2>1. NextWord(g, a) = turn
      BY <1>1, <1>10
    <2>2. i \in 1 .. n
      BY <1>2, <1>4, <1>5, <1>10
    <2>3. s[2] \in {1, 2} /\ i + s[2] <= n + 1
      BY <1>7, <2>2, ScanTakes
    <2>4. turn.argv = b /\ turn.go.optind = i + s[2] /\ turn.go.last = i /\ turn.go.nextchar = 0
      OBVIOUS
    <2> HIDE DEF s
    <2>5. Placed(turn.go, n)
      BY <1>2, <1>3, <1>5, <1>7, <1>8, <1>10, <2>2, <2>3 DEF Placed, GoType
    <2>6. i + s[2] > g.optind /\ i \in g.optind .. n
      BY <1>2, <1>4, <2>2, <2>3
    <2>7. b = x.argv
      BY <1>8, <1>10
    <2> HIDE DEF turn
    <2> QED
      BY <1>7, <2>1, <2>4, <2>5, <2>6, <2>7 DEF x, g0
  <1> QED
    BY <1>9, <1>10

----------------------------------------------------------------------------
\* What getopt does to the words

\* b has the words of a, those from l to o - 1 moved before those from f to l - 1.
Rotated(a, b, f, l, o) ==
  \A j \in 1 .. Len(a) :
    b[j] = IF j < f \/ j >= o THEN a[j] ELSE IF j < f + o - l THEN a[j - f + l] ELSE a[j - o + l]

LEMMA SliceIs ==
  ASSUME NEW D, NEW w \in Seq(D), NEW i \in Nat, NEW j \in Int, 1 <= i, i <= j + 1, j <= Len(w)
  PROVE  /\ SubSeq(w, i, j) \in Seq(D) /\ Len(SubSeq(w, i, j)) = j + 1 - i
         /\ \A k \in 1 .. j + 1 - i : SubSeq(w, i, j)[k] = w[i + k - 1]
  <1> DEFINE n == Len(w)
             t == SubSeq(w, i, j)
  <1>1. n \in Nat /\ \A k \in 1 .. n : w[k] \in D
    OBVIOUS
  <1> HIDE DEF n
  <1>2. i \in Int /\ j - i + 1 = j + 1 - i /\ \A k \in i .. j : k \in 1 .. n
    BY <1>1 DEF n
  <1>3. \A k \in i .. j : w[k] \in D
    BY <1>1, <1>2
  <1>4. /\ t \in Seq(D) /\ Len(t) = IF i <= j THEN j - i + 1 ELSE 0
        /\ \A k \in 1 .. j - i + 1 : t[k] = w[i + k - 1]
    BY <1>2, <1>3, SubSeqProperties
  <1> HIDE DEF t
  <1>5. Len(t) = j + 1 - i
    BY <1>2, <1>4
  <1> QED
    BY <1>2, <1>4, <1>5 DEF t

\* Four sequences put one behind the other; which of them has the place j, and where.
Four(p, q, r, t) == p \o q \o r \o t
OfFour(p, q, r, t, j) ==
  IF j <= Len(p) THEN p[j]
  ELSE IF j <= Len(p) + Len(q) THEN q[j - Len(p)]
  ELSE IF j <= Len(p) + Len(q) + Len(r) THEN r[j - Len(p) - Len(q)]
  ELSE t[j - Len(p) - Len(q) - Len(r)]

LEMMA FourAt ==
  ASSUME NEW D, NEW p \in Seq(D), NEW q \in Seq(D), NEW r \in Seq(D), NEW t \in Seq(D),
         NEW j \in 1 .. Len(p) + Len(q) + Len(r) + Len(t)
  PROVE  Four(p, q, r, t)[j] = OfFour(p, q, r, t, j)
  <1>1. p \o q \in Seq(D) /\ Len(p \o q) = Len(p) + Len(q)
        /\ \A k \in 1 .. Len(p) + Len(q) : (p \o q)[k] = IF k <= Len(p) THEN p[k] ELSE q[k - Len(p)]
    BY ConcatProperties
  <1> DEFINE pq == p \o q
  <1> HIDE DEF pq
  <1>2. pq \o r \in Seq(D) /\ Len(pq \o r) = Len(pq) + Len(r)
        /\ \A k \in 1 .. Len(pq) + Len(r) : (pq \o r)[k] = IF k <= Len(pq) THEN pq[k] ELSE r[k - Len(pq)]
    BY <1>1, ConcatProperties DEF pq
  <1> DEFINE pqr == pq \o r
  <1> HIDE DEF pqr
  <1>3. \A k \in 1 .. Len(pqr) + Len(t) :
          (pqr \o t)[k] = IF k <= Len(pqr) THEN pqr[k] ELSE t[k - Len(pqr)]
    BY <1>2, ConcatProperties DEF pqr
  <1>4. Len(p) \in Nat /\ Len(q) \in Nat /\ Len(r) \in Nat /\ Len(t) \in Nat
    OBVIOUS
  <1>5. Len(pq) = Len(p) + Len(q) /\ Len(pqr) = Len(p) + Len(q) + Len(r)
    BY <1>1, <1>2 DEF pq, pqr
  <1>6. CASE j <= Len(p)
    BY <1>1, <1>2, <1>3, <1>4, <1>5, <1>6 DEF pq, pqr, OfFour, Four
  <1>7. CASE ~(j <= Len(p)) /\ j <= Len(p) + Len(q)
    BY <1>1, <1>2, <1>3, <1>4, <1>5, <1>7 DEF pq, pqr, OfFour, Four
  <1>8. CASE ~(j <= Len(p) + Len(q)) /\ j <= Len(p) + Len(q) + Len(r)
    BY <1>1, <1>2, <1>3, <1>4, <1>5, <1>8 DEF pq, pqr, OfFour, Four
  <1>9. CASE ~(j <= Len(p) + Len(q) + Len(r))
    BY <1>1, <1>2, <1>3, <1>4, <1>5, <1>9 DEF pq, pqr, OfFour, Four
  <1> QED
    BY <1>4, <1>6, <1>7, <1>8, <1>9 DEF OfFour, Four

\* An exchange is a rotation, whether something has to be moved or not.
LEMMA ExchangeIs ==
  ASSUME NEW D, NEW a \in Seq(D), NEW g,
         g.optind \in Nat, g.first \in Nat, g.last \in Nat,
         1 <= g.first, g.first <= g.last, g.last <= g.optind, g.optind <= Len(a) + 1
  PROVE  /\ Exchanged(g, a).first = g.first + g.optind - g.last
         /\ Rotated(a, Exchanged(g, a).argv, g.first, g.last, g.optind)
  <1> DEFINE f == g.first
             l == g.last
             o == g.optind
             n == Len(a)
  <1>0. n \in Nat /\ f \in Nat /\ l \in Nat /\ o \in Nat /\ 1 <= f /\ f <= l /\ l <= o /\ o <= n + 1
    OBVIOUS
  <1>1. CASE f # l /\ l # o
    <2> DEFINE p == SubSeq(a, 1, f - 1)
               q == SubSeq(a, l, o - 1)
               r == SubSeq(a, f, l - 1)
               t == SubSeq(a, o, n)
    <2>1. Exchanged(g, a).first = f + o - l /\ Exchanged(g, a).argv = p \o q \o r \o t
      BY <1>1 DEF Exchanged
    <2> HIDE DEF f, l, o, n
    <2>2. p \in Seq(D) /\ Len(p) = f - 1 /\ \A k \in 1 .. f - 1 : p[k] = a[k]
      <3>1. 1 \in Nat /\ f - 1 \in Int /\ 1 <= (f - 1) + 1 /\ f - 1 <= Len(a)
            /\ (f - 1) + 1 - 1 = f - 1 /\ \A k \in 1 .. f - 1 : 1 + k - 1 = k
        BY <1>0 DEF n
      <3>2. p \in Seq(D) /\ Len(p) = (f - 1) + 1 - 1
            /\ \A k \in 1 .. (f - 1) + 1 - 1 : p[k] = a[1 + k - 1]
        BY <3>1, SliceIs
      <3> QED
        BY <3>1, <3>2
    <2>3. q \in Seq(D) /\ Len(q) = o - l /\ \A k \in 1 .. o - l : q[k] = a[l + k - 1]
      <3>1. 1 <= l /\ o - 1 \in Int /\ l <= (o - 1) + 1 /\ o - 1 <= Len(a) /\ (o - 1) + 1 - l = o - l
        BY <1>0 DEF n
      <3> QED
        BY <1>0, <3>1, SliceIs
    <2>4. r \in Seq(D) /\ Len(r) = l - f /\ \A k \in 1 .. l - f : r[k] = a[f + k - 1]
      <3>1. l - 1 \in Int /\ f <= (l - 1) + 1 /\ l - 1 <= Len(a) /\ (l - 1) + 1 - f = l - f
        BY <1>0 DEF n
      <3> QED
        BY <1>0, <3>1, SliceIs
    <2>5. t \in Seq(D) /\ Len(t) = n + 1 - o /\ \A k \in 1 .. n + 1 - o : t[k] = a[o + k - 1]
      <3>1. 1 <= o /\ n \in Int /\ n <= Len(a)
        BY <1>0 DEF n
      <3> QED
        BY <1>0, <3>1, SliceIs
    <2> HIDE DEF p, q, r, t
    <2>6. ASSUME NEW j \in 1 .. n
          PROVE  (p \o q \o r \o t)[j] =
                   IF j < f \/ j >= o THEN a[j]
                   ELSE IF j < f + o - l THEN a[j - f + l] ELSE a[j - o + l]
      <3> DEFINE c == p \o q \o r \o t
      <3>0. p \in Seq(D) /\ q \in Seq(D) /\ r \in Seq(D) /\ t \in Seq(D)
        BY <2>2, <2>3, <2>4, <2>5
      <3>1. Len(p) + Len(q) + Len(r) + Len(t) = n
        <4>1. Len(p) + Len(q) + Len(r) + Len(t) = (f - 1) + (o - l) + (l - f) + (n + 1 - o)
          BY <2>2, <2>3, <2>4, <2>5, Zenon
        <4> QED
          BY <1>0, <4>1
      <3>2. c[j] = OfFour(p, q, r, t, j)
        <4>1. j \in 1 .. Len(p) + Len(q) + Len(r) + Len(t)
          BY <3>1, Zenon
        <4>2. Four(p, q, r, t)[j] = OfFour(p, q, r, t, j)
          BY <3>0, <4>1, FourAt
        <4> QED
          BY <4>2, Zenon DEF Four
      <3> HIDE DEF c, f, l, o, n
      <3>3. c[j] = IF j <= f - 1 THEN p[j]
                   ELSE IF j <= o - l + f - 1 THEN q[j - (f - 1)]
                   ELSE IF j <= o - 1 THEN r[j - (f - 1) - (o - l)]
                   ELSE t[j - (f - 1) - (o - l) - (l - f)]
        <4>1. f - 1 + (o - l) = o - l + f - 1 /\ f - 1 + (o - l) + (l - f) = o - 1
          BY <1>0
        <4> QED
          BY <2>2, <2>3, <2>4, <2>5, <3>2, <4>1 DEF OfFour
      <3>4. CASE j < f
        <4>1. j <= f - 1 /\ j \in 1 .. f - 1
          BY <1>0, <3>4
        <4> QED
          BY <2>2, <3>3, <3>4, <4>1 DEF c
      <3>5. CASE ~(j < f) /\ j < f + o - l
        <4>1. /\ ~(j <= f - 1) /\ j <= o - l + f - 1 /\ ~(j >= o)
              /\ j - (f - 1) \in 1 .. o - l /\ l + (j - (f - 1)) - 1 = j - f + l
          BY <1>0, <3>5
        <4> QED
          BY <2>3, <3>3, <3>5, <4>1 DEF c
      <3>6. CASE ~(j < f + o - l) /\ j < o
        <4>1. /\ ~(j <= f - 1) /\ ~(j <= o - l + f - 1) /\ j <= o - 1 /\ ~(j < f) /\ ~(j >= o)
              /\ j - (f - 1) - (o - l) \in 1 .. l - f
              /\ f + (j - (f - 1) - (o - l)) - 1 = j - o + l
          BY <1>0, <3>6
        <4> QED
          BY <2>4, <3>3, <3>6, <4>1 DEF c
      <3>7. CASE j >= o
        <4>1. /\ ~(j <= f - 1) /\ ~(j <= o - l + f - 1) /\ ~(j <= o - 1)
              /\ j - (f - 1) - (o - l) - (l - f) \in 1 .. n + 1 - o
              /\ o + (j - (f - 1) - (o - l) - (l - f)) - 1 = j
          BY <1>0, <3>7
        <4> QED
          BY <2>5, <3>3, <3>7, <4>1 DEF c
      <3>8. \/ j < f \/ (~(j < f) /\ j < f + o - l)
            \/ (~(j < f + o - l) /\ j < o) \/ j >= o
        BY <1>0
      <3> QED
        BY <3>4, <3>5, <3>6, <3>7, <3>8
    <2> QED
      BY <2>1, <2>6 DEF Rotated, f, l, o, n
  <1>2. CASE ~(f # l /\ l # o)
    <2>1. Exchanged(g, a).argv = a /\ Exchanged(g, a).first = IF l # o THEN o ELSE f
      BY <1>2 DEF Exchanged
    <2>2. IF l # o THEN f = l ELSE TRUE
      BY <1>2
    <2> HIDE DEF f, l, o, n
    <2>3. (IF l # o THEN o ELSE f) = f + o - l
      BY <1>0, <2>2
    <2>4. ASSUME NEW j \in 1 .. n
          PROVE  a[j] = IF j < f \/ j >= o THEN a[j]
                        ELSE IF j < f + o - l THEN a[j - f + l] ELSE a[j - o + l]
      <3>1. CASE l # o
        <4>1. j - f + l = j /\ f + o - l = o
          BY <1>0, <2>2, <3>1
        <4> QED
          BY <1>0, <4>1
      <3>2. CASE l = o
        <4>1. j - o + l = j /\ f + o - l = f
          BY <1>0, <3>2
        <4> QED
          BY <1>0, <4>1
      <3> QED
        BY <3>1, <3>2
    <2> QED
      BY <2>1, <2>3, <2>4 DEF Rotated, f, l, o, n
  <1> QED
    BY <1>1, <1>2

\* A letter is read without leaving the word, or the word is left with its last.
LEMMA LetterMoves ==
  ASSUME NEW g, NEW a, Len(a) \in Nat, Placed(g, Len(a)), g.nextchar > 0
  PROVE  LET r == Letter(g, a) IN
         /\ r.argv = a /\ Placed(r.go, Len(a)) /\ r.got.ret = "?"
         /\ r.go.optind = g.optind + 1 \/ (r.go.optind = g.optind /\ r.go.nextchar > 0)
         /\ r.go.nextchar = g.nextchar - 1
  <1> DEFINE r == Letter(g, a)
             o == IF g.nextchar = 1 THEN g.optind + 1 ELSE g.optind
  <1>1. g \in GoType /\ g.optind <= Len(a) /\ g.nextchar \in Nat /\ g.optind \in Nat
    BY DEF Placed, GoType
  <1>2. /\ r.argv = a /\ r.go.optind = o /\ r.go.nextchar = g.nextchar - 1 /\ r.got.ret = "?"
        /\ r.go = [optind |-> o, first |-> g.first, last |-> g.last, nextchar |-> g.nextchar - 1]
    BY <1>1 DEF Letter, GoType, Got
  <1>3. o \in Nat /\ g.nextchar - 1 \in Nat /\ 1 <= o /\ o <= Len(a) + 1
        /\ (g.nextchar - 1 > 0 => o = g.optind)
    BY <1>1 DEF Placed
  <1> HIDE DEF r
  <1>4. Placed(r.go, Len(a))
    BY <1>1, <1>2, <1>3 DEF Placed, GoType
  <1>5. o = g.optind + 1 \/ (o = g.optind /\ g.nextchar - 1 > 0)
    BY <1>1
  <1> QED
    BY <1>2, <1>4, <1>5 DEF r

LEMMA BackAt ==
  ASSUME NEW g \in GoType, NEW l \in Nat
  PROVE  LET h == [g EXCEPT !.optind = g.last, !.nextchar = l] IN
         /\ h \in GoType /\ h.nextchar = l
         /\ h.optind = g.last /\ h.first = g.first /\ h.last = g.last
  <1> DEFINE i == g.last
             k == [g EXCEPT !.optind = i]
             h == [k EXCEPT !.nextchar = l]
  <1>1. i \in Nat
    BY DEF GoType
  <1> HIDE DEF i
  <1>2. k \in GoType /\ k.optind = i /\ k.first = g.first /\ k.last = g.last
    BY <1>1 DEF GoType
  <1> HIDE DEF k
  <1>3. /\ h \in GoType /\ h.nextchar = l
        /\ h.optind = k.optind /\ h.first = k.first /\ h.last = k.last
    BY <1>2 DEF GoType
  <1> QED
    BY <1>2, <1>3 DEF i, k

\* One call of getopt_long goes on among the words, or among the letters of one.
LEMMA GetoptMoves ==
  ASSUME NEW a \in Seq(DOMAIN Words), NEW g, Placed(g, Len(a))
  PROVE  LET r == GetoptLong(g, a) IN
         /\ r.argv \in Seq(DOMAIN Words) /\ Len(r.argv) = Len(a)
         /\ Placed(r.go, Len(a)) /\ (r.got.ret = "end" => r.go.nextchar = 0)
         /\ r.got.ret # "end" =>
              \/ r.go.optind > g.optind
              \/ r.go.optind = g.optind /\ UnreadLetters(r.go, r.argv) < UnreadLetters(g, a)
  <1> DEFINE n == Len(a)
             r == GetoptLong(g, a)
             x == NextWord(g, a)
             i == x.go.last
             v == Words[x.argv[i]]
             h == [x.go EXCEPT !.optind = i, !.nextchar = v.letters]
             g0 == [g EXCEPT !.last = IF @ > g.optind THEN g.optind ELSE @,
                             !.first = IF @ > g.optind THEN g.optind ELSE @]
  <1>0. n \in Nat /\ g.optind \in Nat /\ g.nextchar \in Nat
    BY DEF Placed, GoType
  <1>1. CASE g.nextchar > 0
    <2>1. r = Letter(g, a)
      BY <1>1 DEF GetoptLong, ByLetters
    <2> HIDE DEF r
    <2>2. /\ r.argv = a /\ Placed(r.go, n) /\ r.got.ret = "?"
          /\ r.go.optind = g.optind + 1 \/ (r.go.optind = g.optind /\ r.go.nextchar > 0)
          /\ r.go.nextchar = g.nextchar - 1
      BY <1>0, <1>1, <2>1, LetterMoves
    <2> QED
      BY <1>0, <1>1, <2>2 DEF UnreadLetters, r
  <1>2. /\ x.argv \in Seq(DOMAIN Words) /\ Len(x.argv) = n
        /\ Placed(x.go, n) /\ x.go.nextchar = 0
        /\ x.got.ret # "end" =>
             x.go.optind > g.optind /\ i \in g.optind .. n /\ x.argv = Exchanged(g0, a).argv
    BY NextWordMoves
  <1>3. CASE ~(g.nextchar > 0) /\ x.got.ret # "end" /\ v.kind = "letters"
    <2>1. r = Letter(h, x.argv)
      BY <1>3 DEF GetoptLong, ByLetters
    <2>2. x.argv[g.optind] = a[g.optind] /\ g.optind \in 1 .. n
      <3>1. /\ g0.optind = g.optind /\ g0.first \in Nat /\ g0.last \in Nat
            /\ 1 <= g0.first /\ g0.first <= g0.last /\ g0.last <= g.optind /\ g.optind <= n + 1
            /\ g.optind >= 1
        BY DEF Placed, GoType
      <3> HIDE DEF g0, x
      <3>2. Rotated(a, Exchanged(g0, a).argv, g0.first, g0.last, g0.optind)
        BY <1>0, <3>1, ExchangeIs
      <3>3. g.optind \in 1 .. n
        BY <1>0, <1>2, <1>3, <3>1
      <3> QED
        BY <1>2, <1>3, <3>1, <3>2, <3>3 DEF Rotated
    <2> HIDE DEF r, x
    <2>3. v.letters \in Nat /\ v.letters > 0
      <3>1. x.argv[i] \in DOMAIN Words
        BY <1>0, <1>2, <1>3, <2>2
      <3> QED
        BY <1>3, <3>1, ArgsAssumption
    <2>4. Placed(h, n) /\ h.nextchar > 0 /\ h.nextchar = v.letters /\ h.optind = i
      <3>1. i \in Nat /\ 1 <= i /\ i <= n
        BY <1>0, <1>2, <1>3, <2>2
      <3>2. x.go \in GoType /\ 1 <= x.go.first /\ x.go.first <= i
        BY <1>2 DEF Placed
      <3> HIDE DEF v
      <3>3. /\ h \in GoType /\ h.nextchar = v.letters /\ h.optind = i
            /\ h.first = x.go.first /\ h.last = i
        BY <2>3, <3>2, BackAt
      <3> HIDE DEF h
      <3> QED
        BY <1>0, <2>3, <3>1, <3>2, <3>3 DEF Placed, GoType
    <2> HIDE DEF h, v
    <2>5. /\ r.argv = x.argv /\ Placed(r.go, n) /\ r.got.ret = "?"
          /\ r.go.optind = i + 1 \/ (r.go.optind = i /\ r.go.nextchar > 0)
          /\ r.go.nextchar = v.letters - 1
      BY <1>0, <1>2, <2>1, <2>4, LetterMoves
    <2>6. i # g.optind => i > g.optind
      BY <1>0, <1>2, <1>3
    <2>7. ASSUME i = g.optind
          PROVE  UnreadLetters(g, a) = v.letters
      BY <1>0, <1>3, <2>2, <2>7 DEF UnreadLetters, v
    <2>8. r.go.nextchar > 0 => UnreadLetters(r.go, r.argv) = v.letters - 1
      BY <2>5 DEF UnreadLetters
    <2>9. i \in Nat /\ r.go.optind \in Nat
      <3>1. i \in Nat
        BY <1>0, <1>2, <1>3
      <3> QED
        BY <2>5, <3>1 DEF Placed, GoType
    <2>10. \/ r.go.optind > g.optind
           \/ r.go.optind = g.optind /\ UnreadLetters(r.go, r.argv) < UnreadLetters(g, a)
      BY <1>0, <2>3, <2>5, <2>6, <2>7, <2>8, <2>9
    <2> QED
      BY <1>2, <2>5, <2>10 DEF r
  <1>4. CASE ~(g.nextchar > 0) /\ ~(x.got.ret # "end" /\ v.kind = "letters")
    <2>1. r = x
      BY <1>4 DEF GetoptLong, ByLetters
    <2> HIDE DEF r, x
    <2> QED
      BY <1>2, <2>1 DEF r
  <1> QED
    BY <1>1, <1>3, <1>4

\* The words passed over are plain, the one found is not.
LEMMA NextOptionIs ==
  ASSUME NEW D, NEW a \in Seq(D), NEW o \in Nat, o <= Len(a) + 1
  PROVE  LET i == NextOption(a, o) IN
         /\ i \in o .. Len(a) + 1
         /\ \A j \in o .. i - 1 : Words[a[j]].kind = "other"
         /\ i <= Len(a) => Words[a[i]].kind # "other"
  <1> DEFINE S == {j \in o .. Len(a) : Words[a[j]].kind # "other"} \cup {Len(a) + 1}
             i == NextOption(a, o)
  <1>1. S \subseteq o .. Len(a) + 1 /\ S \subseteq Nat /\ S # {}
    OBVIOUS
  <1>2. i \in S /\ \A j \in S : i <= j
    <2>1. i = Min(S)
      BY DEF NextOption
    <2> HIDE DEF S, i
    <2> QED
      BY <1>1, <2>1, LeastElement DEF Min
  <1> HIDE DEF i
  <1>3. ASSUME NEW j \in o .. i - 1
        PROVE  Words[a[j]].kind = "other"
    <2>1. j \in o .. Len(a) /\ ~(i <= j)
      BY <1>1, <1>2
    <2> QED
      BY <1>2, <2>1
  <1>4. i <= Len(a) => Words[a[i]].kind # "other"
    BY <1>2
  <1> QED
    BY <1>1, <1>2, <1>3, <1>4 DEF i

----------------------------------------------------------------------------
\* Reading the words

\* The recursion of Reading has a solution, built word by word.
LEMMA ReadingIs ==
  ASSUME NEW given, Len(given) \in Nat
  PROVE  /\ Reading(given)[0] = Unread
         /\ \A i \in 1 .. Len(given) : Reading(given)[i] = ReadWord(given, Reading(given)[i - 1], i)
  <1> DEFINE Turn(m, i) == ReadWord(given, m, i)
             Is(f, n) == f = [i \in 0 .. n |-> IF i = 0 THEN Unread ELSE Turn(f[i - 1], i)]
             S == {n \in Nat : \E f : Is(f, n)}
             len == Len(given)
  <1>0. Reading(given) = CHOOSE f : Is(f, len)
    BY DEF Reading
  <1> HIDE DEF Turn
  <1>1. 0 \in S
    <2> DEFINE f == [i \in 0 .. 0 |-> Unread]
    <2>1. \A i \in 0 .. 0 : i = 0
      OBVIOUS
    <2>2. Is(f, 0)
      BY <2>1
    <2> QED
      BY <2>2
  <1>2. ASSUME NEW n \in Nat, n \in S
        PROVE  n + 1 \in S
    <2>1. PICK f : Is(f, n)
      BY <1>2
    <2> DEFINE g == [i \in 0 .. n + 1 |-> IF i <= n THEN f[i] ELSE Turn(f[n], n + 1)]
               h == [i \in 0 .. n + 1 |-> IF i = 0 THEN Unread ELSE Turn(g[i - 1], i)]
    <2>2. ASSUME NEW i \in 0 .. n + 1 PROVE g[i] = h[i]
      <3>1. CASE i = 0
        <4>1. f[0] = Unread /\ 0 \in 0 .. n /\ 0 \in 0 .. n + 1
          BY <2>1
        <4> QED
          BY <3>1, <4>1
      <3>2. CASE i \in 1 .. n
        <4>1. f[i] = Turn(f[i - 1], i) /\ i # 0
          BY <2>1, <3>2
        <4>2. i - 1 \in 0 .. n + 1 /\ i - 1 <= n /\ i <= n
          BY <3>2
        <4>3. g[i - 1] = f[i - 1]
          BY <4>2
        <4> QED
          BY <4>1, <4>2, <4>3
      <3>3. CASE i = n + 1
        <4>1. i - 1 = n /\ i # 0 /\ ~(i <= n) /\ n \in 0 .. n + 1 /\ n <= n
          BY <3>3
        <4>2. g[n] = f[n]
          BY <4>1
        <4> QED
          BY <3>3, <4>1, <4>2
      <3> QED
        BY <3>1, <3>2, <3>3
    <2>3. g = h
      BY <2>2
    <2>4. Is(g, n + 1)
      BY <2>3
    <2> HIDE DEF g, Is
    <2>5. \E f2 : Is(f2, n + 1)
      BY <2>4
    <2> QED
      BY <2>5
  <1>3. Nat \subseteq S
    <2> HIDE DEF S
    <2> QED
      BY <1>1, <1>2, SetInduction
  <1>4. len \in S
    <2> HIDE DEF S
    <2> QED
      BY <1>3
  <1>5. Is(CHOOSE f : Is(f, len), len)
    <2>1. \E f : Is(f, len)
      BY <1>4
    <2> HIDE DEF Is
    <2> QED
      BY <2>1
  <1> HIDE DEF len
  <1>6. len \in Nat
    BY DEF len
  <1>7. Reading(given) =
          [i \in 0 .. len |-> IF i = 0 THEN Unread ELSE Turn(Reading(given)[i - 1], i)]
    BY <1>0, <1>5
  <1>8. Reading(given)[0] = Unread
    BY <1>6, <1>7
  <1>9. ASSUME NEW i \in 1 .. len
        PROVE  Reading(given)[i] = ReadWord(given, Reading(given)[i - 1], i)
    <2>1. i \in 0 .. len /\ i # 0
      BY <1>6
    <2> QED
      BY <1>7, <2>1 DEF Turn
  <1> QED
    BY <1>8, <1>9 DEF len

\* A record as ReadWord makes it.
ReadOK(m) ==
  /\ m = [next |-> m.next, ended |-> m.ended, rest |-> m.rest, last |-> m.last, times |-> m.times]
  /\ m.next \in Int /\ m.ended \in BOOLEAN /\ m.rest \in Seq(DOMAIN Words)
  /\ m.last = [k \in DOMAIN Options |-> m.last[k]]
  /\ m.times \in [DOMAIN Options -> Nat]

LEMMA UnreadOK == ReadOK(Unread)
  BY DEF ReadOK, Unread

LEMMA ReadOKRest ==
  ASSUME NEW m, ReadOK(m), NEW r \in Seq(DOMAIN Words)
  PROVE  LET x == [m EXCEPT !.rest = r] IN
         ReadOK(x) /\ x.rest = r /\ x.next = m.next /\ x.ended = m.ended
           /\ x.last = m.last /\ x.times = m.times
  <1> DEFINE x == [next |-> m.next, ended |-> m.ended, rest |-> r, last |-> m.last, times |-> m.times]
             y == [next |-> m.next, ended |-> m.ended, rest |-> m.rest, last |-> m.last, times |-> m.times]
  <1>0. m = y
    BY DEF ReadOK
  <1>1. [y EXCEPT !.rest = r] = x
    OBVIOUS
  <1>2. x.rest = r /\ x.next = m.next /\ x.ended = m.ended /\ x.last = m.last /\ x.times = m.times
        /\ x = [next |-> x.next, ended |-> x.ended, rest |-> x.rest, last |-> x.last, times |-> x.times]
    OBVIOUS
  <1> HIDE DEF x, y
  <1> QED
    BY <1>0, <1>1, <1>2 DEF ReadOK

\* r has read the words of given behind p, up to q, as plain ones.
Adds(given, m, r, p, q) ==
  /\ ReadOK(r) /\ r.next = m.next /\ r.ended = m.ended /\ r.last = m.last /\ r.times = m.times
  /\ Len(r.rest) = Len(m.rest) + (q - p)
  /\ \A k \in 1 .. Len(m.rest) : r.rest[k] = m.rest[k]
  /\ \A k \in 1 .. q - p : r.rest[Len(m.rest) + k] = given[p + k]

\* Plain words, and all words behind "--", are added to the rest.
LEMMA ReadPlain ==
  ASSUME NEW given \in Seq(DOMAIN Words), NEW p \in Nat, NEW q \in Nat, p <= q, q <= Len(given),
         ReadOK(Reading(given)[p]), Reading(given)[p].next <= p + 1,
         \A j \in p + 1 .. q : Reading(given)[p].ended \/ Words[given[j]].kind = "other"
  PROVE  Adds(given, Reading(given)[p], Reading(given)[q], p, q)
  <1> DEFINE m == Reading(given)[p]
             S == {d \in Nat : p + d <= q => Adds(given, m, Reading(given)[p + d], p, p + d)}
  <1>0. Len(given) \in Nat
    OBVIOUS
  <1>1. 0 \in S
    <2>1. p + 0 = p /\ p - p = 0
      OBVIOUS
    <2>2. Adds(given, m, m, p, p)
      <3>1. Len(m.rest) \in Nat
        BY DEF ReadOK
      <3> HIDE DEF m
      <3> QED
        BY <2>1, <3>1 DEF Adds, m
    <2> QED
      BY <2>1, <2>2
  <1>2. ASSUME NEW d \in Nat, d \in S
        PROVE  d + 1 \in S
    <2> SUFFICES ASSUME p + (d + 1) <= q
                 PROVE  Adds(given, m, Reading(given)[p + (d + 1)], p, p + (d + 1))
      OBVIOUS
    <2> DEFINE r == Reading(given)[p + d]
               i == p + (d + 1)
               w == given[i]
               y == Reading(given)[i]
    <2>1. i \in 1 .. Len(given) /\ i - 1 = p + d /\ p + d <= q /\ i \in p + 1 .. q /\ i \in Nat
      BY <1>0
    <2>2. Adds(given, m, r, p, p + d)
      BY <1>2, <2>1
    <2>3. y = ReadWord(given, r, i)
      BY <1>0, <2>1, ReadingIs
    <2>4. (m.ended \/ Words[w].kind = "other") /\ m.next <= p + 1
      BY <2>1
    <2>5. w \in DOMAIN Words
      BY <2>1
    <2> HIDE DEF m, r, y, w
    <2>6. m.next \in Int /\ Len(m.rest) \in Nat
      BY DEF ReadOK, m
    <2>7. i >= r.next /\ ~(i < r.next) /\ (r.ended \/ Words[w].kind = "other") /\ r.ended \in BOOLEAN
      BY <2>1, <2>2, <2>4, <2>6 DEF Adds, ReadOK
    <2>8. y = [r EXCEPT !.rest = Append(r.rest, w)]
      BY <2>3, <2>7 DEF ReadWord, w
    <2>9. r.rest \in Seq(DOMAIN Words) /\ Append(r.rest, w) \in Seq(DOMAIN Words)
      BY <2>2, <2>5 DEF Adds, ReadOK
    <2>10. ReadOK(y) /\ y.rest = Append(r.rest, w) /\ y.next = r.next /\ y.ended = r.ended
           /\ y.last = r.last /\ y.times = r.times
      BY <2>2, <2>8, <2>9, ReadOKRest DEF Adds
    <2>11. /\ Len(y.rest) = Len(r.rest) + 1 /\ y.rest[Len(r.rest) + 1] = w
           /\ \A k \in 1 .. Len(r.rest) : y.rest[k] = r.rest[k]
      BY <2>9, <2>10
    <2>12. Len(r.rest) = Len(m.rest) + d
      <3>1. (p + d) - p = d
        OBVIOUS
      <3> QED
        BY <2>2, <3>1 DEF Adds
    <2>13. Len(y.rest) = Len(m.rest) + (i - p) /\ i - p = d + 1
      <3>1. i - p = d + 1
        OBVIOUS
      <3>2. Len(y.rest) = (Len(m.rest) + d) + 1
        BY <2>11, <2>12, Zenon
      <3> HIDE DEF i
      <3> QED
        BY <2>6, <3>1, <3>2
    <2>14. ASSUME NEW k \in 1 .. Len(m.rest)
           PROVE  y.rest[k] = m.rest[k]
      BY <2>2, <2>6, <2>11, <2>12 DEF Adds
    <2>15. ASSUME NEW k \in 1 .. i - p
           PROVE  y.rest[Len(m.rest) + k] = given[p + k]
      <3>1. CASE k = d + 1
        <4>1. Len(m.rest) + k = (Len(m.rest) + d) + 1 /\ p + k = i
          <5>1. \A x \in Nat : x + (d + 1) = (x + d) + 1
            OBVIOUS
          <5> QED
            BY <2>6, <3>1, <5>1, Zenon
        <4>2. y.rest[Len(m.rest) + k] = w
          BY <2>11, <2>12, <4>1, Zenon
        <4> QED
          BY <4>1, <4>2, Zenon DEF w
      <3>2. CASE k # d + 1
        <4>1. k \in 1 .. (p + d) - p /\ Len(m.rest) + k \in 1 .. Len(r.rest)
          BY <2>6, <2>12, <2>13, <3>2
        <4>2. r.rest[Len(m.rest) + k] = given[p + k]
          BY <2>2, <4>1 DEF Adds
        <4> QED
          BY <2>11, <4>1, <4>2
      <3> QED
        BY <3>1, <3>2
    <2> HIDE DEF i
    <2>16. Adds(given, m, y, p, i)
      BY <2>2, <2>10, <2>13, <2>14, <2>15 DEF Adds
    <2> QED
      BY <2>16 DEF i, y
  <1>3. Nat \subseteq S
    <2> HIDE DEF S
    <2> QED
      BY <1>1, <1>2, SetInduction
  <1>4. q - p \in Nat /\ p + (q - p) = q
    OBVIOUS
  <1>5. q - p \in S
    BY <1>3, <1>4
  <1> QED
    BY <1>4, <1>5

\* The option of an index that Scan returns is one of the table.
LEMMA ScanIs ==
  ASSUME NEW D, NEW a \in Seq(D), NEW i \in 1 .. Len(a), a[i] \in DOMAIN Words
  PROVE  LET s == Scan(a, i) IN
         /\ s[1].ret \in {"?", "0"} /\ s[2] \in {1, 2}
         /\ s[1].ret = "0" => /\ s[1].index \in DOMAIN Options
                              /\ HasArg(s[1].index) <=> s[1].optarg # NoArg
  <1> DEFINE w == Words[a[i]]
             k == Resolved(w.hits)
             takesNext == k # 0 /\ HasArg(k) /\ w.value = NoArg /\ i < Len(a)
             optarg == IF takesNext THEN a[i + 1] ELSE w.value
             refused == k = 0 \/ (HasArg(k) <=> optarg = NoArg)
  <1>1. Scan(a, i) = <<IF refused THEN Got("?", 0, NoArg) ELSE Got("0", k, optarg),
                       IF takesNext THEN 2 ELSE 1>>
    BY DEF Scan
  <1>2. k # 0 => k \in DOMAIN Options
    <2>1. w.hits \subseteq DOMAIN Options /\ DOMAIN Options \subseteq Nat
      BY ArgsAssumption
    <2> HIDE DEF w
    <2> SUFFICES ASSUME Cardinality({HasArg(x) : x \in w.hits}) = 1 PROVE Min(w.hits) \in w.hits
      BY <2>1 DEF Resolved
    <2> DEFINE T == {HasArg(x) : x \in w.hits}
    <2>2. w.hits # {}
      <3>1. w.hits = {} => T = {}
        OBVIOUS
      <3>2. Cardinality(T) = 1
        OBVIOUS
      <3>3. Cardinality({}) # 1
        <4>1. Cardinality({}) = 0
          BY FS_EmptySet
        <4> QED
          BY <4>1
      <3> HIDE DEF T
      <3> QED
        BY <3>1, <3>2, <3>3, Zenon
    <2>3. w.hits \subseteq Nat
      BY <2>1
    <2> QED
      BY <2>2, <2>3, MinIsLeast
  <1> HIDE DEF k, takesNext, optarg
  <1>3. CASE refused
    BY <1>1, <1>3 DEF Got
  <1>4. CASE ~refused
    <2>1. k # 0 /\ (HasArg(k) <=> optarg # NoArg)
      BY <1>4
    <2>2. Scan(a, i)[1] = Got("0", k, optarg) /\ Scan(a, i)[2] \in {1, 2}
      BY <1>1, <1>4
    <2> QED
      BY <1>2, <2>1, <2>2 DEF Got
  <1> QED
    BY <1>3, <1>4

\* What a word means depends on nothing before it.
LEMMA ScanSame ==
  ASSUME NEW D, NEW a \in Seq(D), NEW b \in Seq(D), NEW i \in 1 .. Len(a), NEW j \in 1 .. Len(b),
         a[i] = b[j], Len(a) - i = Len(b) - j, i < Len(a) => a[i + 1] = b[j + 1]
  PROVE  Scan(a, i) = Scan(b, j)
  <1>1. i < Len(a) <=> j < Len(b)
    OBVIOUS
  <1> QED
    BY <1>1 DEF Scan

\* Letters behind a single dash are no option, and take no word.
LEMMA ScanLetters ==
  ASSUME NEW D, NEW a \in Seq(D), NEW i \in 1 .. Len(a), a[i] \in DOMAIN Words,
         Words[a[i]].kind = "letters"
  PROVE  Scan(a, i) = <<Got("?", 0, NoArg), 1>>
  <1>1. Resolved({}) = 0
    <2> DEFINE T == {HasArg(x) : x \in {}}
    <2>1. T = {}
      OBVIOUS
    <2> HIDE DEF T
    <2>2. Cardinality(T) = 0
      BY <2>1, FS_EmptySet
    <2>3. Cardinality(T) # 1
      BY <2>2
    <2> QED
      BY <2>3 DEF Resolved, T
  <1>2. Words[a[i]].hits = {}
    BY ArgsAssumption
  <1> QED
    BY <1>1, <1>2 DEF Scan

----------------------------------------------------------------------------
\* The place of getopt and what has been read

\* The words a call has beyond those of the calls before it.
New(w, s) == SubSeq(w, s + 1, Len(w))

\* Of the words w, of which s belong to earlier calls, those before o have been
\* read, as m: the plain ones lie from f to l - 1, and those from o on are still
\* where they were.
Lies(a, f, l, o, s, w, m) ==
  /\ a \in Seq(DOMAIN Words) /\ w \in Seq(DOMAIN Words) /\ Len(w) = Len(a)
  /\ s \in Nat /\ f \in Nat /\ l \in Nat /\ o \in Nat
  /\ s + 1 <= f /\ f <= l /\ l <= o /\ o <= Len(a) + 1
  /\ \A j \in 1 .. s : a[j] = w[j]
  /\ \A j \in o .. Len(a) : a[j] = w[j]
  /\ m = Reading(New(w, s))[o - 1 - s] /\ ReadOK(m) /\ ~m.ended /\ m.next <= o - s
  /\ Len(m.rest) = l - f /\ \A k \in 1 .. l - f : m.rest[k] = a[f + k - 1]

LEMMA NewIs ==
  ASSUME NEW D, NEW w \in Seq(D), NEW s \in Nat, s <= Len(w)
  PROVE  /\ New(w, s) \in Seq(D) /\ Len(New(w, s)) = Len(w) - s
         /\ \A k \in 1 .. Len(w) - s : New(w, s)[k] = w[s + k]
  <1> DEFINE n == Len(w)
             m == s + 1
  <1>1. /\ n \in Nat /\ m \in Nat /\ 1 <= m /\ m <= n + 1 /\ n <= Len(w) /\ n + 1 - m = n - s
        /\ \A k \in 1 .. n - s : m + k - 1 = s + k
    OBVIOUS
  <1>2. New(w, s) = SubSeq(w, m, n)
    BY DEF New
  <1> HIDE DEF m, n
  <1>3. /\ New(w, s) \in Seq(D) /\ Len(New(w, s)) = n + 1 - m
        /\ \A k \in 1 .. n + 1 - m : New(w, s)[k] = w[m + k - 1]
    BY <1>1, <1>2, SliceIs
  <1> QED
    BY <1>1, <1>3 DEF n

\* An exchange brings the plain words to the place.
LEMMA LiesTogether ==
  ASSUME NEW a, NEW f, NEW l, NEW o, NEW s, NEW w, NEW m, Lies(a, f, l, o, s, w, m),
         NEW b \in Seq(DOMAIN Words), Len(b) = Len(a), Rotated(a, b, f, l, o)
  PROVE  Lies(b, f + o - l, o, o, s, w, m)
  <1> DEFINE F == f + o - l
             n == Len(a)
  <1>0. /\ n \in Nat /\ s \in Nat /\ f \in Nat /\ l \in Nat /\ o \in Nat
        /\ s + 1 <= f /\ f <= l /\ l <= o /\ o <= n + 1
    BY DEF Lies
  <1>1. F \in Nat /\ s + 1 <= F /\ F <= o /\ o - F = l - f
    BY <1>0
  <1>2. ASSUME NEW j \in 1 .. s
        PROVE  b[j] = w[j]
    <2>1. j \in 1 .. n /\ j < f
      BY <1>0
    <2> QED
      BY <2>1 DEF Rotated, Lies
  <1>3. ASSUME NEW j \in o .. n
        PROVE  b[j] = w[j]
    <2>1. j \in 1 .. n /\ j >= o
      BY <1>0
    <2> QED
      BY <2>1 DEF Rotated, Lies
  <1>4. ASSUME NEW k \in 1 .. l - f
        PROVE  m.rest[k] = b[F + k - 1]
    <2> DEFINE j == F + k - 1
    <2>1. j \in 1 .. n /\ ~(j < f \/ j >= o) /\ ~(j < f + o - l) /\ j - o + l = f + k - 1
      BY <1>0
    <2> HIDE DEF j
    <2>2. b[j] = a[j - o + l]
      BY <2>1 DEF Rotated
    <2> QED
      BY <2>1, <2>2 DEF Lies, j
  <1> HIDE DEF F, n
  <1>5. Lies(b, F, o, o, s, w, m)
    BY <1>0, <1>1, <1>2, <1>3, <1>4 DEF Lies, n
  <1> QED
    BY <1>5 DEF F

\* Plain words that are passed over are read, and lie behind the others.
LEMMA LiesFurther ==
  ASSUME NEW b, NEW F, NEW o, NEW s, NEW w, NEW m, Lies(b, F, o, o, s, w, m),
         NEW i \in o .. Len(b) + 1, \A j \in o .. i - 1 : Words[b[j]].kind = "other"
  PROVE  LET r == Reading(New(w, s))[i - 1 - s] IN
         Lies(b, F, i, i, s, w, r) /\ r.last = m.last /\ r.times = m.times
  <1> DEFINE n == Len(b)
             N == New(w, s)
             p == o - 1 - s
             q == i - 1 - s
             r == Reading(N)[q]
  <1>0. /\ n \in Nat /\ s \in Nat /\ F \in Nat /\ o \in Nat /\ i \in Nat /\ Len(w) = n
        /\ s + 1 <= F /\ F <= o /\ o <= i /\ i <= n + 1
    BY DEF Lies
  <1>1. N \in Seq(DOMAIN Words) /\ Len(N) = n - s /\ \A k \in 1 .. n - s : N[k] = w[s + k]
    <2>1. s <= Len(w)
      BY <1>0
    <2> QED
      BY <1>0, <2>1, NewIs DEF Lies
  <1>2. p \in Nat /\ q \in Nat /\ p <= q /\ q <= n - s
    BY <1>0
  <1>3. m = Reading(N)[p] /\ ReadOK(m) /\ m.next <= p + 1 /\ ~m.ended /\ m.next \in Int
    <2>1. o - s = p + 1
      BY <1>0
    <2> QED
      BY <2>1 DEF Lies, ReadOK
  <1>4. ASSUME NEW j \in p + 1 .. q
        PROVE  Words[N[j]].kind = "other"
    <2>1. s + j \in o .. i - 1 /\ s + j \in o .. n /\ j \in 1 .. n - s
      BY <1>0, <1>2
    <2>2. N[j] = b[s + j]
      BY <1>1, <2>1 DEF Lies
    <2> QED
      BY <2>1, <2>2
  <1> HIDE DEF N, p, q
  <1>5. Adds(N, m, r, p, q)
    BY <1>1, <1>2, <1>3, <1>4, ReadPlain
  <1> HIDE DEF r
  <1>6. Len(r.rest) = i - F
    <2>1. Len(r.rest) = Len(m.rest) + (q - p) /\ Len(m.rest) = o - F
      BY <1>5 DEF Adds, Lies
    <2>2. (o - F) + (q - p) = i - F
      BY <1>0 DEF p, q
    <2> QED
      BY <2>1, <2>2, Zenon
  <1>7. ASSUME NEW k \in 1 .. i - F
        PROVE  r.rest[k] = b[F + k - 1]
    <2>1. CASE k <= o - F
      <3>1. k \in 1 .. o - F
        BY <1>0, <2>1
      <3> QED
        BY <1>5, <3>1 DEF Adds, Lies
    <2>2. CASE ~(k <= o - F)
      <3> DEFINE k2 == k - (o - F)
      <3>1. k2 \in 1 .. q - p /\ (o - F) + k2 = k /\ p + k2 \in 1 .. n - s
            /\ s + (p + k2) = F + k - 1 /\ F + k - 1 \in o .. n
        BY <1>0, <2>2 DEF p, q
      <3> HIDE DEF k2
      <3>2. r.rest[(o - F) + k2] = N[p + k2]
        <4>1. Len(m.rest) = o - F
          BY DEF Lies
        <4> QED
          BY <1>5, <3>1, <4>1 DEF Adds
      <3>3. N[p + k2] = w[F + k - 1]
        BY <1>1, <3>1
      <3>4. b[F + k - 1] = w[F + k - 1]
        BY <3>1 DEF Lies, n
      <3> QED
        BY <3>1, <3>2, <3>3, <3>4
    <2> QED
      BY <2>1, <2>2
  <1>8. r.next <= i - s
    <2>1. o - s <= i - s /\ m.next <= o - s /\ m.next \in Int
      BY <1>0, <1>3 DEF Lies
    <2>2. r.next = m.next
      BY <1>5 DEF Adds
    <2> QED
      BY <1>0, <2>1, <2>2
  <1>9. \A j \in i .. n : b[j] = w[j]
    <2>1. \A j \in i .. n : j \in o .. n
      BY <1>0
    <2> QED
      BY <2>1 DEF Lies, n
  <1>10. Lies(b, F, i, i, s, w, r)
    <2>1. ReadOK(r) /\ ~r.ended
      BY <1>3, <1>5 DEF Adds
    <2>2. r = Reading(New(w, s))[i - 1 - s]
      BY DEF r, N, q
    <2>3. s + 1 <= F /\ F <= i /\ i <= i /\ i <= Len(b) + 1
      BY <1>0 DEF n
    <2> QED
      BY <1>0, <1>6, <1>7, <1>8, <1>9, <2>1, <2>2, <2>3 DEF Lies, n
  <1>11. r.last = m.last /\ r.times = m.times
    BY <1>5 DEF Adds
  <1> QED
    BY <1>10, <1>11 DEF r, N, q

\* What is left when all words have been read: rest is the end of b, from first on.
LeftOver(b, first, s, w, e) ==
  /\ \A j \in 1 .. s : b[j] = w[j]
  /\ first \in s + 1 .. Len(b) + 1
  /\ ReadOK(e) /\ Len(e.rest) = Len(b) + 1 - first
  /\ \A k \in 1 .. Len(b) + 1 - first : e.rest[k] = b[first + k - 1]

\* At the end of the words nothing is to be done.
LEMMA EndWords ==
  ASSUME NEW b, NEW F, NEW s, NEW w, NEW m, NEW i, Lies(b, F, i, i, s, w, m), i = Len(b) + 1
  PROVE  m = Meaning(New(w, s)) /\ LeftOver(b, F, s, w, m)
  <1> DEFINE n == Len(b)
  <1>0. n \in Nat /\ s \in Nat /\ F \in Nat /\ Len(w) = n /\ s + 1 <= F /\ F <= n + 1 /\ s <= n
    BY DEF Lies
  <1>1. Len(New(w, s)) = n - s
    BY <1>0, NewIs DEF Lies
  <1>2. i - 1 - s = n - s
    BY <1>0
  <1> HIDE DEF n
  <1>3. m = Meaning(New(w, s))
    BY <1>1, <1>2 DEF Lies, Meaning
  <1>4. LeftOver(b, F, s, w, m)
    <2>1. F \in s + 1 .. n + 1 /\ i = n + 1
      BY <1>0 DEF n
    <2> QED
      BY <2>1 DEF Lies, LeftOver, n
  <1> QED
    BY <1>3, <1>4

\* What is read, as d, of the word "--" and of a word that t says all of, an option
\* or letters.
Marked(m, d) ==
  /\ d = [next |-> d.next, ended |-> d.ended, rest |-> d.rest, last |-> d.last, times |-> d.times]
  /\ d.ended = TRUE
  /\ d.next = m.next /\ d.rest = m.rest /\ d.last = m.last /\ d.times = m.times

OptionRead(m, d, i, t) ==
  /\ d = [next |-> d.next, ended |-> d.ended, rest |-> d.rest, last |-> d.last, times |-> d.times]
  /\ d.ended = FALSE
  /\ d.next = i + t[2] /\ d.rest = m.rest
  /\ d.last = IF t[1].ret = "0" THEN [m.last EXCEPT ![t[1].index] = t[1].optarg] ELSE m.last
  /\ d.times = IF t[1].ret = "0" THEN [m.times EXCEPT ![t[1].index] = @ + 1] ELSE m.times

LEMMA ReadMark ==
  ASSUME NEW g, NEW m, NEW i, ~(i < m.next), ~m.ended, Words[g[i]].kind = "end"
  PROVE  Marked(m, ReadWord(g, m, i))
  BY DEF ReadWord, Marked

LEMMA ReadOption ==
  ASSUME NEW g, NEW m, NEW i, ~(i < m.next), ~m.ended, NEW t, t = Scan(g, i),
         \/ Words[g[i]].kind = "option"
         \/ Words[g[i]].kind = "letters" /\ t[1].ret # "0"
  PROVE  OptionRead(m, ReadWord(g, m, i), i, t)
  BY DEF ReadWord, OptionRead

\* "--" is moved before the plain words, and all words behind it are plain.
LEMMA EndMark ==
  ASSUME NEW b, NEW F, NEW s, NEW w, NEW m, NEW i, Lies(b, F, i, i, s, w, m), i <= Len(b),
         Words[b[i]].kind = "end",
         NEW y \in Seq(DOMAIN Words), Len(y) = Len(b), Rotated(b, y, F, i, i + 1)
  PROVE  LET e == Meaning(New(w, s)) IN
         LeftOver(y, F + 1, s, w, e) /\ e.last = m.last /\ e.times = m.times
  <1> DEFINE n == Len(b)
             N == New(w, s)
             p == i - s
             q == n - s
             d == Reading(N)[p]
             e == Reading(N)[q]
  <1>0. /\ n \in Nat /\ s \in Nat /\ F \in Nat /\ i \in Nat /\ Len(w) = n
        /\ s + 1 <= F /\ F <= i /\ i <= n /\ s <= n
    BY DEF Lies
  <1>1. N \in Seq(DOMAIN Words) /\ Len(N) = q /\ \A k \in 1 .. q : N[k] = w[s + k]
    BY <1>0, NewIs DEF Lies
  <1>2. p \in Nat /\ q \in Nat /\ p <= q /\ p \in 1 .. q /\ p - 1 = i - 1 - s /\ s + p = i
    BY <1>0
  <1> HIDE DEF N
  <1>3. N[p] = b[i]
    <2>1. b[i] = w[i]
      BY <1>0 DEF Lies
    <2> QED
      BY <1>1, <1>2, <2>1
  <1>4. m = Reading(N)[p - 1] /\ ReadOK(m) /\ ~m.ended /\ m.next <= p /\ m.next \in Int
    BY <1>2 DEF Lies, ReadOK, N
  <1>5. d = ReadWord(N, m, p)
    BY <1>1, <1>2, <1>4, ReadingIs
  <1>6. ReadOK(d) /\ d.ended /\ d.next = m.next /\ d.rest = m.rest /\ d.last = m.last
        /\ d.times = m.times
    <2>1. ~(p < m.next) /\ ~m.ended /\ Words[N[p]].kind = "end"
      BY <1>2, <1>3, <1>4
    <2> HIDE DEF d, p
    <2>2. Marked(m, d)
      BY <1>5, <2>1, ReadMark
    <2> QED
      BY <1>4, <2>2 DEF ReadOK, Marked
  <1> HIDE DEF d, e, p, q
  <1>7. Adds(N, d, e, p, q)
    <2>1. d.next <= p + 1
      BY <1>2, <1>4, <1>6
    <2> QED
      BY <1>1, <1>2, <1>6, <2>1, ReadPlain DEF d, e
  <1>8. e = Meaning(New(w, s))
    BY <1>1 DEF Meaning, e, N
  <1>9. Len(e.rest) = n - F
    <2>1. Len(e.rest) = Len(m.rest) + (q - p) /\ Len(m.rest) = i - F
      BY <1>6, <1>7 DEF Adds, Lies
    <2>2. (i - F) + (q - p) = n - F
      BY <1>0 DEF p, q
    <2> QED
      BY <2>1, <2>2, Zenon
  <1>10. ASSUME NEW k \in 1 .. n - F
         PROVE  e.rest[k] = y[F + 1 + k - 1]
    <2> DEFINE j == F + 1 + k - 1
    <2>0. j = F + k /\ j \in 1 .. n /\ j \in Int
      BY <1>0
    <2> HIDE DEF j
    <2>1. CASE k <= i - F
      <3>1. k \in 1 .. i - F /\ ~(j < F \/ j >= i + 1) /\ ~(j < F + (i + 1) - i)
            /\ j - (i + 1) + i = F + k - 1
        BY <1>0, <2>0, <2>1
      <3>2. y[j] = b[F + k - 1]
        BY <2>0, <3>1 DEF Rotated
      <3>3. Len(m.rest) = i - F
        BY DEF Lies
      <3>4. e.rest[k] = b[F + k - 1]
        BY <1>6, <1>7, <3>1, <3>3 DEF Adds, Lies
      <3> QED
        BY <3>2, <3>4 DEF j
    <2>2. CASE ~(k <= i - F)
      <3> DEFINE k2 == k - (i - F)
      <3>1. k2 \in 1 .. q - p /\ (i - F) + k2 = k /\ p + k2 \in 1 .. q /\ s + (p + k2) = j
            /\ j >= i + 1 /\ j \in i .. n
        BY <1>0, <2>0, <2>2 DEF p, q
      <3> HIDE DEF k2
      <3>2. e.rest[(i - F) + k2] = N[p + k2]
        <4>1. Len(d.rest) = i - F
          BY <1>6 DEF Lies
        <4> QED
          BY <1>7, <3>1, <4>1 DEF Adds
      <3>3. N[p + k2] = w[j]
        BY <1>1, <3>1
      <3>4. y[j] = w[j]
        <4>1. y[j] = b[j]
          BY <2>0, <3>1 DEF Rotated
        <4> QED
          BY <3>1, <4>1 DEF Lies, n
      <3> QED
        BY <3>1, <3>2, <3>3, <3>4 DEF j
    <2> QED
      BY <2>1, <2>2
  <1>11. ASSUME NEW j \in 1 .. s
         PROVE  y[j] = w[j]
    <2>1. j \in 1 .. n /\ j < F
      BY <1>0
    <2> QED
      BY <2>1 DEF Rotated, Lies
  <1>12. LeftOver(y, F + 1, s, w, e)
    <2>1. F + 1 \in s + 1 .. n + 1 /\ n + 1 - (F + 1) = n - F
      BY <1>0
    <2>2. ReadOK(e)
      BY <1>7 DEF Adds
    <2> QED
      BY <1>9, <1>10, <1>11, <2>1, <2>2 DEF LeftOver
  <1> QED
    BY <1>6, <1>7, <1>8, <1>12 DEF Adds

\* m2 has read one option more than m, with what getopt returned for it.
Took(m, m2, got) ==
  IF got.ret = "0"
  THEN /\ m2.last = [m.last EXCEPT ![got.index] = got.optarg]
       /\ m2.times = [m.times EXCEPT ![got.index] = @ + 1]
  ELSE m2.last = m.last /\ m2.times = m.times

\* An option is read, with the word behind it if it takes that.
LEMMA OneOption ==
  ASSUME NEW b, NEW F, NEW s, NEW w, NEW m, NEW i, Lies(b, F, i, i, s, w, m), i <= Len(b),
         Words[b[i]].kind \notin {"other", "end"}
  PROVE  LET t == Scan(b, i)
             m2 == Reading(New(w, s))[(i + t[2]) - 1 - s]
         IN  Lies(b, F, i, i + t[2], s, w, m2) /\ Took(m, m2, t[1])
  <1> DEFINE n == Len(b)
             N == New(w, s)
             p == i - s
             q == n - s
             t == Scan(b, i)
             d == Reading(N)[p]
             m2 == Reading(N)[(i + t[2]) - 1 - s]
  <1>0. /\ n \in Nat /\ s \in Nat /\ F \in Nat /\ i \in Nat /\ Len(w) = n
        /\ s + 1 <= F /\ F <= i /\ i <= n /\ s <= n
        /\ b \in Seq(DOMAIN Words) /\ i \in 1 .. n /\ b[i] \in DOMAIN Words
    <2>1. /\ n \in Nat /\ s \in Nat /\ F \in Nat /\ i \in Nat /\ Len(w) = n
          /\ s + 1 <= F /\ F <= i /\ i <= n /\ b \in Seq(DOMAIN Words)
      BY DEF Lies
    <2>2. i \in 1 .. n /\ s <= n
      BY <2>1
    <2> QED
      BY <2>1, <2>2
  <1>1. N \in Seq(DOMAIN Words) /\ Len(N) = q /\ \A k \in 1 .. q : N[k] = w[s + k]
    BY <1>0, NewIs DEF Lies
  <1>2. p \in Nat /\ q \in Nat /\ p \in 1 .. q /\ p - 1 = i - 1 - s /\ s + p = i
    BY <1>0
  <1> HIDE DEF N
  <1>3. N[p] = b[i]
    <2>1. b[i] = w[i]
      BY <1>0 DEF Lies
    <2> QED
      BY <1>1, <1>2, <2>1
  <1>4. m = Reading(N)[p - 1] /\ ReadOK(m) /\ ~m.ended /\ m.next <= p /\ m.next \in Int
    BY <1>2 DEF Lies, ReadOK, N
  <1>5. Scan(N, p) = t
    <2>1. Len(N) - p = n - i
      BY <1>0, <1>1
    <2>2. ASSUME p < q
          PROVE  N[p + 1] = b[i + 1]
      <3>1. p + 1 \in 1 .. q /\ s + (p + 1) = i + 1 /\ i + 1 \in i .. n
        BY <1>0, <1>2, <2>2
      <3>2. b[i + 1] = w[i + 1]
        BY <3>1 DEF Lies
      <3> QED
        BY <1>1, <3>1, <3>2
    <2> HIDE DEF p, q, n
    <2>3. Scan(N, p) = Scan(b, i)
      <3>1. N \in Seq(DOMAIN Words) /\ b \in Seq(DOMAIN Words) /\ p \in 1 .. Len(N) /\ i \in 1 .. Len(b)
        BY <1>0, <1>1, <1>2 DEF n
      <3>2. N[p] = b[i] /\ Len(N) - p = Len(b) - i /\ (p < Len(N) => N[p + 1] = b[i + 1])
        BY <1>1, <1>3, <2>1, <2>2 DEF n
      <3> QED
        BY <3>1, <3>2, ScanSame
    <2> QED
      BY <2>3
  <1>6. /\ t[1].ret \in {"?", "0"} /\ t[2] \in {1, 2} /\ i + t[2] <= n + 1
        /\ t[1].ret = "0" => t[1].index \in DOMAIN Options
    BY <1>0, ScanIs, ScanTakes
  <1> DEFINE taken == t[1].ret = "0"
             k == t[1].index
             last2 == IF taken THEN [m.last EXCEPT ![k] = t[1].optarg] ELSE m.last
             times2 == IF taken THEN [m.times EXCEPT ![k] = @ + 1] ELSE m.times
  <1>7. d = ReadWord(N, m, p)
    BY <1>1, <1>2, <1>4, ReadingIs
  <1>8. /\ d = [next |-> d.next, ended |-> d.ended, rest |-> d.rest, last |-> d.last,
                times |-> d.times]
        /\ d.ended = FALSE /\ d.next = p + t[2] /\ d.rest = m.rest /\ d.last = last2
        /\ d.times = times2
    <2>1. /\ ~(p < m.next) /\ ~m.ended
          /\ \/ Words[N[p]].kind = "option"
             \/ Words[N[p]].kind = "letters" /\ t[1].ret # "0"
      <3>1. Words[b[i]].kind \in Kinds
        BY <1>0, ArgsAssumption
      <3>2. Words[b[i]].kind = "letters" => t[1].ret = "?"
        BY <1>0, ScanLetters DEF Got
      <3> HIDE DEF t
      <3> QED
        BY <1>2, <1>3, <1>4, <3>1, <3>2 DEF Kinds
    <2>2. t = Scan(N, p)
      BY <1>5
    <2> HIDE DEF d, p, t
    <2>3. OptionRead(m, d, p, t)
      BY <1>7, <2>1, <2>2, ReadOption
    <2> QED
      BY <2>3 DEF OptionRead
  <1>9. ReadOK(d) /\ ~d.ended
    <2>1. last2 = [x \in DOMAIN Options |-> last2[x]]
      <3>1. m.last = [x \in DOMAIN Options |-> m.last[x]]
        BY <1>4 DEF ReadOK
      <3>2. DOMAIN m.last = DOMAIN Options
        BY <3>1
      <3> DEFINE g == m.last
                 g2 == [g EXCEPT ![k] = t[1].optarg]
      <3>3. g2 = [x \in DOMAIN Options |-> g2[x]]
        <4> HIDE DEF g, k, t
        <4>1. DOMAIN g = DOMAIN Options
          BY <3>2 DEF g
        <4> QED
          BY <4>1
      <3> HIDE DEF t, k
      <3> QED
        BY <3>1, <3>3
    <2>2. times2 \in [DOMAIN Options -> Nat]
      <3>1. m.times \in [DOMAIN Options -> Nat]
        BY <1>4 DEF ReadOK
      <3>2. taken => k \in DOMAIN Options
        BY <1>6
      <3> HIDE DEF t, k, taken
      <3> QED
        BY <3>1, <3>2
    <2>3. p + t[2] \in Int
      BY <1>2, <1>6
    <2> HIDE DEF d, last2, times2, p, t
    <2> QED
      BY <1>4, <1>8, <2>1, <2>2, <2>3 DEF ReadOK
  <1>10. m2 = d
    <2>1. CASE t[2] = 1
      <3>1. (i + t[2]) - 1 - s = p
        BY <1>0, <2>1
      <3> QED
        BY <3>1
    <2>2. CASE t[2] = 2
      <3>1. (i + t[2]) - 1 - s = p + 1 /\ p + 1 \in 1 .. q /\ (p + 1) - 1 = p /\ p + 1 < p + t[2]
        BY <1>0, <1>6, <2>2
      <3> HIDE DEF d, p, t, q
      <3>2. Reading(N)[p + 1] = ReadWord(N, d, p + 1)
        BY <1>1, <1>2, <3>1, ReadingIs DEF d
      <3>3. ReadWord(N, d, p + 1) = d
        BY <1>8, <3>1 DEF ReadWord
      <3> QED
        BY <3>1, <3>2, <3>3
    <2> QED
      BY <1>6, <2>1, <2>2
  <1>11. Took(m, m2, t[1])
    <2> HIDE DEF d, m2, p, t
    <2> QED
      BY <1>8, <1>10 DEF Took
  <1>12. Lies(b, F, i, i + t[2], s, w, m2)
    <2>1. i + t[2] \in Nat /\ i <= i + t[2] /\ p + t[2] = (i + t[2]) - s
          /\ \A j \in i + t[2] .. n : j \in i .. n
      BY <1>0, <1>6
    <2>2. m2 = Reading(New(w, s))[(i + t[2]) - 1 - s]
      <3> HIDE DEF t
      <3> QED
        BY Zenon DEF N
    <2>3. m2.rest = m.rest /\ ReadOK(m2) /\ ~m2.ended /\ m2.next <= (i + t[2]) - s
      <3>1. d.next \in Int
        BY <1>9 DEF ReadOK
      <3> HIDE DEF d, m2, p, t
      <3> QED
        BY <1>8, <1>9, <1>10, <2>1, <3>1
    <2> HIDE DEF m2, t, p
    <2> QED
      BY <1>0, <1>6, <2>1, <2>2, <2>3 DEF Lies
  <1> QED
    BY <1>11, <1>12 DEF N

\* r, returned at m, has read an option or says that the n words are at their end.
Reads(r, m, n, s, w) ==
  LET m2 == Reading(New(w, s))[r.go.optind - 1 - s]
      e == Meaning(New(w, s))
  IN  /\ r.got.ret # "end" =>
           /\ Lies(r.argv, r.go.first, r.go.last, r.go.optind, s, w, m2)
           /\ Took(m, m2, r.got) /\ r.got.ret \in {"?", "0"}
           /\ r.got.ret = "0" => /\ r.got.index \in DOMAIN Options
                                 /\ HasArg(r.got.index) <=> r.got.optarg # NoArg
      /\ r.got.ret = "end" =>
           /\ LeftOver(r.argv, r.go.first, s, w, e)
           /\ e.last = m.last /\ e.times = m.times
           /\ r.go = [optind |-> r.go.first, first |-> r.go.first, last |-> n + 1,
                      nextchar |-> 0]

\* Before that it had read, as mi, the words before the one that it found.
Found(r, m, mi, s, w) ==
  r.got.ret # "end" =>
    /\ Lies(r.argv, r.go.first, r.go.last, r.go.last, s, w, mi)
    /\ mi.last = m.last /\ mi.times = m.times /\ r.go.last <= Len(r.argv)
    /\ r.go \in GoType /\ r.go.nextchar = 0

\* The next word: it is an option that has been read, or letters, or the end.
LEMMA NextWordReads ==
  ASSUME NEW g, NEW a, NEW s, NEW w, NEW m, g \in GoType,
         Lies(a, g.first, g.last, g.optind, s, w, m)
  PROVE  LET r == NextWord(g, a)
             mi == Reading(New(w, s))[r.go.last - 1 - s]
         IN  Reads(r, m, Len(a), s, w) /\ Found(r, m, mi, s, w)
  <1> DEFINE n == Len(a)
             o == g.optind
             g0 == [g EXCEPT !.last = IF @ > g.optind THEN g.optind ELSE @,
                             !.first = IF @ > g.optind THEN g.optind ELSE @]
             x == Exchanged(g0, a)
             b1 == x.argv
             F == x.first
             i == NextOption(b1, g.optind)
             end == i <= n /\ Words[b1[i]].kind = "end"
             h == [optind |-> i + 1, first |-> F, last |-> i]
             y == Exchanged(h, b1)
             b == IF end THEN y.argv ELSE b1
             first == IF ~end THEN F ELSE IF F = i THEN i + 1 ELSE y.first
             stop == n + 1
             t == Scan(b, i)
             out == [got |-> Got("end", 0, NoArg), argv |-> b,
                     go |-> [optind |-> IF first # stop THEN first ELSE stop,
                             first |-> first, last |-> stop, nextchar |-> 0]]
             turn == [got |-> t[1], argv |-> b,
                      go |-> [optind |-> i + t[2], first |-> first, last |-> i, nextchar |-> 0]]
             mi == Reading(New(w, s))[i - 1 - s]
             e == Meaning(New(w, s))
  <1>1. NextWord(g, a) = IF end \/ i = stop THEN out ELSE turn
    BY DEF NextWord
  <1>2. /\ n \in Nat /\ o \in Nat /\ o <= n + 1 /\ a \in Seq(DOMAIN Words)
        /\ g0.optind = o /\ g0.first = g.first /\ g0.last = g.last
        /\ g.first \in Nat /\ g.last \in Nat /\ 1 <= g.first /\ g.first <= g.last /\ g.last <= o
    BY DEF Lies, GoType
  <1>3. F = g.first + o - g.last /\ Rotated(a, b1, g.first, g.last, o)
        /\ b1 \in Seq(DOMAIN Words) /\ Len(b1) = n
    <2> HIDE DEF g0
    <2> QED
      BY <1>2, ExchangeIs, ExchangeKeeps
  <1> HIDE DEF g0, x
  <1>4. Lies(b1, F, o, o, s, w, m)
    <2> HIDE DEF b1, F, o
    <2> QED
      BY <1>3, LiesTogether DEF o
  <1>5. /\ i \in o .. n + 1 /\ \A j \in o .. i - 1 : Words[b1[j]].kind = "other"
        /\ i <= n => Words[b1[i]].kind # "other"
    BY <1>2, <1>3, NextOptionIs
  <1> HIDE DEF i, F, b1, o
  <1>6. Lies(b1, F, i, i, s, w, mi) /\ mi.last = m.last /\ mi.times = m.times
    BY <1>3, <1>4, <1>5, LiesFurther DEF n
  <1>7. F \in Nat /\ i \in Nat /\ s \in Nat /\ 1 <= F /\ F <= i /\ s + 1 <= F
    BY <1>6 DEF Lies
  <1> HIDE DEF mi
  <1>8. CASE end
    <2>1. i <= n /\ Words[b1[i]].kind = "end" /\ b = y.argv
      BY <1>8
    <2>2. y.first = F + 1 /\ Rotated(b1, y.argv, F, i, i + 1)
          /\ y.argv \in Seq(DOMAIN Words) /\ Len(y.argv) = n
      <3>1. h.optind = i + 1 /\ h.first = F /\ h.last = i
        OBVIOUS
      <3>2. i + 1 \in Nat /\ i <= i + 1 /\ i + 1 <= Len(b1) + 1 /\ F + (i + 1) - i = F + 1
        BY <1>2, <1>3, <1>7, <2>1
      <3> HIDE DEF h
      <3> QED
        BY <1>3, <1>7, <3>1, <3>2, ExchangeIs, ExchangeKeeps
    <2> HIDE DEF y
    <2>3. LeftOver(y.argv, F + 1, s, w, e) /\ e.last = m.last /\ e.times = m.times
      BY <1>3, <1>6, <2>1, <2>2, EndMark
    <2>4. first = F + 1
      BY <1>7, <1>8, <2>2
    <2> HIDE DEF e, b, first, end
    <2>5. NextWord(g, a) = out
      BY <1>1, <1>8
    <2>6. out.argv = b /\ out.go = [optind |-> first, first |-> first, last |-> n + 1,
                                         nextchar |-> 0]
          /\ out.go.first = first /\ out.got.ret = "end"
      BY DEF Got
    <2> HIDE DEF out
    <2> QED
      BY <2>1, <2>3, <2>4, <2>5, <2>6 DEF e, n, Reads, Found
  <1>9. CASE ~end /\ i = stop
    <2>1. b = b1 /\ first = F /\ i = Len(b1) + 1
      BY <1>3, <1>9
    <2>2. mi = e /\ LeftOver(b1, F, s, w, e)
      BY <1>6, <2>1, EndWords
    <2> HIDE DEF e, b, first, end
    <2>5. NextWord(g, a) = out
      BY <1>1, <1>9
    <2>6. out.argv = b /\ out.go = [optind |-> first, first |-> first, last |-> n + 1,
                                         nextchar |-> 0]
          /\ out.go.first = first /\ out.got.ret = "end"
      BY DEF Got
    <2> HIDE DEF out
    <2> QED
      BY <1>6, <2>1, <2>2, <2>5, <2>6 DEF e, n, Reads, Found
  <1>10. CASE ~end /\ i # stop
    <2>1. b = b1 /\ first = F /\ i <= Len(b1) /\ i \in 1 .. Len(b1)
      BY <1>2, <1>3, <1>5, <1>7, <1>10
    <2>2. Words[b1[i]].kind \notin {"other", "end"}
      BY <1>3, <1>5, <1>10, <2>1
    <2>3. t = Scan(b1, i)
      BY <2>1
    <2>4. b1[i] \in DOMAIN Words
      BY <1>3, <2>1
    <2> HIDE DEF b, first, end, e, t
    <2> DEFINE m2 == Reading(New(w, s))[(i + t[2]) - 1 - s]
    <2>5. Lies(b1, F, i, i + t[2], s, w, m2) /\ Took(mi, m2, t[1])
      BY <1>6, <2>1, <2>2, <2>3, OneOption
    <2> HIDE DEF m2
    <2>6. Took(m, m2, t[1])
      BY <1>6, <2>5 DEF Took
    <2>7. /\ t[1].ret \in {"?", "0"}
          /\ t[1].ret = "0" => /\ t[1].index \in DOMAIN Options
                               /\ HasArg(t[1].index) <=> t[1].optarg # NoArg
      BY <1>3, <2>1, <2>3, <2>4, ScanIs
    <2>8. NextWord(g, a) = turn
      BY <1>1, <1>10
    <2>9. turn.argv = b /\ turn.got = t[1]
          /\ turn.go.optind = i + t[2] /\ turn.go.first = first /\ turn.go.last = i
          /\ turn.go = [optind |-> i + t[2], first |-> first, last |-> i, nextchar |-> 0]
      OBVIOUS
    <2> HIDE DEF turn
    <2>10. Reading(New(w, s))[turn.go.optind - 1 - s] = m2
      BY <2>9, Zenon DEF m2
    <2>12. turn.got.ret # "end"
      BY <2>7, <2>9
    <2>11. Lies(turn.argv, turn.go.first, turn.go.last, turn.go.optind, s, w, m2)
      BY <2>1, <2>5, <2>9
    <2>13. Lies(turn.argv, turn.go.first, turn.go.last, turn.go.last, s, w, mi)
           /\ turn.go.last <= Len(turn.argv)
      BY <1>6, <2>1, <2>9
    <2>14. turn.go \in GoType /\ turn.go.nextchar = 0
      <3>1. i + t[2] \in Nat
        BY <2>5 DEF Lies
      <3> QED
        BY <1>7, <2>1, <2>9, <3>1 DEF GoType
    <2>15. mi = Reading(New(w, s))[turn.go.last - 1 - s]
      BY <2>9, Zenon DEF mi
    <2> QED
      BY <1>6, <2>6, <2>7, <2>8, <2>9, <2>10, <2>11, <2>12, <2>13, <2>14, <2>15
         DEF Reads, Found
  <1> QED
    BY <1>8, <1>9, <1>10

\* While letters of a word are unread, it is the word at optind.
MidWord(g, a) ==
  g.nextchar > 0 =>
    g.last = g.optind /\ g.optind <= Len(a) /\ Words[a[g.optind]].kind = "letters"

\* A letter changes nothing of what has been read; with the last one the word has
\* been, and means nothing.
LEMMA LetterReads ==
  ASSUME NEW g, NEW a, NEW s, NEW w, NEW m, g \in GoType, g.nextchar > 0, MidWord(g, a),
         Lies(a, g.first, g.last, g.optind, s, w, m)
  PROVE  LET r == Letter(g, a)
             m2 == Reading(New(w, s))[r.go.optind - 1 - s]
         IN  /\ Lies(r.argv, r.go.first, r.go.last, r.go.optind, s, w, m2)
             /\ Took(m, m2, r.got) /\ r.got.ret = "?" /\ MidWord(r.go, r.argv)
  <1> DEFINE r == Letter(g, a)
             i == g.optind
             o == IF g.nextchar = 1 THEN i + 1 ELSE i
             m2 == Reading(New(w, s))[o - 1 - s]
  <1>1. /\ r.argv = a /\ r.got.ret = "?" /\ r.go.first = g.first /\ r.go.last = i
        /\ r.go.optind = o /\ r.go.nextchar = g.nextchar - 1
    BY DEF Letter, Got, GoType, MidWord
  <1>2. g.last = i /\ i <= Len(a) /\ Words[a[i]].kind = "letters" /\ g.nextchar \in Nat
    BY DEF GoType, MidWord
  <1>3. Lies(a, g.first, i, i, s, w, m)
    BY <1>2
  <1>4. a \in Seq(DOMAIN Words) /\ i \in 1 .. Len(a) /\ a[i] \in DOMAIN Words
    <2>1. a \in Seq(DOMAIN Words) /\ i \in Nat /\ 1 <= i
      BY <1>2 DEF Lies
    <2> QED
      BY <1>2, <2>1
  <1> HIDE DEF r, i
  <1>5. Lies(a, g.first, i, o, s, w, m2) /\ m2.last = m.last /\ m2.times = m.times
    <2>1. CASE g.nextchar = 1
      <3>1. Scan(a, i)[1] = Got("?", 0, NoArg) /\ Scan(a, i)[2] = 1
        BY <1>2, <1>4, ScanLetters
      <3> DEFINE t == Scan(a, i)
                 m1 == Reading(New(w, s))[(i + t[2]) - 1 - s]
      <3>2. Lies(a, g.first, i, i + t[2], s, w, m1) /\ Took(m, m1, t[1])
        BY <1>2, <1>3, OneOption
      <3>3. i + t[2] = o
        BY <2>1, <3>1
      <3>4. m1 = m2
        BY <3>3
      <3>5. t[1].ret # "0"
        BY <3>1 DEF Got
      <3> HIDE DEF t, m1, m2, o
      <3> QED
        BY <3>2, <3>3, <3>4, <3>5 DEF Took
    <2>2. CASE g.nextchar # 1
      <3>1. o = i
        BY <2>2
      <3>2. m2 = m
        BY <1>3, <3>1 DEF Lies
      <3> HIDE DEF m2, o
      <3> QED
        BY <1>3, <3>1, <3>2
    <2> QED
      BY <2>1, <2>2
  <1>6. MidWord(r.go, r.argv)
    BY <1>1, <1>2 DEF MidWord
  <1>7. m2 = Reading(New(w, s))[r.go.optind - 1 - s]
    BY <1>1
  <1> HIDE DEF m2, o
  <1>8. Took(m, m2, r.got)
    BY <1>1, <1>5 DEF Took
  <1> QED
    BY <1>1, <1>5, <1>6, <1>7, <1>8 DEF r

\* One call of getopt_long: it has read an option or a letter, or returns the end.
LEMMA GetoptReads ==
  ASSUME NEW g, NEW a, NEW s, NEW w, NEW m, g \in GoType, MidWord(g, a),
         Lies(a, g.first, g.last, g.optind, s, w, m)
  PROVE  LET r == GetoptLong(g, a) IN
         Reads(r, m, Len(a), s, w) /\ (r.got.ret # "end" => MidWord(r.go, r.argv))
  <1> DEFINE r == GetoptLong(g, a)
             x == NextWord(g, a)
             i == x.go.last
             v == Words[x.argv[i]]
             h == [x.go EXCEPT !.optind = i, !.nextchar = v.letters]
             mi == Reading(New(w, s))[i - 1 - s]
  <1>1. CASE g.nextchar > 0
    <2>1. r = Letter(g, a)
      BY <1>1 DEF GetoptLong, ByLetters
    <2> HIDE DEF r
    <2> DEFINE m2 == Reading(New(w, s))[r.go.optind - 1 - s]
    <2>2. /\ Lies(r.argv, r.go.first, r.go.last, r.go.optind, s, w, m2)
          /\ Took(m, m2, r.got) /\ r.got.ret = "?" /\ MidWord(r.go, r.argv)
      BY <1>1, <2>1, LetterReads
    <2> QED
      BY <2>2 DEF r, Reads
  <1>2. CASE ~(g.nextchar > 0) /\ x.got.ret # "end" /\ v.kind = "letters"
    <2>1. r = Letter(h, x.argv)
      BY <1>2 DEF GetoptLong, ByLetters
    <2> HIDE DEF r
    <2>2. /\ Lies(x.argv, x.go.first, i, i, s, w, mi) /\ mi.last = m.last /\ mi.times = m.times
          /\ i <= Len(x.argv) /\ x.go \in GoType
      <3>1. Found(x, m, mi, s, w)
        BY NextWordReads
      <3> HIDE DEF x, mi
      <3> QED
        BY <1>2, <3>1 DEF Found
    <2> HIDE DEF x, mi
    <2>3. v.letters \in Nat /\ v.letters > 0
      <3>1. x.argv \in Seq(DOMAIN Words) /\ i \in Nat /\ s \in Nat /\ s + 1 <= i
        BY ONLY <2>2 DEF Lies
      <3>2. x.argv[i] \in DOMAIN Words
        BY <2>2, <3>1
      <3> QED
        BY <1>2, <3>2, ArgsAssumption
    <2>4. /\ h \in GoType /\ h.nextchar > 0 /\ h.optind = i /\ h.last = i
          /\ h.first = x.go.first
      BY <2>2, <2>3 DEF GoType
    <2> HIDE DEF h
    <2>5. MidWord(h, x.argv)
      BY <1>2, <2>2, <2>4 DEF MidWord
    <2> DEFINE m2 == Reading(New(w, s))[r.go.optind - 1 - s]
    <2>6. /\ Lies(r.argv, r.go.first, r.go.last, r.go.optind, s, w, m2)
          /\ Took(mi, m2, r.got) /\ r.got.ret = "?" /\ MidWord(r.go, r.argv)
      BY <2>1, <2>2, <2>4, <2>5, LetterReads
    <2> HIDE DEF m2
    <2>7. Took(m, m2, r.got)
      BY <2>2, <2>6 DEF Took
    <2> QED
      BY <2>6, <2>7 DEF r, m2, Reads
  <1>3. CASE ~(g.nextchar > 0) /\ ~(x.got.ret # "end" /\ v.kind = "letters")
    <2>1. r = x
      BY <1>3 DEF GetoptLong, ByLetters
    <2>2. Reads(x, m, Len(a), s, w) /\ Found(x, m, mi, s, w)
      BY NextWordReads
    <2> HIDE DEF r, x, mi
    <2>3. x.got.ret # "end" => MidWord(x.go, x.argv)
      BY <2>2 DEF MidWord, Found
    <2> QED
      BY <2>1, <2>2, <2>3 DEF r
  <1> QED
    BY <1>1, <1>2, <1>3

----------------------------------------------------------------------------
\* The inductive invariant of the parses

ParseType == [pc : {"idle", "loop", "done", "trap"}, strict : BOOLEAN, err : Int,
              given : Seq(DOMAIN Words), left : BOOLEAN, seen : Nat, clean : BOOLEAN]
CallsType == [parses : Nat, shown : {"nothing", "help", "paths"}]

PlaceInv ==
  /\ argv \in Seq(DOMAIN Words)
  /\ Placed(go, Len(argv))
  /\ parse \in ParseType
  /\ calls \in CallsType

LEMMA PlaceInit == Init => PlaceInv
  <1> SUFFICES ASSUME Init PROVE PlaceInv
    OBVIOUS
  <1>1. <<>> \in Seq(DOMAIN Words) /\ Len(<<>>) = 0
    OBVIOUS
  <1>2. Placed(go, 0)
    BY DEF Init, ArgsInit, Placed, GoType
  <1>3. parse \in ParseType
    BY <1>1 DEF Init, ArgsInit, ParseType
  <1>4. argv = <<>> /\ calls \in CallsType
    BY DEF Init, ArgsInit, CallsType
  <1> QED
    BY <1>1, <1>2, <1>3, <1>4 DEF PlaceInv, ParseType, CallsType

\* A call does not reset getopt, but has no fewer words than the one before.
LEMMA StartKeeps ==
  ASSUME PlaceInv, NEW given \in Seq(DOMAIN Words), NEW strict \in BOOLEAN,
         StartParse(given, strict)
  PROVE  /\ argv' \in Seq(DOMAIN Words) /\ Placed(go, Len(argv')) /\ go' = go
         /\ parse' \in ParseType
         /\ ~Parsing
  <1> DEFINE a == Alloc(arena, OptionSize, Align, Len(Options) + 1, FALSE)
             pc == IF a.out = "trap" THEN "trap" ELSE "loop"
  <1>1. /\ parse.pc \in {"idle", "done"} /\ Len(given) >= Len(argv) /\ argv' = given /\ go' = go
        /\ parse' = [pc |-> pc, strict |-> strict, err |-> 0, given |-> given, left |-> FALSE,
                     seen |-> Len(argv), clean |-> parse.clean /\ ~parse.left]
    BY DEF StartParse
  <1>2. pc \in {"idle", "loop", "done", "trap"}
    <2>1. pc = "trap" \/ pc = "loop"
      OBVIOUS
    <2> HIDE DEF pc
    <2> QED
      BY <2>1
  <1> HIDE DEF pc
  <1>3. Len(argv) \in Nat /\ Len(given) \in Nat
    BY DEF PlaceInv, ParseType, CallsType
  <1>4. Placed(go, Len(given))
    BY <1>1, <1>3 DEF PlaceInv, Placed, GoType, ParseType, CallsType
  <1> QED
    BY <1>1, <1>2, <1>3, <1>4 DEF Parsing, PlaceInv, ParseType

\* What EveryTurnAdvances says of a turn.
Advances ==
  \/ go'.optind > go.optind /\ go'.optind <= Argc'
  \/ go'.optind = go.optind /\ UnreadLetters(go', argv') < UnreadLetters(go, argv)

LEMMA PlaceStep ==
  ASSUME PlaceInv, [Next]_vars
  PROVE  PlaceInv' /\ (UNCHANGED vars \/ (Parsing /\ parse'.pc = "loop" => Advances))
  <1> DEFINE r == GetoptLong(go, argv)
  <1>1. CASE UNCHANGED vars
    BY <1>1 DEF PlaceInv, vars, argsVars, ParseType, CallsType
  <1>2. CASE Harness \/ Expect \/ MdcodeEnd
    <2>1. ~Parsing
      BY <1>2 DEF Harness, Expect, MdcodeEnd, Parsing
    <2>2. UNCHANGED argsVars
      BY <1>2 DEF Harness, Expect, MdcodeEnd, argsVars
    <2>3. calls' \in CallsType
      <3>1. CASE calls' = calls
        BY <3>1 DEF PlaceInv, ParseType, CallsType
      <3>2. CASE MdcodeEnd
        <4>1. PICK x \in {"nothing", "help", "paths"} : calls' = [calls EXCEPT !.shown = x]
          <5>1. (IF parse.err # 0 THEN "nothing" ELSE IF opts[Help].value THEN "help" ELSE "paths")
                  \in {"nothing", "help", "paths"}
            OBVIOUS
          <5> QED
            BY <3>2, <5>1 DEF MdcodeEnd
        <4> QED
          BY <4>1 DEF PlaceInv, ParseType, CallsType
      <3> QED
        BY <1>2, <3>1, <3>2 DEF Harness, Expect
    <2> QED
      BY <2>1, <2>2, <2>3 DEF PlaceInv, argsVars, ParseType, CallsType
  <1>3. CASE CaseParse \/ MdcodeParse
    <2>1. PICK given \in Seq(DOMAIN Words), strict \in BOOLEAN : StartParse(given, strict)
      <3>1. CASE CaseParse
        <4>1. calls.parses + 1 \in 1 .. Len(Lines)
          BY <3>1, ProgramsAssumption DEF CaseParse, PlaceInv, ParseType, CallsType
        <4>2. Lines[calls.parses + 1] \subseteq Seq(DOMAIN Words)
          BY <4>1, ProgramsAssumption
        <4> QED
          BY <3>1, <4>2 DEF CaseParse
      <3>2. CASE MdcodeParse
        BY <3>2, ProgramsAssumption DEF MdcodeParse
      <3> QED
        BY <1>3, <3>1, <3>2
    <2>2. calls' \in CallsType
      <3>1. calls.parses + 1 \in Nat /\ calls \in CallsType
        BY DEF PlaceInv, ParseType, CallsType
      <3>2. \/ calls' = [calls EXCEPT !.parses = calls.parses + 1]
            \/ calls' = [calls EXCEPT !.parses = 1]
        BY <1>3 DEF CaseParse, MdcodeParse
      <3> QED
        BY <3>1, <3>2 DEF CallsType
    <2> QED
      BY <2>1, <2>2, StartKeeps DEF PlaceInv, ParseType, CallsType
  <1>4. /\ r.argv \in Seq(DOMAIN Words) /\ Len(r.argv) = Len(argv)
        /\ Placed(r.go, Len(argv)) /\ (r.got.ret = "end" => r.go.nextchar = 0)
        /\ r.got.ret # "end" =>
             \/ r.go.optind > go.optind
             \/ r.go.optind = go.optind /\ UnreadLetters(r.go, r.argv) < UnreadLetters(go, argv)
    BY GetoptMoves DEF PlaceInv, ParseType, CallsType
  <1> HIDE DEF r
  <1>5. CASE TakeOption /\ UNCHANGED <<suiteVars, calls>>
    <2>1. argv' = r.argv /\ go' = r.go /\ r.got.ret # "end" /\ parse' = parse
      BY <1>5 DEF TakeOption, r
    <2>2. go'.optind <= Argc'
      BY <1>4, <2>1 DEF Argc, Placed
    <2>3. Advances
      BY <1>4, <2>1, <2>2 DEF Advances
    <2> QED
      BY <1>4, <1>5, <2>1, <2>3 DEF PlaceInv, ParseType, CallsType
  <1>6. CASE FinishParse /\ UNCHANGED <<suiteVars, calls>>
    <2> DEFINE refused == parse.strict /\ r.go.optind < Argc
               left == r.go.optind < Argc
    <2>1. /\ argv' = r.argv
          /\ parse' = [parse EXCEPT !.pc = "done", !.left = left, !.err = IF refused THEN -1 ELSE 0]
          /\ go' = IF refused THEN r.go ELSE [r.go EXCEPT !.optind = Argc]
          /\ r.got.ret = "end"
      BY <1>6 DEF FinishParse, r
    <2>2. Placed(go', Len(argv))
      <3>1. Argc = Len(argv) + 1 /\ Len(argv) \in Nat
        BY DEF Argc, PlaceInv, ParseType, CallsType
      <3> QED
        BY <1>4, <2>1, <3>1 DEF Placed, GoType
    <2>3. /\ parse'.pc = "done"
          /\ parse' \in ParseType
      <3>1. left \in BOOLEAN /\ (IF refused THEN -1 ELSE 0) \in Int
        OBVIOUS
      <3> DEFINE err == IF refused THEN -1 ELSE 0
      <3>2. parse' = [parse EXCEPT !.pc = "done", !.left = left, !.err = err] /\ err \in Int
        BY <2>1, <3>1
      <3> HIDE DEF left, err
      <3> QED
        BY <3>1, <3>2 DEF PlaceInv, ParseType, CallsType
    <2> QED
      BY <1>4, <1>6, <2>1, <2>2, <2>3 DEF PlaceInv, ParseType, CallsType
  <1> QED
    BY <1>1, <1>2, <1>3, <1>5, <1>6 DEF Next, Rest, ParseStep

----------------------------------------------------------------------------
\* The inductive invariant of what the parses read

\* The entry o of option i has what t words of it say, the last one with l.
Tells(i, o, t, l) ==
  /\ o.found <=> (HasArg(i) /\ t > 0)
  /\ Options[i].type = "Bool" =>
       o.value = IF t % 2 = 0 THEN Options[i].default ELSE ~Options[i].default
  /\ Options[i].type = "String" => o.value = IF t > 0 THEN l ELSE Options[i].default
  /\ Options[i].type \in {"Integer", "Float"} =>
       o.value = IF t > 0 THEN Words[l].number ELSE Options[i].default

LEMMA ToldIs ==
  ASSUME NEW o, NEW m
  PROVE  Told(o, m) <=> \A i \in DOMAIN Options : Tells(i, o[i], m.times[i], m.last[i])
  BY DEF Told, Tells

\* The table as a program sees it: a value and found for each option.
TableOK(os) ==
  /\ os = [i \in DOMAIN Options |-> os[i]]
  /\ \A i \in DOMAIN Options : os[i] = [value |-> os[i].value, found |-> os[i].found]

LEMMA FreshTold == TableOK(Fresh) /\ Told(Fresh, Unread)
  <1>1. TableOK(Fresh)
    BY DEF TableOK, Fresh
  <1>2. ASSUME NEW i \in DOMAIN Options
        PROVE  Tells(i, Fresh[i], Unread.times[i], Unread.last[i])
    <2>1. Unread.times[i] = 0 /\ ~(0 > 0) /\ 0 % 2 = 0
      BY DEF Unread
    <2>2. Fresh[i] = [value |-> Options[i].default, found |-> FALSE]
      BY DEF Fresh
    <2>3. Fresh[i].value = Options[i].default /\ ~Fresh[i].found
      BY <2>2
    <2> QED
      BY <2>1, <2>3 DEF Tells
  <1> QED
    BY <1>1, <1>2, ToldIs

\* A toggled Bool has been given once more.
LEMMA Toggled ==
  ASSUME NEW i, NEW t \in Nat, NEW l, NEW l2, NEW o, NEW o2, Tells(i, o, t, l),
         Options[i].type = "Bool", Options[i].default \in BOOLEAN,
         o2.found = o.found, o2.value = ~o.value
  PROVE  Tells(i, o2, t + 1, l2)
  <1>1. ~HasArg(i)
    BY DEF HasArg
  <1>2. t % 2 = 0 <=> ~((t + 1) % 2 = 0)
    OBVIOUS
  <1>3. o.value = IF t % 2 = 0 THEN Options[i].default ELSE ~Options[i].default
    BY DEF Tells
  <1>4. o2.value = IF (t + 1) % 2 = 0 THEN Options[i].default ELSE ~Options[i].default
    <2>1. CASE t % 2 = 0
      <3>1. o.value = Options[i].default /\ ~((t + 1) % 2 = 0)
        BY <1>2, <1>3, <2>1
      <3> QED
        BY <3>1
    <2>2. CASE ~(t % 2 = 0)
      <3>1. o.value = ~Options[i].default /\ (t + 1) % 2 = 0
        BY <1>2, <1>3, <2>2
      <3>2. (~~Options[i].default) = Options[i].default
        OBVIOUS
      <3> QED
        BY <3>1, <3>2
    <2> QED
      BY <2>1, <2>2
  <1>5. ~o2.found
    BY <1>1 DEF Tells
  <1> QED
    BY <1>1, <1>4, <1>5 DEF Tells

\* What case 0 stores is what the word says, and the other entries stay.
LEMMA StoreTold ==
  ASSUME NEW m, ReadOK(m), TableOK(opts), Told(opts, m), NEW m2, NEW got, Took(m, m2, got),
         got.ret = "0", got.index \in DOMAIN Options,
         HasArg(got.index) <=> got.optarg # NoArg
  PROVE  TableOK(Store(got)) /\ Told(Store(got), m2)
  <1> DEFINE k == got.index
             a == got.optarg
             v == CASE Options[k].type \in {"Integer", "Float"} -> Words[a].number
                    [] Options[k].type = "String" -> a
                    [] OTHER -> opts[k].value
             yes == TRUE
             no == ~opts[k].value
             os == Store(got)
  <1>1. /\ m2.last = [m.last EXCEPT ![k] = a] /\ m2.times = [m.times EXCEPT ![k] = @ + 1]
        /\ m.times \in [DOMAIN Options -> Nat] /\ DOMAIN m.last = DOMAIN Options
        /\ k \in DOMAIN Options
    BY DEF Took, ReadOK
  <1>2. /\ m2.times[k] = m.times[k] + 1 /\ m2.last[k] = a /\ m.times[k] \in Nat
        /\ \A i \in DOMAIN Options : i # k => m2.times[i] = m.times[i] /\ m2.last[i] = m.last[i]
    <2> HIDE DEF k, a
    <2> QED
      BY <1>1
  <1>3. Tells(k, opts[k], m.times[k], m.last[k])
    BY ToldIs
  <1>4. /\ DOMAIN opts = DOMAIN Options
        /\ opts[k] = [value |-> opts[k].value, found |-> opts[k].found]
        /\ opts = [i \in DOMAIN Options |-> opts[i]]
    BY DEF TableOK
  <1>5. ASSUME DOMAIN os = DOMAIN Options, os = [i \in DOMAIN Options |-> os[i]],
               \A i \in DOMAIN Options : i # k => os[i] = opts[i],
               os[k] = [value |-> os[k].value, found |-> os[k].found],
               Tells(k, os[k], m2.times[k], m2.last[k])
        PROVE  TableOK(os) /\ Told(os, m2)
    <2> HIDE DEF os, k
    <2>1. TableOK(os)
      BY <1>5 DEF TableOK
    <2>2. \A i \in DOMAIN Options : Tells(i, os[i], m2.times[i], m2.last[i])
      <3> SUFFICES ASSUME NEW i \in DOMAIN Options, i # k
                   PROVE  Tells(i, os[i], m2.times[i], m2.last[i])
        BY <1>5
      <3>1. Tells(i, opts[i], m.times[i], m.last[i])
        BY ToldIs
      <3> QED
        BY <1>2, <1>5, <3>1
    <2> QED
      BY <2>1, <2>2, ToldIs
  <1>6. CASE a = NoArg
    <2>1. ~HasArg(k) /\ Options[k].type = "Bool" /\ Options[k].default \in BOOLEAN
      BY <1>6, ArgsAssumption DEF HasArg
    <2> HIDE DEF no, k
    <2>2. os = [opts EXCEPT ![k].value = no]
      BY <1>6, <2>1 DEF Store, no, k
    <2>3. os[k] = [value |-> no, found |-> opts[k].found]
      <3> DEFINE e == [opts[k] EXCEPT !.value = no]
                 ov == opts[k].value
                 of == opts[k].found
      <3>1. e = [value |-> no, found |-> opts[k].found]
        <4>1. [[value |-> ov, found |-> of] EXCEPT !.value = no] = [value |-> no, found |-> of]
          <5> HIDE DEF ov, of
          <5> QED
            OBVIOUS
        <4> QED
          BY <1>4, <4>1
      <3>2. os = [opts EXCEPT ![k] = e]
        BY <2>2
      <3>3. os[k] = e
        <4> HIDE DEF e, os
        <4> QED
          BY <1>1, <1>4, <3>2
      <3> QED
        BY <3>1, <3>3
    <2>4. os[k].value = no /\ os[k].found = opts[k].found
      BY <2>3
    <2>5. /\ DOMAIN os = DOMAIN Options /\ os = [i \in DOMAIN Options |-> os[i]]
          /\ \A i \in DOMAIN Options : i # k => os[i] = opts[i]
      <3> HIDE DEF os
      <3> QED
        BY <1>1, <1>4, <2>2
    <2> HIDE DEF os
    <2>6. Tells(k, os[k], m2.times[k], m2.last[k])
      BY <1>2, <1>3, <2>1, <2>4, Toggled DEF no
    <2>7. os[k] = [value |-> os[k].value, found |-> os[k].found]
      BY <2>3, <2>4, Zenon
    <2>8. TableOK(os) /\ Told(os, m2)
      BY <1>5, <2>5, <2>6, <2>7
    <2> QED
      BY <2>8 DEF os
  <1>7. CASE a # NoArg
    <2>1. HasArg(k) /\ Options[k].type # "Bool"
      BY <1>7 DEF HasArg
    <2> HIDE DEF v, k
    <2>2. os = [opts EXCEPT ![k].found = yes, ![k].value = v]
      BY <1>7 DEF Store, v, k
    <2> HIDE DEF yes
    <2>3. os[k] = [value |-> v, found |-> yes]
      <3> DEFINE ov == opts[k].value
                 of == opts[k].found
                 e1 == [opts[k] EXCEPT !.found = yes]
                 x == [opts EXCEPT ![k] = e1]
                 e2 == [x[k] EXCEPT !.value = v]
      <3>1. e1 = [value |-> ov, found |-> yes]
        <4>1. [[value |-> ov, found |-> of] EXCEPT !.found = yes] = [value |-> ov, found |-> yes]
          <5> HIDE DEF ov, of
          <5> QED
            OBVIOUS
        <4> QED
          BY <1>4, <4>1
      <3>2. os = [x EXCEPT ![k] = e2]
        BY <2>2
      <3>3. x[k] = e1 /\ DOMAIN x = DOMAIN Options
        <4> HIDE DEF e1
        <4> QED
          BY <1>1, <1>4
      <3>4. e2 = [value |-> v, found |-> yes]
        <4>1. [[value |-> ov, found |-> yes] EXCEPT !.value = v] = [value |-> v, found |-> yes]
          <5> HIDE DEF ov
          <5> QED
            OBVIOUS
        <4> HIDE DEF x, e1
        <4> QED
          BY <3>1, <3>3, <4>1
      <3> HIDE DEF x, e1, e2, os
      <3>5. os[k] = e2
        BY <1>1, <3>2, <3>3
      <3> QED
        BY <3>4, <3>5
    <2>4. os[k].value = v /\ os[k].found = yes
      BY <2>3
    <2>5. /\ DOMAIN os = DOMAIN Options /\ os = [i \in DOMAIN Options |-> os[i]]
          /\ \A i \in DOMAIN Options : i # k => os[i] = opts[i]
      <3> HIDE DEF os
      <3> QED
        BY <1>1, <1>4, <2>2
    <2> HIDE DEF os
    <2>6. Tells(k, os[k], m2.times[k], m2.last[k])
      <3>1. m.times[k] + 1 > 0 /\ os[k].found
        BY <1>2, <2>4 DEF yes
      <3>2. Options[k].type = "String" => v = a
        BY DEF v
      <3>3. Options[k].type \in {"Integer", "Float"} => v = Words[a].number
        BY DEF v
      <3> HIDE DEF a
      <3> QED
        BY <1>2, <2>1, <2>4, <3>1, <3>2, <3>3 DEF Tells
    <2>7. os[k] = [value |-> os[k].value, found |-> os[k].found]
      BY <2>3, <2>4, Zenon
    <2>8. TableOK(os) /\ Told(os, m2)
      BY <1>5, <2>5, <2>6, <2>7
    <2> QED
      BY <2>8 DEF os
  <1> QED
    BY <1>6, <1>7

----------------------------------------------------------------------------
\* A parse under way has read the words before optind, and the table tells so.
InLoop(g, a, p, os) ==
  LET m == Reading(New(p.given, p.seen))[g.optind - 1 - p.seen] IN
  (p.pc = "loop" /\ p.clean) =>
    /\ Lies(a, g.first, g.last, g.optind, p.seen, p.given, m) /\ MidWord(g, a)
    /\ TableOK(os) /\ Told(os, m)

\* What ParsedAsGiven says of a parse p, with what its words read as.
AsGiven(a, p, os) ==
  LET m == Meaning(New(p.given, p.seen)) IN
  (p.pc = "done" /\ p.clean) =>
    /\ ReadOK(m) /\ Told(os, m)
    /\ SubSeq(a, 1, p.seen) = SubSeq(p.given, 1, p.seen)
    /\ SubSeq(a, Len(a) - Len(m.rest) + 1, Len(a)) = m.rest
    /\ p.err = IF p.strict /\ m.rest # <<>> THEN -1 ELSE 0

\* A parse that left nothing over leaves getopt behind the last word.
Behind(n) == [optind |-> n + 1, first |-> n + 1, last |-> n + 1, nextchar |-> 0]
Through(g, a, p) == (p.pc \in {"idle", "done"} /\ p.clean /\ ~p.left) => g = Behind(Len(a))

ParseInv ==
  /\ InLoop(go, argv, parse, opts)
  /\ AsGiven(argv, parse, opts)
  /\ Through(go, argv, parse)

LEMMA ParseInit == Init => ParseInv
  <1> SUFFICES ASSUME Init PROVE ParseInv
    OBVIOUS
  <1>1. argv = <<>> /\ opts = Fresh /\ parse.pc = "idle"
        /\ go = [optind |-> 1, first |-> 1, last |-> 1, nextchar |-> 0]
    BY DEF Init, ArgsInit
  <1>2. go = Behind(Len(argv))
    BY <1>1 DEF Behind
  <1> QED
    BY <1>1, <1>2, FreshTold DEF ParseInv, InLoop, AsGiven, Through

\* Before the first turn nothing has been read.
LEMMA LiesFirst ==
  ASSUME NEW w \in Seq(DOMAIN Words), NEW s \in Nat, s <= Len(w)
  PROVE  Lies(w, s + 1, s + 1, s + 1, s, w, Unread)
         /\ Reading(New(w, s))[(s + 1) - 1 - s] = Unread
  <1>0. Len(w) \in Nat /\ s + 1 <= Len(w) + 1 /\ (s + 1) - 1 - s = 0 /\ (s + 1) - s = 1
        /\ (s + 1) - (s + 1) = 0
    OBVIOUS
  <1>1. Len(New(w, s)) = Len(w) - s
    BY NewIs
  <1>2. Len(w) - s \in Nat
    BY <1>0
  <1>3. Reading(New(w, s))[0] = Unread
    BY <1>1, <1>2, ReadingIs
  <1>4. ~Unread.ended /\ Unread.next = 1 /\ Unread.rest = <<>> /\ Len(Unread.rest) = 0
    BY DEF Unread
  <1>5. Lies(w, s + 1, s + 1, s + 1, s, w, Unread)
    BY <1>0, <1>3, <1>4, UnreadOK DEF Lies
  <1> QED
    BY <1>0, <1>3, <1>5

LEMMA StartReads ==
  ASSUME PlaceInv, ParseInv, NEW given \in Seq(DOMAIN Words), NEW strict \in BOOLEAN,
         StartParse(given, strict)
  PROVE  ParseInv'
  <1> DEFINE a == Alloc(arena, OptionSize, Align, Len(Options) + 1, FALSE)
             pc == IF a.out = "trap" THEN "trap" ELSE "loop"
             clean == parse.clean /\ ~parse.left
             n == Len(argv)
  <1>1. /\ parse.pc \in {"idle", "done"} /\ Len(given) >= n /\ argv' = given /\ go' = go
        /\ opts' = Fresh
        /\ parse' = [pc |-> pc, strict |-> strict, err |-> 0, given |-> given, left |-> FALSE,
                     seen |-> n, clean |-> clean]
    BY DEF StartParse
  <1>2. pc = "trap" \/ pc = "loop"
    OBVIOUS
  <1>3. parse'.pc = pc /\ parse'.given = given /\ parse'.seen = n /\ (parse'.clean <=> clean)
    <2> HIDE DEF pc, n
    <2>1. clean \in BOOLEAN
      OBVIOUS
    <2> HIDE DEF clean
    <2> QED
      BY <1>1, <2>1
  <1>4. n \in Nat /\ n <= Len(given)
    BY <1>1 DEF PlaceInv
  <1>5. parse'.pc \notin {"idle", "done"}
    BY <1>2, <1>3
  <1>6. ASSUME clean
        PROVE  /\ Lies(argv', go'.first, go'.last, go'.optind, n, given, Unread)
               /\ Reading(New(given, n))[go'.optind - 1 - n] = Unread
               /\ MidWord(go', argv')
    <2>1. go' = Behind(n)
      BY <1>1, <1>6 DEF ParseInv, Through
    <2>2. go'.first = n + 1 /\ go'.last = n + 1 /\ go'.optind = n + 1 /\ MidWord(go', argv')
      BY <2>1 DEF Behind, MidWord
    <2> HIDE DEF n
    <2>3. Lies(given, n + 1, n + 1, n + 1, n, given, Unread)
          /\ Reading(New(given, n))[(n + 1) - 1 - n] = Unread
      BY <1>4, LiesFirst
    <2> QED
      BY <1>1, <2>2, <2>3
  <1> HIDE DEF pc, clean, n
  <1>7. InLoop(go', argv', parse', opts')
    BY <1>1, <1>3, <1>6, FreshTold DEF InLoop
  <1>8. AsGiven(argv', parse', opts') /\ Through(go', argv', parse')
    BY <1>5 DEF AsGiven, Through
  <1> QED
    BY <1>1, <1>7, <1>8, FreshTold DEF ParseInv

\* A turn that reads an option, or drops a '?'.
LEMMA TurnReads ==
  ASSUME PlaceInv, ParseInv, TakeOption
  PROVE  ParseInv'
  <1> DEFINE r == GetoptLong(go, argv)
             s == parse.seen
             w == parse.given
             m == Reading(New(w, s))[go.optind - 1 - s]
             m2 == Reading(New(w, s))[r.go.optind - 1 - s]
  <1>1. /\ parse.pc = "loop" /\ r.got.ret # "end" /\ argv' = r.argv /\ go' = r.go
        /\ opts' = IF r.got.ret = "0" THEN Store(r.got) ELSE opts
        /\ parse' = parse
    BY DEF TakeOption
  <1>2. go \in GoType
    BY DEF PlaceInv, Placed
  <1> HIDE DEF r
  <1>3. /\ AsGiven(argv', parse', opts') /\ Through(go', argv', parse')
    BY <1>1 DEF AsGiven, Through
  <1>4. ASSUME parse.clean
        PROVE  /\ Lies(argv', go'.first, go'.last, go'.optind, s, w, m2) /\ MidWord(go', argv')
               /\ Told(opts', m2) /\ TableOK(opts')
    <2>1. Lies(argv, go.first, go.last, go.optind, s, w, m) /\ MidWord(go, argv)
          /\ TableOK(opts) /\ Told(opts, m)
      BY <1>1, <1>4 DEF ParseInv, InLoop
    <2>2. ReadOK(m)
      BY <2>1 DEF Lies
    <2> HIDE DEF m
    <2>3. /\ Lies(r.argv, r.go.first, r.go.last, r.go.optind, s, w, m2)
          /\ Took(m, m2, r.got) /\ r.got.ret \in {"?", "0"} /\ MidWord(r.go, r.argv)
          /\ r.got.ret = "0" => /\ r.got.index \in DOMAIN Options
                                /\ HasArg(r.got.index) <=> r.got.optarg # NoArg
      <3>1. Reads(r, m, Len(argv), s, w) /\ (r.got.ret # "end" => MidWord(r.go, r.argv))
        BY <1>2, <2>1, GetoptReads DEF r
      <3> QED
        BY <1>1, <3>1 DEF Reads
    <2> HIDE DEF m2
    <2>4. CASE r.got.ret = "0"
      <3>1. opts' = Store(r.got)
        BY <1>1, <2>4
      <3>2. TableOK(Store(r.got)) /\ Told(Store(r.got), m2)
        BY <2>1, <2>2, <2>3, <2>4, StoreTold
      <3> QED
        BY <1>1, <2>3, <3>1, <3>2
    <2>5. CASE r.got.ret # "0"
      <3>1. opts' = opts /\ m2.last = m.last /\ m2.times = m.times
        BY <1>1, <2>3, <2>5 DEF Took
      <3>2. Told(opts, m2)
        BY <2>1, <3>1, ToldIs
      <3> QED
        BY <1>1, <2>1, <2>3, <3>1, <3>2
    <2> QED
      BY <2>4, <2>5
  <1>5. InLoop(go', argv', parse', opts')
    BY <1>1, <1>4 DEF InLoop
  <1> QED
    BY <1>3, <1>5 DEF ParseInv

\* The words of a parse are those of the constants.
LEMMA ParsePicks ==
  ASSUME PlaceInv, CaseParse \/ MdcodeParse
  PROVE  \E given \in Seq(DOMAIN Words), strict \in BOOLEAN : StartParse(given, strict)
  <1>1. CASE CaseParse
    <2>1. calls.parses + 1 \in 1 .. Len(Lines)
      BY <1>1, ProgramsAssumption DEF CaseParse, PlaceInv, CallsType
    <2>2. Lines[calls.parses + 1] \subseteq Seq(DOMAIN Words)
      BY <2>1, ProgramsAssumption
    <2> QED
      BY <1>1, <2>2 DEF CaseParse
  <1>2. CASE MdcodeParse
    BY <1>2, ProgramsAssumption DEF MdcodeParse
  <1> QED
    BY <1>1, <1>2


\* The end of the words: what is left are the plain ones.
LEMMA EndReads ==
  ASSUME PlaceInv, ParseInv, FinishParse
  PROVE  ParseInv'
  <1> DEFINE r == GetoptLong(go, argv)
             s == parse.seen
             w == parse.given
             n == Len(argv)
             m == Reading(New(w, s))[go.optind - 1 - s]
             e == Meaning(New(w, s))
             F == r.go.first
             left == r.go.optind < Argc
             refused == parse.strict /\ left
             err == IF refused THEN -1 ELSE 0
  <1>1. /\ parse.pc = "loop" /\ r.got.ret = "end" /\ argv' = r.argv /\ opts' = opts
        /\ go' = IF refused THEN r.go ELSE [r.go EXCEPT !.optind = Argc]
        /\ parse' = [parse EXCEPT !.pc = "done", !.left = left, !.err = err]
    BY DEF FinishParse
  <1>2. go \in GoType /\ parse \in ParseType /\ Argc = n + 1 /\ n \in Nat
    BY DEF PlaceInv, Placed, Argc
  <1> HIDE DEF r
  <1>3. /\ parse'.pc = "done" /\ parse'.given = w /\ parse'.seen = s /\ parse'.err = err
        /\ (parse'.left <=> left) /\ (parse'.clean <=> parse.clean)
        /\ (parse'.strict <=> parse.strict)
    <2>1. left \in BOOLEAN
      OBVIOUS
    <2> HIDE DEF left, err
    <2> QED
      BY <1>1, <1>2, <2>1 DEF ParseType
  <1>4. InLoop(go', argv', parse', opts')
    BY <1>3 DEF InLoop
  <1>5. ASSUME parse.clean
        PROVE  AsGiven(argv', parse', opts') /\ Through(go', argv', parse')
    <2>1. Lies(argv, go.first, go.last, go.optind, s, w, m) /\ MidWord(go, argv)
          /\ TableOK(opts) /\ Told(opts, m)
      BY <1>1, <1>5 DEF ParseInv, InLoop
    <2> HIDE DEF m
    <2>2. /\ LeftOver(r.argv, F, s, w, e) /\ e.last = m.last /\ e.times = m.times
          /\ r.go = [optind |-> F, first |-> F, last |-> n + 1, nextchar |-> 0]
      <3>1. Reads(r, m, n, s, w)
        BY <1>2, <2>1, GetoptReads DEF r, m
      <3> QED
        BY <1>1, <3>1 DEF Reads
    <2> HIDE DEF e
    <2>3. ReadOK(e) /\ Told(opts', e)
      BY <1>1, <2>1, <2>2, ToldIs DEF LeftOver
    <2>4. r.argv \in Seq(DOMAIN Words) /\ Len(r.argv) = n /\ s \in Nat /\ w \in Seq(DOMAIN Words)
          /\ Len(w) = n
      <3>1. argv \in Seq(DOMAIN Words) /\ Placed(go, n)
        BY DEF PlaceInv
      <3>2. r.argv \in Seq(DOMAIN Words) /\ Len(r.argv) = n
        BY <3>1, GetoptMoves DEF r
      <3> QED
        BY <2>1, <3>2 DEF Lies
    <2>5. /\ F \in s + 1 .. n + 1 /\ Len(e.rest) = n + 1 - F /\ e.rest \in Seq(DOMAIN Words)
          /\ \A j \in 1 .. s : r.argv[j] = w[j]
          /\ \A k \in 1 .. n + 1 - F : e.rest[k] = r.argv[F + k - 1]
      BY <2>2, <2>4 DEF LeftOver, ReadOK
    <2> HIDE DEF F, n, s, w
    <2>6. F \in Nat /\ s <= n /\ n + 1 - F \in Nat /\ n - (n + 1 - F) + 1 = F
          /\ n - F + 1 = n + 1 - F /\ F >= 1
      BY <1>2, <2>4, <2>5
    <2>7. SubSeq(r.argv, 1, s) = SubSeq(w, 1, s)
      <3>1. \A j \in 1 .. s : r.argv[j] \in DOMAIN Words /\ w[j] \in DOMAIN Words
        BY <1>2, <2>4, <2>6
      <3>2. s - 1 + 1 = s /\ \A j \in Int : 1 + j - 1 = j
        BY <2>4
      <3>3. /\ SubSeq(r.argv, 1, s) \in Seq(DOMAIN Words)
            /\ Len(SubSeq(r.argv, 1, s)) = (IF 1 <= s THEN s - 1 + 1 ELSE 0)
            /\ \A j \in 1 .. s - 1 + 1 : SubSeq(r.argv, 1, s)[j] = r.argv[1 + j - 1]
        BY <2>4, <3>1, SubSeqProperties
      <3>4. /\ SubSeq(w, 1, s) \in Seq(DOMAIN Words)
            /\ Len(SubSeq(w, 1, s)) = (IF 1 <= s THEN s - 1 + 1 ELSE 0)
            /\ \A j \in 1 .. s - 1 + 1 : SubSeq(w, 1, s)[j] = w[1 + j - 1]
        BY <2>4, <3>1, SubSeqProperties
      <3>5. Len(SubSeq(r.argv, 1, s)) = s /\ Len(SubSeq(w, 1, s)) = s
        BY <2>4, <3>2, <3>3, <3>4
      <3>6. \A j \in 1 .. s : SubSeq(r.argv, 1, s)[j] = SubSeq(w, 1, s)[j]
        BY <2>5, <3>2, <3>3, <3>4
      <3> QED
        BY <3>3, <3>4, <3>5, <3>6, SeqEqual
    <2>8. SubSeq(r.argv, n - Len(e.rest) + 1, n) = e.rest
      <3>1. \A j \in F .. n : r.argv[j] \in DOMAIN Words
        BY <1>2, <2>4, <2>6
      <3>2. n - Len(e.rest) + 1 = F
        BY <2>5, <2>6
      <3>3. /\ SubSeq(r.argv, F, n) \in Seq(DOMAIN Words)
            /\ Len(SubSeq(r.argv, F, n)) = (IF F <= n THEN n - F + 1 ELSE 0)
            /\ \A j \in 1 .. n - F + 1 : SubSeq(r.argv, F, n)[j] = r.argv[F + j - 1]
        BY <1>2, <2>6, <3>1, SubSeqProperties
      <3>4. Len(SubSeq(r.argv, F, n)) = n + 1 - F
        BY <1>2, <2>5, <2>6, <3>3
      <3>5. \A j \in 1 .. n + 1 - F : SubSeq(r.argv, F, n)[j] = e.rest[j]
        BY <2>5, <2>6, <3>3
      <3> QED
        <4>1. SubSeq(r.argv, F, n) = e.rest
          <5> DEFINE t == SubSeq(r.argv, F, n)
                     u == e.rest
          <5>1. t \in Seq(DOMAIN Words) /\ u \in Seq(DOMAIN Words) /\ Len(t) = Len(u)
            BY <2>5, <3>3, <3>4
          <5>2. \A j \in 1 .. Len(t) : t[j] = u[j]
            BY <3>4, <3>5
          <5> HIDE DEF t, u
          <5>3. t = u
            BY <5>1, <5>2, SeqEqual
          <5> QED
            BY <5>3 DEF t, u
        <4> QED
          BY <3>2, <4>1
    <2>9. left <=> e.rest # <<>>
      <3>1. left <=> F < n + 1
        BY <1>2, <2>2
      <3>2. e.rest = <<>> <=> Len(e.rest) = 0
        BY <2>5, EmptySeq
      <3> QED
        BY <1>2, <2>5, <2>6, <3>1, <3>2
    <2>10. AsGiven(argv', parse', opts')
      <3>1. err = IF parse'.strict /\ e.rest # <<>> THEN -1 ELSE 0
        BY <1>3, <2>9
      <3>2. Len(argv') = n /\ argv' = r.argv
        BY <1>1, <2>4
      <3>3. e = Meaning(New(parse'.given, parse'.seen))
        BY <1>3 DEF e
      <3> HIDE DEF err
      <3> QED
        BY <1>3, <2>3, <2>7, <2>8, <3>1, <3>2, <3>3 DEF AsGiven
    <2>11. Through(go', argv', parse')
      <3> SUFFICES ASSUME ~left PROVE go' = Behind(n)
        BY <1>1, <1>3, <2>4 DEF Through
      <3>1. F = n + 1
        BY <1>2, <2>2, <2>5, <2>6
      <3>2. go' = [r.go EXCEPT !.optind = n + 1]
        BY <1>1, <1>2
      <3> DEFINE x == n + 1
      <3> HIDE DEF x
      <3>3. r.go = [optind |-> x, first |-> x, last |-> x, nextchar |-> 0]
        BY <2>2, <3>1 DEF x
      <3>4. [[optind |-> x, first |-> x, last |-> x, nextchar |-> 0] EXCEPT !.optind = x]
              = [optind |-> x, first |-> x, last |-> x, nextchar |-> 0]
        OBVIOUS
      <3> QED
        BY <3>2, <3>3, <3>4 DEF x, Behind
    <2> QED
      BY <2>10, <2>11
  <1>6. ASSUME ~parse.clean
        PROVE  AsGiven(argv', parse', opts') /\ Through(go', argv', parse')
    BY <1>3, <1>6 DEF AsGiven, Through
  <1> QED
    BY <1>4, <1>5, <1>6 DEF ParseInv

LEMMA ParseStepKeeps == PlaceInv /\ ParseInv /\ [Next]_vars => ParseInv'
  <1> SUFFICES ASSUME PlaceInv, ParseInv, [Next]_vars PROVE ParseInv'
    OBVIOUS
  <1>1. CASE UNCHANGED argsVars
    BY <1>1 DEF ParseInv, argsVars
  <1>2. CASE CaseParse \/ MdcodeParse
    <2>1. PICK given \in Seq(DOMAIN Words), strict \in BOOLEAN : StartParse(given, strict)
      BY <1>2, ParsePicks
    <2> QED
      BY <2>1, StartReads
  <1>3. CASE TakeOption
    BY <1>3, TurnReads
  <1>4. CASE FinishParse
    BY <1>4, EndReads
  <1>5. CASE Harness \/ Expect \/ MdcodeEnd \/ UNCHANGED vars
    BY <1>1, <1>5 DEF Harness, Expect, MdcodeEnd, vars, argsVars
  <1> QED
    BY <1>2, <1>3, <1>4, <1>5 DEF Next, Rest, ParseStep

----------------------------------------------------------------------------
\* mdcode's parse is the first one of its program, and a strict one.

MdcodeInv ==
  /\ at = "start" => parse.pc = "idle" /\ argv = <<>> /\ parse.clean /\ ~parse.left
  /\ at = "mdcode" => Commands # {} /\ parse.clean /\ parse.seen = 0 /\ parse.strict
  /\ at = "left" => parse.pc = "done" /\ MdcodeDoesAsTold

LEMMA MdcodeInit == Init => MdcodeInv
  BY DEF Init, SuiteInit, ArgsInit, MdcodeInv

LEMMA NewAll ==
  ASSUME NEW w \in Seq(DOMAIN Words)
  PROVE  New(w, 0) = w
  <1>1. New(w, 0) \in Seq(DOMAIN Words) /\ Len(New(w, 0)) = Len(w) - 0
        /\ \A k \in 1 .. Len(w) - 0 : New(w, 0)[k] = w[0 + k]
    BY NewIs
  <1>2. Len(w) - 0 = Len(w) /\ \A k \in Int : 0 + k = k
    OBVIOUS
  <1>3. Len(New(w, 0)) = Len(w) /\ \A k \in 1 .. Len(w) : New(w, 0)[k] = w[k]
    BY <1>1, <1>2
  <1> QED
    BY <1>1, <1>3, SeqEqual

\* What main makes of a parse that is through.
LEMMA MdcodeTells ==
  ASSUME PlaceInv, ParseInv, MdcodeInv, MdcodeEnd
  PROVE  MdcodeInv'
  <1> DEFINE m == Meaning(parse.given)
             t == m.times[Help]
             v == opts[Help].value
  <1>1. /\ at = "mdcode" /\ parse.pc = "done" /\ at' = "left" /\ parse' = parse
        /\ status' = IF parse.err # 0 THEN 1 ELSE 0
        /\ calls' = [calls EXCEPT !.shown = IF parse.err # 0 THEN "nothing"
                                            ELSE IF v THEN "help" ELSE "paths"]
        /\ calls \in CallsType
    BY DEF MdcodeEnd, argsVars, PlaceInv
  <1>2. calls'.shown = IF parse.err # 0 THEN "nothing" ELSE IF v THEN "help" ELSE "paths"
    <2> DEFINE x == IF parse.err # 0 THEN "nothing" ELSE IF v THEN "help" ELSE "paths"
    <2> HIDE DEF x
    <2>1. calls' = [calls EXCEPT !.shown = x] /\ calls \in CallsType
      BY <1>1 DEF x
    <2>2. calls'.shown = x
      BY <2>1 DEF CallsType
    <2> QED
      BY <2>2 DEF x
  <1>3. Commands # {} /\ parse.clean /\ parse.seen = 0 /\ parse.strict
    BY <1>1 DEF MdcodeInv
  <1>4. New(parse.given, parse.seen) = parse.given
    BY <1>3, NewAll DEF PlaceInv, ParseType
  <1>5. ReadOK(m) /\ Told(opts, m) /\ parse.err = IF parse.strict /\ m.rest # <<>> THEN -1 ELSE 0
    BY <1>1, <1>3, <1>4 DEF ParseInv, AsGiven
  <1>6. Help \in DOMAIN Options /\ Options[Help].type = "Bool" /\ ~Options[Help].default
    BY <1>3, ProgramsAssumption
  <1>7. t \in Nat /\ (v <=> t % 2 = 1)
    <2>1. t \in Nat
      BY <1>5, <1>6 DEF ReadOK
    <2>2. v = IF t % 2 = 0 THEN Options[Help].default ELSE ~Options[Help].default
      BY <1>5, <1>6 DEF Told
    <2> HIDE DEF t
    <2>3. t % 2 = 1 <=> ~(t % 2 = 0)
      BY <2>1
    <2> HIDE DEF v
    <2>4. CASE t % 2 = 0
      <3>1. v = Options[Help].default /\ ~(t % 2 = 1)
        BY <2>2, <2>3, <2>4
      <3> QED
        BY <1>6, <2>1, <3>1
    <2>5. CASE ~(t % 2 = 0)
      <3>1. v = ~Options[Help].default /\ t % 2 = 1
        BY <2>2, <2>3, <2>5
      <3> QED
        BY <1>6, <2>1, <3>1
    <2> QED
      BY <2>4, <2>5
  <1> HIDE DEF m, v
  <1>8. /\ status' = IF m.rest = <<>> THEN 0 ELSE 1
        /\ calls'.shown = IF m.rest # <<>> THEN "nothing" ELSE IF t % 2 = 1 THEN "help" ELSE "paths"
    <2>1. CASE m.rest = <<>>
      <3>1. parse.err = 0
        BY <1>5, <2>1
      <3> QED
        BY <1>1, <1>2, <1>7, <2>1, <3>1
    <2>2. CASE m.rest # <<>>
      <3>1. parse.err # 0
        BY <1>3, <1>5, <2>2
      <3> QED
        BY <1>1, <1>2, <2>2, <3>1
    <2> QED
      BY <2>1, <2>2
  <1>9. MdcodeDoesAsTold'
    BY <1>1, <1>8 DEF MdcodeDoesAsTold, m
  <1> QED
    BY <1>1, <1>9 DEF MdcodeInv

LEMMA MdcodeStep == PlaceInv /\ ParseInv /\ MdcodeInv /\ [Next]_vars => MdcodeInv'
  <1> SUFFICES ASSUME PlaceInv, ParseInv, MdcodeInv, [Next]_vars PROVE MdcodeInv'
    OBVIOUS
  <1>1. CASE UNCHANGED vars
    BY <1>1 DEF MdcodeInv, MdcodeDoesAsTold, vars, suiteVars, argsVars
  <1>2. CASE Harness \/ Expect
    <2>1. UNCHANGED <<argv, parse>>
      BY <1>2 DEF Harness, Expect, argsVars
    <2>2. at' \in {"between", "body", "exited"}
      BY <1>2 DEF Harness, Expect, SuiteStart, CaseStart, CaseEnd, CaseBreak, SuiteFinish, SuiteDrop,
                  Check
    <2> QED
      BY <2>1, <2>2 DEF MdcodeInv
  <1>3. CASE CaseParse
    BY <1>3 DEF CaseParse, suiteVars, MdcodeInv
  <1>4. CASE MdcodeParse
    <2>1. PICK given \in Commands : StartParse(given, TRUE)
      BY <1>4 DEF MdcodeParse
    <2>2. at = "start" /\ at' = "mdcode" /\ Commands # {}
      BY <1>4 DEF MdcodeParse
    <2>3. parse.clean /\ ~parse.left /\ Len(argv) = 0
      BY <2>2 DEF MdcodeInv
    <2>4. parse'.clean /\ parse'.seen = 0 /\ parse'.strict
      <3> DEFINE pc == IF Alloc(arena, OptionSize, Align, Len(Options) + 1, FALSE).out = "trap"
                       THEN "trap" ELSE "loop"
                 yes == TRUE
                 clean == parse.clean /\ ~parse.left
                 n == Len(argv)
      <3>1. parse' = [pc |-> pc, strict |-> yes, err |-> 0, given |-> given, left |-> FALSE,
                      seen |-> n, clean |-> clean]
        BY <2>1 DEF StartParse
      <3>2. clean = yes
        BY <2>3
      <3> HIDE DEF pc, yes, clean, n
      <3>3. parse'.clean = clean /\ parse'.seen = n /\ parse'.strict = yes
        BY <3>1
      <3> QED
        BY <2>3, <3>2, <3>3 DEF yes, n
    <2> QED
      BY <2>2, <2>4 DEF MdcodeInv
  <1>5. CASE ParseStep
    <2>1. parse.pc = "loop" /\ at' = at
      BY <1>5 DEF ParseStep, TakeOption, FinishParse, suiteVars
    <2>2. at # "start" /\ at # "left"
      BY <2>1 DEF MdcodeInv
    <2>3. parse'.clean = parse.clean /\ parse'.seen = parse.seen /\ parse'.strict = parse.strict
      <3>1. CASE TakeOption
        BY <3>1 DEF TakeOption
      <3>2. CASE FinishParse
        <4> DEFINE r == GetoptLong(go, argv)
                   left == r.go.optind < Argc
                   err == IF parse.strict /\ left THEN -1 ELSE 0
        <4>1. parse' = [parse EXCEPT !.pc = "done", !.left = left, !.err = err]
          BY <3>2 DEF FinishParse
        <4>2. parse \in ParseType
          BY DEF PlaceInv
        <4> HIDE DEF left, err
        <4> QED
          BY <4>1, <4>2 DEF ParseType
      <3> QED
        BY <1>5, <3>1, <3>2 DEF ParseStep
    <2> QED
      BY <2>1, <2>2, <2>3 DEF MdcodeInv
  <1>6. CASE MdcodeEnd
    BY <1>6, MdcodeTells
  <1> QED
    BY <1>1, <1>2, <1>3, <1>4, <1>5, <1>6 DEF Next, Rest

LEMMA ParseInvHolds == Spec => [](PlaceInv /\ ParseInv)
  BY PlaceInit, PlaceStep, ParseInit, ParseStepKeeps, PTL DEF Spec

LEMMA ParseInvTells == ParseInv => ParsedAsGiven
  BY DEF ParseInv, AsGiven, ParsedAsGiven, New

----------------------------------------------------------------------------
\* Theorems about the programs

\* The status of a suite tells of a failure whatever its cases parse.
THEOREM ProgramStatusCorrect == Spec => []StatusTellsFailure
  <1>1. Init => HarnessInv
    BY SuiteInitHolds, CountsInit DEF Init, HarnessInv
  <1>2. HarnessInv => StatusTellsFailure
    BY SuiteInvTells DEF HarnessInv, StatusTellsFailure
  <1> QED
    BY <1>1, <1>2, HarnessStep, PTL DEF Spec

\* And so does what it reports.
THEOREM ProgramCountsCorrect == Spec => []CountsAreOfEndedCases
  <1>1. Init => HarnessInv
    BY SuiteInitHolds, CountsInit DEF Init, HarnessInv
  <1>2. HarnessInv => CountsAreOfEndedCases
    BY CountsTell DEF HarnessInv, CountsAreOfEndedCases
  <1> QED
    BY <1>1, <1>2, HarnessStep, PTL DEF Spec

\* getopt's variables stay inside the words, and the words are never fewer.
THEOREM PlaceCorrect == Spec => []PlaceInv
  <1>1. PlaceInv /\ [Next]_vars => PlaceInv'
    BY PlaceStep
  <1> QED
    BY <1>1, PlaceInit, PTL DEF Spec

\* The loop of args_parse ends, whatever the table, the words and the calls before:
\* a turn brings getopt to a later word, or to a later letter of the word it is at.
THEOREM ParseAdvances == Spec => EveryTurnAdvances
  <1>1. PlaceInv /\ [Next]_vars =>
          [Parsing /\ parse'.pc = "loop" =>
             \/ go'.optind > go.optind /\ go'.optind <= Argc'
             \/ go'.optind = go.optind /\ UnreadLetters(go', argv') < UnreadLetters(go, argv)]_vars
    BY PlaceStep DEF Advances
  <1> QED
    BY <1>1, PlaceCorrect, PTL DEF Spec, EveryTurnAdvances

\* A parse leaves in the table what its words mean, read from left to right, and
\* in argv the words that belong to no option, whatever the table, the words and
\* the parses before it: what getopt moves about is neither lost nor taken twice.
THEOREM ParseCorrect == Spec => []ParsedAsGiven
  BY ParseInvHolds, ParseInvTells, PTL

\* mdcode fails, shows its help or prints the paths as its command line says,
\* whatever the command line.
THEOREM MdcodeCorrect == Spec => []MdcodeDoesAsTold
  <1>1. MdcodeInv => MdcodeDoesAsTold
    BY DEF MdcodeInv, MdcodeDoesAsTold
  <1> QED
    BY <1>1, ParseInvHolds, MdcodeInit, MdcodeStep, PTL DEF Spec
============================================================================
