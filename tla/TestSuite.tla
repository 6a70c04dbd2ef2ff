----------------------------- MODULE TestSuite -----------------------------
(***************************************************************************)
(* The test harness (test.h, and test.hpp with the same code): the         *)
(* counters of the static TestSuite and the macros around it.  TEST_CASE   *)
(* is a loop of one turn whose condition is the filter and whose increment *)
(* is test_case_finish, so what a body does decides whether it is counted. *)
(***************************************************************************)
EXTENDS Integers, Sequences, FiniteSets

CONSTANTS
  Cases,    \* the names of the cases, in the order the program has them
  Filters   \* what argv[1] may be: whether it is no regular expression (bad), and
            \* the names of the cases it matches (hits)

ASSUME CasesAssumption == Cases \in Seq({Cases[k] : k \in DOMAIN Cases})

\* Without a filter every case is selected.
NoFilter == [bad |-> FALSE, hits |-> {Cases[k] : k \in DOMAIN Cases}]

VARIABLES
  suite,   \* the TestSuite: the counters and the filter
  at,      \* where the program is: "start", "between", "body" or "exited"
  next,    \* the case that comes next, or the one in whose body it is
  status,  \* what main returned
  log      \* the kind of program, and what happened in it, for the properties

suiteVars == <<suite, at, next, status, log>>

Zero == [pass |-> 0, total |-> 0]
NoStatus == -1

SuiteInit ==
  /\ suite = [cases |-> Zero, checks |-> Zero, total |-> Zero, filter |-> NoFilter]
  /\ at = "start"
  /\ next = 1
  /\ status = NoStatus
  /\ \E returns \in BOOLEAN :
       log = [returns |-> returns, filter |-> NoFilter, checks |-> <<>>, ended |-> {}, lost |-> {}]

\* test_case_filter
Selected(filter, name) == name \in filter.hits

\* test_suite_start; a filter that does not compile is dropped.
SuiteStart(filter) ==
  /\ at = "start"
  /\ suite' = [suite EXCEPT !.filter = IF filter.bad THEN NoFilter ELSE filter]
  /\ at' = "between"
  /\ log' = [log EXCEPT !.filter = filter]
  /\ UNCHANGED <<next, status>>

\* Mutant: the checks of the case before are not forgotten.
CaseStartKeep ==
  /\ at = "between" /\ next <= Len(Cases)
  /\ UNCHANGED suite
  /\ IF Selected(suite.filter, Cases[next]) THEN at' = "body" /\ UNCHANGED next
     ELSE next' = next + 1 /\ UNCHANGED at
  /\ UNCHANGED <<status, log>>

\* test_case_start and the first test of the loop's condition.
CaseStart ==
  /\ at = "between" /\ next <= Len(Cases)
  /\ suite' = [suite EXCEPT !.checks = Zero]
  /\ IF Selected(suite.filter, Cases[next]) THEN at' = "body" /\ UNCHANGED next
     ELSE next' = next + 1 /\ UNCHANGED at
  /\ UNCHANGED <<status, log>>

\* EXPECT_CONDITION, in a body or between two.
Check(ok) ==
  /\ at \in {"between", "body"}
  /\ suite' = [suite EXCEPT !.checks = [pass |-> @.pass + IF ok THEN 1 ELSE 0, total |-> @.total + 1]]
  /\ log' = [log EXCEPT !.checks = Append(@, [in |-> IF at = "body" THEN next ELSE 0, ok |-> ok])]
  /\ UNCHANGED <<at, next, status>>

\* Mutant: only cases without a check that failed are counted.
FinishedPassing(s) ==
  LET success == s.checks.pass = s.checks.total IN
  [s EXCEPT !.cases = [pass |-> @.pass + IF success THEN 1 ELSE 0,
                       total |-> @.total + IF success THEN 1 ELSE 0],
            !.total = [pass |-> @.pass + s.checks.pass, total |-> @.total + s.checks.total],
            !.checks = Zero]

\* test_case_finish
Finished(s) ==
  LET success == s.checks.pass = s.checks.total IN
  [s EXCEPT !.cases = [pass |-> @.pass + IF success THEN 1 ELSE 0, total |-> @.total + 1],
            !.total = [pass |-> @.pass + s.checks.pass, total |-> @.total + s.checks.total],
            !.checks = Zero]

\* The body comes to its end, or to a continue of its own.
CaseEnd ==
  /\ at = "body"
  /\ suite' = Finished(suite)
  /\ at' = "between" /\ next' = next + 1
  /\ log' = [log EXCEPT !.ended = @ \cup {next}]
  /\ UNCHANGED status

\* A break in the body, such as the one of OnError_Break, leaves the loop
\* without its increment.
CaseBreak ==
  /\ at = "body"
  /\ at' = "between" /\ next' = next + 1
  /\ log' = [log EXCEPT !.lost = @ \cup {next}]
  /\ UNCHANGED <<suite, status>>

\* return TEST_RESULTS()
SuiteFinish ==
  /\ at = "between" /\ next > Len(Cases) /\ log.returns
  /\ status' = IF suite.cases.pass = suite.cases.total THEN 0 ELSE 1
  /\ at' = "exited"
  /\ UNCHANGED <<suite, next, log>>

\* TEST_RESULTS() without return, as main of test_io_args.c has it: the result
\* is dropped and main returns 0.
SuiteDrop ==
  /\ at = "between" /\ next > Len(Cases) /\ ~log.returns
  /\ status' = 0
  /\ at' = "exited"
  /\ UNCHANGED <<suite, next, log>>

SuiteNext ==
  \/ \E filter \in Filters \cup {NoFilter} : SuiteStart(filter)
  \/ CaseStart
  \/ \E ok \in BOOLEAN : Check(ok)
  \/ CaseEnd
  \/ CaseBreak
  \/ SuiteFinish
  \/ SuiteDrop

SuiteSpec == SuiteInit /\ [][SuiteNext]_suiteVars

----------------------------------------------------------------------------
\* Properties

Counted == {c \in DOMAIN log.checks : log.checks[c].in \in log.ended}
Passing(S) == {c \in S : log.checks[c].ok}
Failing(k) == \E c \in DOMAIN log.checks : log.checks[c].in = k /\ ~log.checks[c].ok

\* What is reported is what happened in the cases that came to their end: each
\* check is counted once, whatever was checked between two cases, and a case is
\* passed if none of its checks failed (test.h:70-93).  A case left by a break
\* counts nowhere, and neither do its checks.
CountsAreOfEndedCases ==
  at = "between" =>
    /\ suite.total = [pass |-> Cardinality(Passing(Counted)), total |-> Cardinality(Counted)]
    /\ suite.cases = [pass |-> Cardinality({k \in log.ended : ~Failing(k)}),
                      total |-> Cardinality(log.ended)]

\* The status a suite returns is 0 exactly if no check failed in a case that
\* came to its end, and a case that was selected is ended or was left by a
\* break: "success ? 0 : 1" (test.h:107).  A suite whose filter is no regular
\* expression runs whole (test.h:62-63); one whose filter selects nothing succeeds.
StatusTellsFailure ==
  (at = "exited" /\ log.returns) =>
    /\ (status = 0) <=> \A k \in log.ended : ~Failing(k)
    /\ log.ended \cup log.lost = {k \in DOMAIN Cases : log.filter.bad \/ Selected(log.filter, Cases[k])}
============================================================================
