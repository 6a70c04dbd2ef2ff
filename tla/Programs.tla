------------------------------ MODULE Programs ------------------------------
(***************************************************************************)
(* Whole programs: a test program in the form of test_io_args.c, which     *)
(* parses argument lists of its own inside its cases and checks the        *)
(* results, and mdcode, which parses its command line and acts on it.  The *)
(* calls of args_parse in one program share getopt's static variables and  *)
(* the program's arena; its cases share the counters of the suite.         *)
(***************************************************************************)
EXTENDS TestSuite, Args

CONSTANTS
  Commands,  \* the command lines of mdcode
  Lines,     \* the argument lists the n-th parse of a test program may get
  MaxChecks, \* bound on the checks of a test program
  Help       \* the number of mdcode's option "help"

ASSUME ProgramsAssumption ==
  /\ Commands \subseteq Seq(DOMAIN Words)
  /\ Lines \in Seq(SUBSET Seq(DOMAIN Words))
  /\ Commands # {} => Help \in DOMAIN Options /\ Options[Help].type = "Bool" /\ ~Options[Help].default

VARIABLE
  calls      \* the number of parses, and what mdcode printed

vars == <<suiteVars, argsVars, calls>>

Init ==
  /\ SuiteInit
  /\ ArgsInit
  /\ calls = [parses |-> 0, shown |-> "nothing"]

Parsing == parse.pc = "loop"
Trapped == parse.pc = "trap"

\* The harness goes on while no parse is under way.
Harness ==
  /\ ~Parsing /\ ~Trapped
  /\ \/ \E filter \in Filters \cup {NoFilter} : SuiteStart(filter)
     \/ CaseStart
     \/ CaseEnd
     \/ CaseBreak
     \/ SuiteFinish
     \/ SuiteDrop
  /\ UNCHANGED <<argsVars, calls>>

\* A check of the result of the last parse, or of something else.
Expect ==
  /\ ~Parsing /\ ~Trapped
  /\ Len(log.checks) < MaxChecks
  /\ \/ parse.pc = "done" /\ Check(parse.err = 0)
     \/ parse.pc = "idle" /\ \E ok \in BOOLEAN : Check(ok)
  /\ UNCHANGED <<argsVars, calls>>

\* A case parses a list it has set up.
CaseParse ==
  /\ at = "body" /\ calls.parses < Len(Lines)
  /\ \E given \in Lines[calls.parses + 1], strict \in BOOLEAN : StartParse(given, strict)
  /\ calls' = [calls EXCEPT !.parses = @ + 1]
  /\ UNCHANGED suiteVars

\* The loop of args_parse.
ParseStep ==
  /\ TakeOption \/ FinishParse
  /\ UNCHANGED <<suiteVars, calls>>

\* main of mdcode parses its command line, and nothing may be left over.
MdcodeParse ==
  /\ at = "start" /\ calls.parses = 0
  /\ \E given \in Commands : StartParse(given, TRUE)
  /\ at' = "mdcode"
  /\ calls' = [calls EXCEPT !.parses = 1]
  /\ UNCHANGED <<suite, next, status, log>>

\* Mutant: help is shown before the error is looked at.
MdcodeEndHelp ==
  /\ at = "mdcode" /\ parse.pc = "done"
  /\ status' = IF parse.err # 0 /\ ~opts[Help].value THEN 1 ELSE 0
  /\ calls' = [calls EXCEPT !.shown = IF opts[Help].value THEN "help"
                                      ELSE IF parse.err # 0 THEN "nothing" ELSE "paths"]
  /\ at' = "left"
  /\ UNCHANGED <<suite, next, log, argsVars>>

\* OnError_Fatal exits with 1; otherwise the help or the paths are printed.
MdcodeEnd ==
  /\ at = "mdcode" /\ parse.pc = "done"
  /\ status' = IF parse.err # 0 THEN 1 ELSE 0
  /\ calls' = [calls EXCEPT !.shown = IF parse.err # 0 THEN "nothing"
                                      ELSE IF opts[Help].value THEN "help" ELSE "paths"]
  /\ at' = "left"
  /\ UNCHANGED <<suite, next, log, argsVars>>

\* An arena too small for the table of options: buf_alloc traps.
Ended == at \in {"exited", "left"} \/ Trapped
Rest == Ended /\ UNCHANGED vars

Next == Harness \/ Expect \/ CaseParse \/ ParseStep \/ MdcodeParse \/ MdcodeEnd \/ Rest

Spec == Init /\ [][Next]_vars

----------------------------------------------------------------------------
\* Properties

\* mdcode fails exactly if its command line has a word that belongs to no
\* option; otherwise it shows its help if --help is there an odd number of
\* times and the paths if not (main.cpp:32-44).  What getopt does not know, or
\* cannot decide, is no reason to fail, letters behind a single dash (-help) neither, and help is not shown to a line that is
\* refused.
MdcodeDoesAsTold ==
  at = "left" =>
    LET m == Meaning(parse.given) IN
    /\ status = IF m.rest = <<>> THEN 0 ELSE 1
    /\ calls.shown = IF m.rest # <<>> THEN "nothing"
                     ELSE IF m.times[Help] % 2 = 1 THEN "help" ELSE "paths"

\* The letters that getopt has to read before it leaves the word at optind.
UnreadLetters(g, a) ==
  IF g.nextchar > 0 THEN g.nextchar
  ELSE IF g.optind <= Len(a) THEN Words[a[g.optind]].letters ELSE 0

\* No turn of the loop of args_parse leaves getopt where it was (args.h:137-197):
\* it goes on among the words, never further than behind the last one, or it stays
\* at a word of letters and has fewer of them to read.  So the loop ends, after as
\* many turns as there are words and letters behind a single dash, at most.
EveryTurnAdvances ==
  [][Parsing /\ parse'.pc = "loop" =>
       \/ go'.optind > go.optind /\ go'.optind <= Argc'
       \/ go'.optind = go.optind /\ UnreadLetters(go', argv') < UnreadLetters(go, argv)]_vars
============================================================================
