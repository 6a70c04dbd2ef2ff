------------------------------- MODULE Args -------------------------------
(***************************************************************************)
(* io/args.h (args_parse) and io/args.hpp (Args::Parse, the same code): a  *)
(* loop around getopt_long that stores the arguments of long options where *)
(* the option table points to.                                             *)
(*                                                                         *)
(* getopt_long is not part of the repository.  It is modelled as glibc has *)
(* it for the option string "", because the loop depends on its details:   *)
(* it moves the other arguments behind the options, and it keeps its place *)
(* in static variables that no call of args_parse resets.  Arguments are   *)
(* numbered as in C: argv[0], the program, is left out of the sequences    *)
(* and argc is the length plus one.                                        *)
(***************************************************************************)
EXTENDS BufOps, FiniteSetsExt, SequencesExt

CONSTANTS
  Options,  \* the table: a sequence of [type, default]
  Words,    \* what an argument can be: a function from words to what they mean
  Arenas    \* the arenas a program may have

\* A word is an option (of the table's options it may stand for, several if it
\* is an abbreviation, with a value if it has the form --name=value), letters
\* behind a single dash, the word "--" or neither, as "-" is; number is what atoi
\* makes of it.
Kinds == {"option", "letters", "end", "other"}

ASSUME ArgsAssumption ==
  /\ DOMAIN Options = 1 .. Len(Options) /\ Len(Options) \in Nat
  /\ \A i \in DOMAIN Options :
       /\ Options[i].type \in {"Bool", "Float", "Integer", "String", "Array"}
       /\ Options[i].type = "Bool" => Options[i].default \in BOOLEAN
  /\ \A w \in DOMAIN Words :
       /\ Words[w].kind \in Kinds /\ Words[w].hits \subseteq DOMAIN Options
       /\ Words[w].letters \in Nat /\ (Words[w].kind = "letters" <=> Words[w].letters > 0)
       /\ Words[w].kind = "letters" => Words[w].hits = {}

NoArg == "no argument"
OptionSize == 32
Align == 8

VARIABLES
  go,     \* getopt's optind, first_nonopt and last_nonopt, and the letters of the
          \* word at optind that are still to be read, from nextchar on
  argv,   \* the arguments, in the order getopt has put them
  opts,   \* the table: the value each option's val points to, and found
  arena,  \* the arena given to the parser
  parse   \* the call under way or the last one

argsVars == <<go, argv, opts, arena, parse>>

Argc == Len(argv) + 1
Fresh == [i \in DOMAIN Options |-> [value |-> Options[i].default, found |-> FALSE]]
HasArg(i) == Options[i].type # "Bool"

ArgsInit ==
  /\ go = [optind |-> 1, first |-> 1, last |-> 1, nextchar |-> 0]
  /\ argv = <<>>
  /\ opts = Fresh
  /\ arena \in Arenas
  /\ parse = [pc |-> "idle", strict |-> FALSE, err |-> 0, given |-> <<>>,
            left |-> FALSE, seen |-> 0, clean |-> TRUE]

----------------------------------------------------------------------------
\* getopt_long

\* The options in last .. optind - 1 change places with the others before them.
Exchanged(g, a) ==
  IF g.first # g.last /\ g.last # g.optind
  THEN [argv |-> SubSeq(a, 1, g.first - 1) \o SubSeq(a, g.last, g.optind - 1)
                 \o SubSeq(a, g.first, g.last - 1) \o SubSeq(a, g.optind, Len(a)),
        first |-> g.first + g.optind - g.last, last |-> g.optind]
  ELSE [argv |-> a, first |-> IF g.last # g.optind THEN g.optind ELSE g.first, last |-> g.last]

\* The first of the words from i on that is no plain argument.
NextOption(a, i) ==
  Min({j \in i .. Len(a) : Words[a[j]].kind # "other"} \cup {Len(a) + 1})

\* The option a word stands for.  An abbreviation of several options is refused
\* unless all of them take an argument, or none: val is 0 for all of them, so
\* that getopt takes them for one, and the first of the table gets it.
Resolved(hits) ==
  IF Cardinality({HasArg(i) : i \in hits}) = 1 THEN Min(hits) ELSE 0

Got(ret, index, optarg) == [ret |-> ret, index |-> index, optarg |-> optarg]

\* The word at optind: what is returned, and how many words it took.  An option
\* that wants an argument and has none of its own takes the next word; one that
\* has too much or too little is refused.
Scan(a, i) ==
  LET w == Words[a[i]]
      k == Resolved(w.hits)
      takesNext == k # 0 /\ HasArg(k) /\ w.value = NoArg /\ i < Len(a)
      optarg == IF takesNext THEN a[i + 1] ELSE w.value
      refused == k = 0 \/ (HasArg(k) <=> optarg = NoArg)
  IN  <<IF refused THEN Got("?", 0, NoArg) ELSE Got("0", k, optarg),
        IF takesNext THEN 2 ELSE 1>>

\* The next word is looked for and read.
NextWord(g, a) ==
  LET g0 == [g EXCEPT !.last = IF @ > g.optind THEN g.optind ELSE @,
                      !.first = IF @ > g.optind THEN g.optind ELSE @]
      x == Exchanged(g0, a)
      i == NextOption(x.argv, g.optind)
      end == i <= Len(a) /\ Words[x.argv[i]].kind = "end"
      y == Exchanged([optind |-> i + 1, first |-> x.first, last |-> i], x.argv)
      b == IF end THEN y.argv ELSE x.argv
      first == IF ~end THEN x.first
               ELSE IF x.first = i THEN i + 1 ELSE y.first
      stop == Len(a) + 1
  IN  IF end \/ i = stop
      THEN [got |-> Got("end", 0, NoArg), argv |-> b,
            go |-> [optind |-> IF first # stop THEN first ELSE stop, first |-> first, last |-> stop,
                    nextchar |-> 0]]
      ELSE LET s == Scan(b, i) IN
           [got |-> s[1], argv |-> b,
            go |-> [optind |-> i + s[2], first |-> first, last |-> i, nextchar |-> 0]]

\* A letter is read.  The option string is "": there are no options of one letter,
\* each is refused, and only the last one of a word moves optind.
Letter(g, a) ==
  [got |-> Got("?", 0, NoArg), argv |-> a,
   go |-> [g EXCEPT !.nextchar = @ - 1, !.optind = IF g.nextchar = 1 THEN @ + 1 ELSE @]]

\* A word with letters stays where it is until they are read, one by each call;
\* r is what reading the next word gives.
ByLetters(r, g, a) ==
  LET w == Words[r.argv[r.go.last]]
  IN  IF g.nextchar > 0 THEN Letter(g, a)
      ELSE IF r.got.ret # "end" /\ w.kind = "letters"
      THEN Letter([r.go EXCEPT !.optind = r.go.last, !.nextchar = w.letters], r.argv)
      ELSE r

\* One call: what it returns, and argv and its variables afterwards.
GetoptLong(g, a) == ByLetters(NextWord(g, a), g, a)

----------------------------------------------------------------------------
\* The parser

\* A call with a table and an argv of its own, as the tests make it; getopt's
\* variables stay what they are.  With fewer words than an earlier call had,
\* getopt would read behind the end of argv: such calls are left out.
StartParse(given, strict) ==
  LET a == Alloc(arena, OptionSize, Align, Len(Options) + 1, FALSE) IN
  /\ parse.pc \in {"idle", "done"}
  /\ Len(given) >= Len(argv)
  /\ argv' = given
  /\ opts' = Fresh
  /\ arena' = a.buf
  /\ parse' = [pc |-> IF a.out = "trap" THEN "trap" ELSE "loop", strict |-> strict, err |-> 0,
               given |-> given, left |-> FALSE, seen |-> Len(argv),
               clean |-> parse.clean /\ ~parse.left]
  /\ UNCHANGED go

\* Mutant: an option without argument is set, not toggled.
StoreSet(r) ==
  LET i == r.index IN
  IF r.optarg = NoArg
  THEN IF Options[i].type = "Bool" THEN [opts EXCEPT ![i].value = TRUE] ELSE opts
  ELSE [opts EXCEPT ![i].found = TRUE,
          ![i].value = CASE Options[i].type \in {"Integer", "Float"} -> Words[r.optarg].number
                         [] Options[i].type = "String" -> r.optarg
                         [] OTHER -> @]

\* case 0: an argument is stored, by atof, atoi or as it is, if the type of the
\* option is one of those handled; an option without one is a Bool and toggled.
Store(r) ==
  LET i == r.index IN
  IF r.optarg = NoArg
  THEN IF Options[i].type = "Bool" THEN [opts EXCEPT ![i].value = ~@] ELSE opts
  ELSE [opts EXCEPT ![i].found = TRUE,
          ![i].value = CASE Options[i].type \in {"Integer", "Float"} -> Words[r.optarg].number
                         [] Options[i].type = "String" -> r.optarg
                         [] OTHER -> @]

\* Mutant: optind is set to 1 in every turn, as some say (args.h:139).
TakeOptionReset ==
  LET r == GetoptLong(go, argv) IN
  /\ parse.pc = "loop" /\ r.got.ret # "end"
  /\ argv' = r.argv /\ go' = [r.go EXCEPT !.optind = 1]
  /\ opts' = IF r.got.ret = "0" THEN Store(r.got) ELSE opts
  /\ UNCHANGED <<arena, parse>>

\* One turn of the loop that getopt does not end; '?' is dropped.
TakeOption ==
  LET r == GetoptLong(go, argv) IN
  /\ parse.pc = "loop" /\ r.got.ret # "end"
  /\ argv' = r.argv /\ go' = r.go
  /\ opts' = IF r.got.ret = "0" THEN Store(r.got) ELSE opts
  /\ UNCHANGED <<arena, parse>>

\* The end: what is left is refused, or printed with optind going over it.
FinishParse ==
  LET r == GetoptLong(go, argv)
      refused == parse.strict /\ r.go.optind < Argc
  IN
  /\ parse.pc = "loop" /\ r.got.ret = "end"
  /\ argv' = r.argv
  /\ parse' = [parse EXCEPT !.pc = "done", !.left = r.go.optind < Argc,
                           !.err = IF refused THEN -1 ELSE 0]
  /\ go' = IF refused THEN r.go ELSE [r.go EXCEPT !.optind = Argc]
  /\ UNCHANGED <<opts, arena>>

\* args_dump_values prints the options of the types that can be stored.
Dumped == {i \in DOMAIN Options : Options[i].type \in {"Bool", "Float", "Integer", "String"}}
DumpValues == [i \in Dumped |-> opts[i]]

----------------------------------------------------------------------------
\* Properties

\* What the words given mean, read from left to right: the options before "--"
\* with their arguments, the last one of an option winning and a Bool toggled
\* each time, and the other words in their order.  ReadWord is one step of it.
Unread == [next |-> 1, ended |-> FALSE, rest |-> <<>>,
           last |-> [k \in DOMAIN Options |-> NoArg], times |-> [k \in DOMAIN Options |-> 0]]

ReadWord(given, m, i) ==
  LET w == Words[given[i]]
      s == Scan(given, i)
      k == s[1].index
      taken == w.kind = "option" /\ s[1].ret = "0"
  IN IF i < m.next THEN m
     ELSE IF m.ended \/ w.kind = "other" THEN [m EXCEPT !.rest = Append(@, given[i])]
     ELSE [next |-> IF w.kind = "end" THEN m.next ELSE i + s[2],
           ended |-> w.kind = "end", rest |-> m.rest,
           last |-> IF taken THEN [m.last EXCEPT ![k] = s[1].optarg] ELSE m.last,
           times |-> IF taken THEN [m.times EXCEPT ![k] = @ + 1] ELSE m.times]

Reading(given) ==
  LET m[i \in 0 .. Len(given)] == IF i = 0 THEN Unread ELSE ReadWord(given, m[i - 1], i) IN m

Meaning(given) == Reading(given)[Len(given)]

\* The table o has what the words read as m say.
Told(o, m) ==
  \A i \in DOMAIN Options :
    /\ o[i].found <=> (HasArg(i) /\ m.times[i] > 0)
    /\ Options[i].type = "Bool" =>
         o[i].value = IF m.times[i] % 2 = 0 THEN Options[i].default ELSE ~Options[i].default
    /\ Options[i].type = "String" =>
         o[i].value = IF m.times[i] > 0 THEN m.last[i] ELSE Options[i].default
    /\ Options[i].type \in {"Integer", "Float"} =>
         o[i].value = IF m.times[i] > 0 THEN Words[m.last[i]].number ELSE Options[i].default

\* A parse leaves in the table what the arguments mean: no option is lost or
\* taken twice while getopt moves them about, found tells which have been given
\* a value, the words that are left are the plain ones, in their order, and a
\* strict parse fails exactly if there are any (args.h:150-208).  A later parse
\* sees only the words beyond those parsed before: "Somehow seems like getopt
\* maintains state, so we cannot test twice" (test_io_args.c:58).  Nothing is said
\* of a parse after one that left words over, which getopt goes on moving about.
ParsedAsGiven ==
  (parse.pc = "done" /\ parse.clean) =>
    LET m == Meaning(SubSeq(parse.given, parse.seen + 1, Len(parse.given))) IN
    /\ Told(opts, m)
    /\ SubSeq(argv, 1, parse.seen) = SubSeq(parse.given, 1, parse.seen)
    /\ SubSeq(argv, Len(argv) - Len(m.rest) + 1, Len(argv)) = m.rest
    /\ parse.err = IF parse.strict /\ m.rest # <<>> THEN -1 ELSE 0
============================================================================
