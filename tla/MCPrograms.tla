----------------------------- MODULE MCPrograms -----------------------------
(***************************************************************************)
(* Two cases and a filter for either, for none and for no regular          *)
(* expression; mdcode's options and two more.                              *)
(***************************************************************************)
EXTENDS Programs

MCCases == <<"Size", "args_parse">>
MCFilters ==
  {[bad |-> FALSE, hits |-> {"args_parse"}], [bad |-> FALSE, hits |-> {}], [bad |-> TRUE, hits |-> {}]}

MCOptions == <<[type |-> "Bool",    default |-> FALSE],    \* help
               [type |-> "String",  default |-> "in"],     \* path_in
               [type |-> "String",  default |-> "out"],    \* path_out
               [type |-> "Bool",    default |-> TRUE],     \* plain
               [type |-> "Integer", default |-> 0]>>       \* gain

Option(hits, value) ==
  [kind |-> "option", letters |-> 0, hits |-> hits, value |-> value, number |-> 0]
Plain(number) ==
  [kind |-> "other", letters |-> 0, hits |-> {}, value |-> NoArg, number |-> number]
Letters(n) == [Plain(0) EXCEPT !.kind = "letters", !.letters = n]
MCWords ==
  [w \in {"--h", "--path_", "--path_out=1", "--p", "--help=1", "--gain", "-h", "-abc",
          "a", "1", "--"} |->
     CASE w = "--h"          -> Option({1}, NoArg)
       [] w = "--path_"      -> Option({2, 3}, NoArg)
       [] w = "--path_out=1" -> Option({3}, "1")
       [] w = "--p"          -> Option({2, 3, 4}, NoArg)
       [] w = "--help=1"     -> Option({1}, "1")
       [] w = "--gain"       -> Option({5}, NoArg)
       [] w = "-h"           -> Letters(1)
       [] w = "-abc"         -> Letters(3)
       [] w = "--"           -> [Plain(0) EXCEPT !.kind = "end"]
       [] w = "a"            -> Plain(0)
       [] w = "1"            -> Plain(1)]

\* mdcode gets every list of up to three words and some of more; a case gets one
\* of a few, and for a second parse one that is as long as the first or longer.
MCCommands ==
  BoundedSeq(DOMAIN MCWords, 3)
    \cup {<<"a", "--h", "1", "--gain", "1", "a", "--h">>, <<"a", "1", "--path_", "a", "--", "1">>,
         <<"--gain", "-h", "a", "-abc", "1", "--h">>}
MCLines ==
  <<{<<>>, <<"--h">>, <<"--p", "--gain", "1">>, <<"a", "--h">>, <<"a", "1", "--path_", "1", "--">>},
    {<<"1", "-abc", "--", "--h", "a">>, <<"--h", "1", "a", "--gain", "1">>}>>

\* An arena with room for the table twice, and one without.
MCArenas == {[base |-> 4096, len |-> 0, cap |-> 512], [base |-> 4096, len |-> 0, cap |-> 64]}
=============================================================================
