# A verification of the stz standard libraries

`src/repos/stz-c` is a header-only C library: an arena allocator, arrays,
strings, a hash set, a hash map, and on top of them files, command-line
arguments and the execution of commands. `src/repos/stz-cpp` is the same library
in C++, function by function and in most places line by line. This directory
holds TLA+ models of it, the TLC runs that check them, and TLAPS proofs. Paths
below are relative to `src/repos/stz-c/include/stz-c/`.

## The system

The library is used by one sequential program. Concurrency enters in one place:
`cmd_exec` forks a child and talks to it over two pipes. Files are shared with
the rest of the machine, which may change them between any two system calls.

| Component | Code | State | Operations |
|---|---|---|---|
| Arena | `builtin/buf.h`, `builtin/arr.h` | address, `len`, `cap`; the blocks callers hold; the bytes in them | `buf_new`, `buf_stack`, `buf_reset`, `buf_free`, `buf_alloc` (`Make`, `arr_new`), `buf_new2`, `buf_shrink`, `arr_shrink`, `buf_avail`, `buf_ontop` |
| Hash set | `builtin/set.h`, `builtin/hash.h` | slots, `len`, capacity `2^exp` | `set_new`, `set_lookup`, `set_insert`, `set_delete` |
| Hash map | `builtin/map.h`, `builtin/hash.h` | the same, with a value beside each key | `map_new`, `map_lookup`, `map_insert`, `map_delete` |
| Commands | `io/cmd.h` | pipe ends of parent and child, the pipes, the child, two sub-buffers | `cmd_exec` |
| Strings | `builtin/str.h` | views on bytes owned elsewhere; formatting writes into an arena | `str_equal`, `str_find`, trims, splits, iterators, `str_fmt` |
| Files | `io/file.h` | the file system, a `FILE`, an arena block | `file_size`, `file_read`, `file_write` |
| Arguments | `io/args.h` | `getopt`'s `optind` and its place in a word, the argument table | `args_parse`, `args_print` |
| Test harness | `test.h` | counters of suites and cases, a filter | the suite and case macros, the exit status |
| mdcode | `src/apps/mdcode` | its options | `main` |
| Proofs of concept | `src/pocs` | a format reader's place, a buffer | `rpl_vsnprintf`, `rpl_snprintf`, `rpl_asprintf` |
| Results, types, printing | `builtin/res.h`, `errors.h`, `types.h`, `vec.h`, `print.h` | none | macros and layout |

How they interact. Everything that keeps bytes takes them from an arena: sets
and maps allocate their slots in one with `ALLOC_ZERO` (and depend on the zeros:
an empty slot *is* the string {0, 0}), `cmd_exec` and `file_read` put a
sub-buffer on top of it, fill it, and shrink it to what they used. Sets and maps
hold strings, which are views, and compare and hash what they point to. Strings
that are made (`str_copy`, `str_fmt`) live in an arena and are what the file
functions get as paths; `args_parse` takes its table from an arena and its place
from `getopt`'s static variables, which all parses of a program share, test cases
included.

What is hard here, and what would make it correct:

* *Arena.* Padding depends on the address and not on the offset; the capacity
  check leaves the padding out; blocks are given back only from the top, in any
  order the callers like; a reset recycles dirty bytes. Blocks must never
  overlap, must be aligned, must read as zeros if that was asked for, and the
  damage the check does must stay bounded.
* *Set and map.* Deletions leave tombstones in the middle of probe chains,
  insertions reuse them; there is no resize, so tables do get full, also of
  tombstones; the probing step comes from the hash. No key may become
  unreachable, every call must end, slot numbers and value pointers handed out
  must stay good.
* *Commands.* Parent and child run interleaved; pipes are bounded; reads are
  short; the end of a stream shows only when the last writer is gone; commands
  fail, get killed, write too much or just as much as fits. Output must be
  captured in full, no byte may land outside, nothing may be left behind, and
  the caller must get control back.
* *Strings.* Views of a text are split again, trimmed and iterated while a split
  writes NULs into the text below them; searches run past the end of a view;
  array sizes, empty parts, strings of blanks and empty needles are each a case
  of their own. Parts must be exact and in order, nothing but separators and
  blanks may get lost, loops must end and not be disturbed by their bodies.
* *Strings in an arena.* Formatting takes all the room there is, and gives back
  what the text did not need, as computed from a length that may be larger than
  the room. Strings made before must keep their bytes.
* *Files.* `stat` and `fopen` are two looks at a name that may lead elsewhere each
  time, and `fread` looks at the file several times while others write to it;
  `fwrite` says nothing about what `fclose` will store. What is read must be of one
  file, and of what is written only so much may get lost.
* *Arguments.* `getopt` permutes the words while it goes over them, reads some of
  them letter by letter, and keeps its place between calls; abbreviations may stand
  for several options. The table must hold what the words mean, and the loop must
  end.
* *Harness.* A case is the body of a loop; leaving it by `break` skips the
  increment that counts it. Counts and status must tell what happened.
* *snprintf.* A state machine reads formats that may be malformed and prints into
  buffers that may be too small, twice in `asprintf`; each conversion has its own
  corner cases of padding, rounding and sign. Nothing may be stored outside, both
  passes must agree, and what is printed must read back as the argument.

`PROJECT.json` lists these hazards at their lines.

## The modules

| Module | Models |
|---|---|
| `BufOps` | the arithmetic of `buf_alloc` and `buf_ontop`, as operators on one arena |
| `Buf` | the arena as a state machine with its callers' blocks |
| `Region` | what an arena promises, without layout |
| `HashSet` | `set.h` and `hash.h`, one action per turn of a probe loop |
| `KeyBag` | what a set promises: a bag of keys |
| `HashMap` | `map.h`: the set's actions with values |
| `KeyStacks` | what a map promises: a stack of values per key |
| `CmdExec` | `cmd_exec`: parent, child, pipes, arena |
| `StrOps` | the functions of `str.h` and `str.hpp` on views, as operators on a memory |
| `Text` | a program that takes a text apart with them |
| `StrMem` | the functions of `str.h` that make strings, in an arena |
| `FileIO` | `file.h` and `file.hpp`, one action per system call; extends `StrMem` |
| `TestSuite` | `test.h`: the harness |
| `Args` | `args_parse` over a model of `getopt_long` |
| `Programs` | whole programs: `TestSuite` and `Args` composed, and `mdcode` |
| `FmtOps` | the conversions of `poc_snprintf_holger_weiss.c`, as operators |
| `Vsnprintf` | its format reader and the callers `snprintf` and `asprintf` |
| `MC*` | small instances for TLC |
| `*Proofs`, `NatLemmas` | proofs |

Operators marked "Mutant" in a comment are variants of the code with a plausible
bug; no specification uses them. They are there to try the properties on
(`mutants` in `PROJECT.json`): each property fails on one of them.

### Arena (`BufOps`, `Buf`)

`buf` is the C struct, with the address `base` in place of the pointer; offsets
are relative to it. `blocks` is a sequence, oldest first, of the blocks callers
hold, as half-open byte ranges with the alignment they were asked for with;
sub-buffers (`kind = "buf"`) have a fill level `used`. `dirty` is the set of
offsets whose byte is not zero, which is all that `ALLOC_ZERO` can tell apart.
`trapped` is the `__builtin_trap` of a failed check or assertion.

`Alloc` is `buf_alloc` with its branches in order: negative count (assertion),
zero count (a pointer, no bytes), no room (trap, or NULL with `ALLOC_SOFTFAIL`),
success. C divides signed numbers towards zero and TLA+ downwards; for a count
of at least one, `count <= x / size` is the same with either. `Pad` is
`-(uptr)beg & (align - 1)` for a power of two.

`BufShrink` is enabled on the newest block only: `buf_shrink` checks nothing, and
its callers in the library call it so. `ArrShrink` has its assertion, so it is
enabled on every array, and may trap. Negative `newlen` is left out: it is a
caller's error the code does not look for.

### Set and map (`HashSet`, `HashMap`)

`slots` and `len` are the struct. The FNV hash is abstracted to any function
from keys to words, chosen once (`hash`); what the probe sequence does with the
word (mask, shift, "make odd") is as in `hash64_msi_next`. The hash's width
`HashBits` is a constant: 64 in the code. The original C variable `i` is the
full hash at first and is masked by the first step; since the capacity divides
the word size, keeping only `hash % Cap` gives the same slots.

A call is a loop, and `call` holds its local variables. `Begin` is everything
before the loop, early returns included; each of the other actions is one way a
turn of the loop may go, in the order of the code's `if`s (the guards exclude
each other).
`StrNull`, the empty key, is not a key a caller may use, being the
table's own mark; the same holds of the tombstone.

`HashMap` extends `HashSet`; each of its actions conjoins the set's action with
what happens to `vals`, to the third argument (`arg`), and to what the returned
pointer shows (`got`).

### Commands (`CmdExec`)

`pc` is the place in `cmd_exec`; `pfds` and `cfds` are the pipe ends that parent
and child hold; `piped` counts the bytes in each pipe, `sub` and `room` are
`bout`, `berr` and the local `cap`. The arena is the one of `BufOps`. The child
is any program of `Programs`: so many bytes to each stream in any order and any
portions, closing early or not, ending by `exit` or by a signal. Pipes, `read`,
`fork`, `waitpid` are external and modelled as `cmd.h` uses them: reads may be
short, `pipe` and `fork` may fail, a read sees the end once the pipe is empty
and no one holds a write end, and a signal may interrupt a call that blocks.

`Interrupt` models what the code does then, which is to add -1 to the length;
properties about lengths and status are for undisturbed runs (`intr = 0`),
because the code has no handling of `EINTR` there to check. One call of
`cmd_exec` is modelled, from any arena state of `Arenas`: it leaves nothing
behind but the arena and, on the `ENOMEM` path, open descriptors and the child.

### Strings (`StrOps`, `Text`)

A Str is an address and a length in a memory of characters; address 0 is NULL.
`StrOps` translates the functions: a loop that looks for the first or last
position of some kind is the `Min` or `Max` of these positions, and the loop of
`str_splitc`, which carries state, is a function of the number of its turns
(`SplitLoop`), each of which does its body (`SplitTurn`). The two libraries differ
in `strncmp` for `memcmp`, which all comparisons and searches go through, and in the
test of the last part of a split; `lang` says which one is meant.

`Text` is a client. The memory is a text, the NUL behind it, and the literal that
holds the needles. `parts` is what the last call handed out and `job` the call
with the memory it was made in, so that properties can relate the two. The
program splits the text or one of the parts (also overwriting the separators),
trims what it got, takes a pair apart, compares; or it runs
`while (src.len) part = str_till_next(&src, needle)`, one `Turn` per iteration,
with a body that may split the part at hand and thereby write to the text.
`Looped` states are not left: what follows a loop could have been another
program. The array of parts lives in an arena; how much room it has is `room`,
and the bytes themselves are the arena's matter. What comparisons and searches
answer is measured on the bytes (`ComparesAgree`): all of them in C, in C++ those up
to the first NUL, which substitution puts into texts; `MatchAtAllBytes` is what
`str.hpp:129` says instead.

Some behaviour the properties pin down that a reader may not expect: a string of
blanks is not trimmed; a needle may be found across the end of a view that is
part of a longer text, after which the iterator hands out a last part of
negative length; an empty needle makes the loop run for ever; a loop does not
hand out the empty part behind a last separator, a split does.

### Strings in an arena, files (`StrMem`, `FileIO`)

`mem` is the arena's bytes and those behind it; `strs` the strings the program has
made, with the text each was made from, how much of it was stored (`kept`), and
whether a terminator follows for good, until the next allocation, or not
(`term`). `vsnprintf` is external and does what C99 says. `BufAvail` divides
unsigned numbers, of `Word` values here, so that a negative rest becomes a huge
count, as in the code.

In `FileIO` names lead to numbered nodes, so that an open stream stays with its
node when the name is given another. `Others` replaces, removes or rewrites what a
name leads to between any two system calls; `fopen`, `fread`, `fwrite` and
`fclose` may fail or come short. As in glibc, `fwrite` hands on whole blocks and
leaves the rest to `fclose`, and `fread` asks for all whole blocks, then for the
rest, in as many `read`s as it takes (`ReadData`; any of them may give less than was
asked for), between which others may write to the file. So a successful read may be
torn, which `ReadIsOfOneFile` allows: it says that each byte was at its place in the
opened file at some time since it was opened. `world.held` has the contents of that
file since then. A path is a C string, so a lost terminator leads to
another name. The two libraries differ in what they say of the size of a
directory; `lang` says which one is meant.

### Harness, arguments, programs (`TestSuite`, `Args`, `Programs`)

`TEST_CASE` is a loop of one turn with the filter as its condition and
`test_case_finish` as its increment: `CaseEnd` goes through it, `CaseBreak` does
not. `at` is the place in the suite, `log` what happened, for the properties.
`SuiteDrop` is the `main` of `test_io_args.c`, which does not return what
`TEST_RESULTS` gives it and exits with 0; `StatusTellsFailure` is stated for the
others.

`getopt_long` is external and modelled as glibc has it for the option string `""`:
`go` is its static `optind`, `first_nonopt` and `last_nonopt`, `Exchanged` moves
the words it has passed over behind the options, `Scan` takes one option. A word
is what it means to `getopt`: the options it may stand for (several for an
abbreviation) and its value, or a number of letters behind a single dash. There are
no options of one letter, so `getopt` refuses each of them (`Letter`): `-ab` takes two
turns of the loop, of which only the second moves `optind`; until then `nextchar`
counts the letters that are left. `TakeOption` is one turn of the loop of `args_parse`.
What `getopt` refuses is dropped without a word, also by a strict parse.

`Programs` composes the two: the cases of a test program parse lists of their own
with the shared `go`, table and arena, and check the results; and `mdcode` parses
its command line and prints help or paths.

### snprintf (`FmtOps`, `Vsnprintf`)

`FmtOps` translates `fmtint`, `fmtflt`, `fmtstr` and the helpers they call as
operators from a value and the parsed flags to the characters printed; a loop over
digits is a recursive function. Floating-point numbers are decimal fractions `n /
10^d`, exact within `FracDigits`: how `long double` rounds is left out, how the
code rounds with it is not. `Vsnprintf` is the reader: `state` is the code's, one
action per state and per group of conversions, `conv` the conversion being read,
`pos` and `arg` where it is in format and arguments. `asprintf` measures in a
first pass and writes in a second one. `out` is what was given to `OUTCHAR`,
whether stored or not, for the properties. An argument of another kind than the
format asks for, or none at all, is undefined behaviour in C and no step (`Given`).
The arguments of `*` are all of `int` (`Star`); the negation of its least value
overflows, and `NegatedMin` is what the build makes of it, the value itself or the
positive one; the run has the positive one, the proofs both. A null pointer for the
buffer counts as size 0 (`Init`).

`FieldAsAsked` asks for what C99 asks for, with three exceptions its comments name:
the value 0 has a digit also with the precision 0, a character has no width, and
what `TakenTwice` names is short. They are listed as findings.

## The runs

| Run | Instance | Shows |
|---|---|---|
| `buf` | char and a 4-byte type of alignment 4; arenas of 2 and 5 bytes at an even and an odd address; up to 3 blocks | the invariants and action properties of `Buf`; refinement of `Region` |
| `set` | capacity 4, three keys; two collide along the whole sequence, the third has every start and step | invariants, pinned slots, termination, refinement of `KeyBag` |
| `set_gone` | the same | *violation*: a deleted key may still be there |
| `map` | capacity 4, two keys, two values | bindings, refinement of `KeyStacks` |
| `map_over` | the same | *violation*: insertion does not overwrite |
| `cmd` | streams of 0 to 4 bytes, pipes of 2, buffers of 4 and 3, arenas with room for both, for one, for none; one interruption | capture, bounds, cleanup, status, termination when stderr fits its pipe |
| `cmd_stuck` | the same, no interruption | *violation*: deadlock with the child |
| `text` | every text of 3 characters out of a letter, a blank and a newline; needles from `x x`; room for 0, 2 and 9 parts; C and C++ | splits, trims, comparisons, loops |
| `text_nul` | the same | *violation*: in C++ strings are equal although bytes behind a common NUL differ |
| `io` | an arena of 5 bytes, at most 2 strings of up to 3 characters; one name, stdio blocks of 2; one change by others, 3 events; C and C++ | strings and paths keep their bytes, each byte read is of the opened file, what a write can lose |
| `suite` | two cases, four filters, 3 checks; five options; `mdcode` on every command line of up to 3 of 11 words, `-h` and `-abc` among them, and some longer; up to two parses in a test program; arenas with and without room | counts and status, what parses leave in the table, that each turn takes a parse further |
| `fmt` | integer types of 4 to 8 bits and `intmax_t` of 11; combinations of flags, width, precision, modifier and conversion, pairs of conversions, all sequences of up to 4 characters out of 7; star arguments of -32, -31, 30 and 31; null buffers, buffers of 0, 1 and 4 bytes, or measured | what is stored, both passes of `asprintf`, layout and value of each field, that formats are read to their end |

**Why the bounds suffice.** Three blocks are the fewest with a neighbour on both
sides; with 2 and 5 bytes, and sizes 1 and 4, blocks fit, fit exactly, fit but
for the padding, and do not fit. `HashBits = 2 * Exp - 1` makes starts and steps
independent: the low `Exp` bits give the start, the high `Exp - 1` bits the odd
step, and they overlap in a bit that the step overwrites. Three keys in four
slots with a bag of copies fill the table with any mix of keys and tombstones,
the table without any empty slot among them. Streams of 4 bytes against pipes of
2 and buffers of 4 and 3 pass through empty, partly full, full and too long, in
several reads. Texts of three characters hold separators at both ends, side by
side, or nowhere, blanks only, and a view with text behind it for a needle to be
found across its end. Five bytes hold a text of three and a path with its
terminator exactly, and two texts of three do not fit, so formatting gets cut off
at every place; a text of three characters is one block of stdio and a rest, to be
read in up to three pieces and written in two. One
change can hit between any two of these, and three events are a size, a read and the
change. Three words have an option, its argument and a word to move, in any order;
the longer lists move several at once, and two parses are the fewest that share
`optind`; a word of three letters has a first, a last and one between. With `int` of 6
bits `INT_MAX` is 31, so that two digits overflow, and `INT_MIN` is -32.
`CHECK_DEADLOCK FALSE` is set where the program may end: a trapped arena, a loop
over a text that is done, a `cmd_exec` that has returned (or hangs, which the
liveness properties are about). The other specifications have a step for the end.

**The violations** are findings: what a comment or a test of the repository says
is not what the code does. They are listed with both places in `PROJECT.json`.
`set_gone` needs two keys that share a chain: insert both, delete the first,
insert the second again (it takes the tombstone), and delete it: its old copy is
still there. `cmd_stuck` is the order in which the parent drains the pipes.
`text_nul` is `strncmp`, which stops at a NUL that both strings have: split two blanks
and a newline at the blanks, with substitution, and again at the newline; the first
part, two NULs, then counts as a suffix of the text, which ends with NUL and newline.
`KeyBag` and `KeyStacks` state what users can rely on instead.

Four more findings have no run of their own, because the property that meets them
states the exception and holds with it:

* In C++ a string that ends with a separator is split with an empty last part also
  if empty parts are to be ignored, by `len` for `slen` (`str.hpp:321`; `SplitExact`).
* `%.0d` of 0 prints a digit, where C99 asks for none and the file's own test
  compares with the system's `sprintf` (`FieldAsAsked`, `DigitsAsAsked`).
* `%c` ignores its width (`FieldAsAsked`, `FieldsLaidOut`).
* An integer with separators and a precision may be printed shorter than its
  width, and `%'#o` may lose its leading zero: the separators are taken off both
  paddings (`FieldAsAsked`, `TakenTwice`).

**What a reader may not expect**, and the models show without a document that says
otherwise:

* The capacity check of `buf_alloc` leaves the padding out, so `len` may pass
  `cap`; `OverrunBounded` and `OverrunBlocksAllocation` say how far the damage goes.
* Output of a command that fills its buffer exactly is refused with `ENOMEM`, and
  `cmd_exec` then returns with descriptors open and the child unreaped
  (`OutOfRoom`); so does a failing second `pipe` or `fork`. There is no cleanup to
  state a property of.
* A string of blanks is not trimmed; a needle may be found across the end of a
  view that is part of a longer text, after which the iterator hands out a last
  part of negative length; an empty needle makes the loop run for ever; a loop
  does not hand out the empty part behind a last separator, a split does.
* A formatted string that was cut off has the length of the whole text, and the
  arena counts the missing part as used; a formatted path is one only until the
  next allocation takes its terminator.
* A case left by `break` counts nowhere; a suite whose filter matches nothing
  succeeds.
* A second `args_parse` in a program begins behind the words the first has parsed.
* A `file_read` that succeeds while others write to the file may have some bytes from
  before and some from after.
* What `getopt` refuses, unknown options and letters behind a single dash, is dropped
  without a word, also by a strict parse.

**Fairness.** `HashSet`: weak fairness of `Probe`, since a loop that is under
way in a sequential program keeps running; none on `Begin`. `Text`: weak
fairness of `Turn`, for the same reason. `CmdExec`: weak fairness of the parent's
and of the child's steps, since the kernel schedules both; for the child it also
says that the command does not stop by itself before it has written what it
writes. `Programs` and `Vsnprintf` need none: that their loops end is stated as an
action property, a measure that each turn takes further and that has an end
(`EveryTurnAdvances`: `optind`, and where that stays, the letters of its word that
are left; `ReaderAdvances`), which can also be proved.

## The proofs

Checked by TLAPS for every value of the constants that satisfies the named
assumptions (`TypesAssumption`, `KeyAssumption` and so on, in the modules that
declare the constants). Each `THEOREM` follows from an inductive invariant, with
one lemma for the initial states and one for a step, split by action.

**`NatLemmas`.** Facts on numbers that the others cite. Of `\div` and `%`: a
remainder is unique, may be taken early, ignores multiples of the divisor; padding
aligns; a count below the quotient fits. Of sets: one that is not empty has a least
element, and a bounded one a greatest, which is what `Min` and `Max` choose.
Induction is stated for a set of numbers (`SetInduction`), because the library
states it for an operator, which these provers cannot instantiate.

**`BufProofs`**, for all types, counts, capacities, addresses and any number of
blocks:

* `TypeCorrect`, `BlocksStayDisjoint`, `BlocksStayAligned`,
  `OverrunStaysBounded`, `ZeroedCorrect`: the five invariants of the run `buf`.
* `OverrunBlocks`: the action property of the same run;
* `RegionImplemented`: the arena implements `Region`. Every step is one of those of
  `Region` on the spans of the blocks, or leaves them as they are.

The inductive invariant is their conjunction with `FillOK` (the fill level of a
sub-buffer lies within it, and arrays have none), without which a shrink could
move the end of a block, and `len` with it, the wrong way. A lemma reduces every
step to one of four kinds (`Kept`, `Cleared`, `Granted`, `Changed`), and one lemma
per kind shows that it keeps the invariant. The one delicate case is a shrink:
blocks shrunk to nothing may lie behind `len`, so `BlocksDisjoint` is about blocks
that hold bytes, and `buf_ontop` must be shown to imply that no other such block
lies behind the one that shrinks.

**`HashProofs`**, for every capacity, width, key set and hash function. Of the set:

* `TypeCorrect`: every index is a slot number and `len` stays within the
  capacity;
* `LenCorrect`: `len` is the number of live slots;
* `ChainsCorrect`: every key can be reached along its chain;
* `SlotsStayPinned`, `SecondCopiesOverTombs`: the action properties;
* `KeyBagImplemented`: the set implements `KeyBag`.

`ChainUnbroken` is not inductive: the store of an insertion needs to know how
the loop came to the slot. `PathFilled` says it: an insertion has passed no
empty slot on the way from the start of its key's sequence. With it, a store
extends a filled path by one; a deletion turns a key into a tombstone, which is
not empty; and nothing else touches the table. That the probe sequence comes
back to its first slot after `Cap` steps (`NthWraps`) is what keeps the number of
steps in `PathFilled` at most `Cap`. That `2^Exp`, `2^HashBits` and their
quotient are positive naturals is part of `ExpAssumption`, because `^` means
nothing to the provers; TLC evaluates the assumption in every run.

The refinement needs to know more of a call under way (`BagInv`): it has met
neither its key nor an empty slot on its walk, has counted the other keys it
passed (`Walk`), and an insertion has found the table not full (`Room`). A lookup or
a deletion that gives up must have missed nothing. If it gives up at an empty slot,
`ChainUnbroken` says so. If it gives up because it has passed `len` other keys
(`set.h:66`), a key still ahead would be the first of its kind on the sequence, the
slots before it would all be different (`NthRepeats`: a sequence that comes back to
a slot repeats itself), and the table would hold one key more than `len`. So the check
the comment there doubts ("necessary?") at least never gives up too early.

Of the map, for every value set as well: a step of the map is a step of the set
(`MapStepIsSetStep`), so all of this carries over (`MapLenCorrect`,
`MapChainsCorrect`, `MapSecondCopiesOverTombs`, `MapImplementsKeyBag`); only an
insertion that takes a free slot writes a value (`ValsStep`), hence
`BindingsStayPinned`: a pointer handed out shows the same key and value until that
key is deleted. `KeyStacksImplemented`: the map implements `KeyStacks`. The stack of
a key is the values in its slots in the order of their turns, which is when its
probe sequence first comes to each. By `Walk`, the slot where a call meets its key,
or a free slot it takes for it, has its turn before all the others (`Foremost`), so
that a store pushes, a deletion pops and a lookup shows the top (`NewFirst`: the
others keep their order). That the turns number the slots without gaps (`Ranking`) is
an injection between finite sets of the same size. Nothing is assumed of the order
in which slots are visited, not even that all are.

**`CmdExecProofs`**, for every program, pipe capacity, arena, limit on what is read
and number of signals: `CaptureCorrect`, `ReadsCorrect`, `ReleaseCorrect`,
`ExitStatusCorrect`, the four invariants of the run `cmd`. The invariant says at
each place of the parent which ends both processes hold (`ParentFds`, `ChildFds`),
that a child does not end before it has written everything while somebody reads
(`Ended`), that a stream is drained before the next one is looked at (`Order`),
that no byte is lost between child and sub-buffers (`Balance`), and where the
sub-buffers lie in the arena (`Layout`). Capture needs all of them: that the end
of a stream means that all of it was read follows from who still holds a write
end, and that the two blocks are adjacent from the order of shrink and allocation.

**`ProgramsProofs`**. Of the harness, for any list of cases and filters and any
number of checks: `StatusCorrect` and `CountsCorrect`. Counters that are equal say
that nothing failed (`CountersTell`); for this the checks of a case must be placed
before the next one begins (`ChecksPlaced`), and the filter must be the one that was
given (`Progress`). The counters are the cardinalities of what the log says
(`SuiteCounts`); ending a case moves its checks from one set to the other at once,
leaving it by `break` moves none.

Of whole programs, for any table of options, words and calls: `ProgramStatusCorrect`
and `ProgramCountsCorrect` (what holds of the harness holds while its cases parse),
and `ParseAdvances`: each turn of the loop of `args_parse` takes `optind` further, or
leaves it and has one letter less to read in the word there, for any place an earlier
call has left behind. The invariant is that `getopt`'s place lies in the words, and
letters are left only of the word at `optind` (`PlaceInv`), which needs that moving
words keeps their number.

`ParseCorrect`, `MdcodeCorrect`: what a parse leaves in the table is what the words
as given say, although `getopt` moves words while the loop reads them, and `mdcode`
does what this asks of it. `GetoptReads` says what one call of `getopt_long` is: it
takes the first of the unread words that is an option or belongs to one, and gathers
the plain words before it. The invariant (`ParseInv`) relates the three parts of
`argv` to the words as given (`Lies`): those of earlier calls, untouched; the plain
ones gathered between `first_nonopt` and `last_nonopt`; those from `optind` on, in
their order. What the table tells (`Told`) is then the fold over the words read so far
(`Reading`), and one turn of the loop is one turn of the fold, `StoreTold` for the
option it stores. A parse that found nothing left over has `getopt` behind the last
word, which is where the next one finds it. A letter
changes nothing of what has been read; with the last one its word has (`LetterReads`).
Of `mdcode`: its parse is the first of the
program (`MdcodeInv`), so that nothing lies behind it.

**`FileIOProofs`**, for any texts, limits, files, arena and block size, and whatever
others do to the files between two system calls: `StringsStay`, `PathsLead`,
`ReadsOneFile`, `WritesAllButABlock`, the four invariants of the run `io`. Three
invariants are conjoined. `StrsInv` is about memory: each string's bytes are where it
says (`Sound`), end before what is free or being filled (`Under`), and the arena's
length is beyond its capacity by no more than the strings that were cut off account
for (`Extent`), so that what is computed from it stays in the memory. A passing terminator is known only as
long as nothing is made behind its string. `FileInv` is about the file system: where
each function may be (`Steps`), and, while the call under way is left alone, what it
knows is still so: the size asked for (`AskedInv`), the node the stream is on
(`ReadInv`), and how much of the text lies behind what was there (`WriteInv`: at
`fclose` so many whole blocks, after it the rest too, or an error was told).
`PieceInv` is about a read under way: each byte that has been read is one the opened
file had at its place (`GotSoFar`), in memory until `fread` returns and in the string
then; what the file has held only grows, and nothing else is stored where the read
goes on.

**`TextProofs`**, for every text, literal and array size, in either library:
`SplitsExact`, `SubstitutesTerminate`, `TrimsKeepContent`, `ComparisonsAgree`,
`LoopsTile`, the five invariants of the run `text`. Comparisons come down to one fact:
`strncmp` finds no difference exactly if the bytes up to the needle's first NUL are the
same (`SameIs`), from which each of the four functions is shown to answer what the
bytes say (`Agreement`). A split is a loop, so the
argument is an invariant of its turns (`TurnInv`): the parts so far are extents
between separators, in order, all of those that end before the one at hand, and only
separators before it have been overwritten. What comes out is compared with the
definition of an extent (`SplitFacts`); that the number of parts is the number of
extents, or the room, follows because extents lie apart and can be counted. The
loops of a program have an invariant over the steps of the specification (`TextInv`):
what is ahead of a loop is still as it was at its beginning, whatever its body wrote
(`Stands`), the part at hand ends at a needle that the loop has gone over (`AtHand`),
and the parts and needles tile what was run over (`Tiled`). `JobFacts` carries what
the properties say of the last call, through all the steps after it.

**`VsnprintfProofs`**, for every format, well-formed or not, and any arguments:

* `ReaderTerminates`: a step consumes characters or goes to a state of lower rank,
  or both, and `asprintf` has one more pass (`Remaining`).
* `PrefixStored`: the buffer holds what was printed as far as it fits, and nothing
  behind it is touched. All that is needed of a conversion is that it prints a
  sequence of characters, whichever: the lemmas show it of digits, prefixes,
  padding, separators and exponents (`IsSeq`). `PutStores` then says that `OUTCHAR`
  keeps the invariant whatever it is given.
* `AsprintfCorrect`: the string of `asprintf` is all that was printed, fills the block
  but for the terminator, and `%n` reported the places in it. Where the reader goes
  next depends on where it is and not on the buffer (`Turn`, `Follow`), so both passes
  go the way of one trace from the start (`Traced`). The invariant says that a pass is
  on that trace (`Through`) and, of the second, that the block has one byte more than
  the trace has characters at its end.
* `WidthsCorrect`: everything printed has at least its width, but for characters and
  what `TakenTwice` names, and a string is laid out as asked (`FieldsLaidOut`). The
  length of what a conversion prints is the sum of its parts; that of digits with
  separators is a sum over a `FlattenSeq` (`SeqFlatten`, `SeqGrouped`), which must be
  what `GetNumSep` computes without looking at the digits. The attempt to prove this
  of every integer with no precision failed at `%'#o`, whose zero is a precision in
  the code; the property names it since.
* `IntegersCorrect`: an integer reads back as the argument, cut to the width of its
  type, in its base, with its sign and prefix, with one digit at least, and has no zeros
  in front but those that precision, flag 0 or `%#o` ask for (`IntegersAsAsked`). The digits of `convert`
  are the remainders of the quotients by smaller and smaller powers of the base, each
  of which is the one before with one digit more (`ConvertReads`); that the first
  quotient is 0 needs that the 43 places of its buffer are enough for 128 bits. Zeros
  and separators keep what was read (`GroupedReads`: the groups, added one by one, are
  worth what the digits up to there are). `Spaces` does the sums of `fmtint` on
  paddings and zeros, and `FlagsInv` says that no flag of another conversion is left
  over when a conversion is read. The attempt found the property wrong at formats such
  as `%'#09llo`, where separators taken off twice make the zeros of the flag 0 stop
  short of the width; it says so since (`Leading`) and `fmt` has the format.

**Assumptions.** They say that texts, formats and contents of files are finite
sequences, that NUL is no character of a text, that capacities and limits are
numbers, and sizes and alignments positive; nothing about how many there are. Of a
table of options, that its entries are numbered, that switches have a truth value as
default, and, of a program with commands, that `help` is a switch that is off
(`args.h` and the tables of `mdcode` and the tests have them so). That separators are
no digits (`SeparatorAssumption`); that a build makes of `-INT_MIN` either `INT_MIN` or
the positive number, in all paddings alike; that `uintmax_t` fits into the buffer of `convert`,
and, with it, that a power is the base times the power before, for the exponents up to
`MaxBits` (`PowersAssumption`): this is what `^` means, TLC evaluates it in every run
of `fmt`, and the provers know of `^` only that it gives integers.

**Only model-checked.** Liveness is out of the prover's reach:
`EveryCallReturns`, `ReturnsIfErrFits`, `LoopEnds`. Of `FieldAsAsked`, which is
`FieldsLaidOut`, `IntegersAsAsked` and `FractionsAsAsked`, the last: that fractions
read back to within half of their last digit, with sign, padding and zeros on the side
their flags ask for (`FloatLaidOut`), infinities and what is not a number included. It compares a recursive reading of both
parts of the number, scaled by powers of exponents of either sign, with what `myround`
and the loop that adjusts the exponent make of it; `GetExponent` and `TrailingZeros`
would each need an induction of their own. All other properties of the passing runs
are proved.

## Not modelled

* `arr_sub` and the vectors: views and structs without operations of their own.
* The FNV loop: the set must work for any hash, so it is any function.
* `args_dump_help`, `print.h`, the colours of `test.h`: layout only.
* Results, errors and types: macros and layout; the macros that leave a loop or a
  program are in `CaseBreak` and `MdcodeEnd`.
* In `src/pocs`: `poc_snprintf_doprnt.c` is a second, smaller reader of formats,
  `poc_snprintf.c` an empty `main`; the test part of `poc_snprintf_holger_weiss.c`
  compares outputs. Of that file the branches for systems without
  `<stdarg.h>`, `uintmax_t` or `localeconv` are left out, the rounding of
  `long double`, and builds in which `-INT_MIN` is one value here and another there,
  as its being undefined allows.
* How many parts a split of `Text` has room for is given; that `str_splitc` asks
  `buf_avail` for it, in an arena that has passed its capacity also, is not followed.
* Which option `getopt` takes an abbreviation for is modelled (`Resolved`), but what
  parses are compared with uses the same choice.
* The C++ library is mapped where it is the same code; its differences in strings
  and in `file_size` are modelled, by `lang`.

## Plan

Arena, set, map, commands, strings, files, arguments, harness, `mdcode` and
`snprintf` are modelled, in this order, and the safety properties of each are proved
but for the one named above. What could follow: that fractions read back, by the way
`IntegersCorrect` goes for the digits of both their parts (`ConvertReads` holds of
each), with the laws of powers for sums of exponents.
