# A verification project for unward

`unward` rewrites the C sources of GAP for HPC-GAP.  Kernel code between
`#ifndef WARD_ENABLED` and `#endif` must bypass the access guards; unward finds
those sections, works out which inline functions called from them can run into
a guard, gives each of these an *unsafe* version, and redirects the calls.  The
program is a single-threaded batch job on top of AdLib, a small C++ library that
is part of the repository.

Paths are relative to the repository.  `src/` is the program, `adlib/` the
library, `gclib/` the garbage collector.

Contents: [inventory](#inventory), [what is hard](#what-is-hard),
[modules](#modules), [runs](#runs), [findings](#findings), [proofs](#proofs),
[what is left out](#what-is-left-out), [plan](#plan).

## Inventory

| Component | State | Operations | Source |
|---|---|---|---|
| Option parsing | option record, pending `-o` | one argument per loop turn | `src/args.re` |
| Finding files | file list | `FindFiles`, `ListFileTree`, `WalkDir` | `src/main.cc:33-56`, `adlib/os.cc` |
| Reading | `InputFileMap`, `InputSources` | read and tokenize each file once | `src/main.cc:102-120` |
| Lexer and interner | token list; global intern map | `Tokenize`, `Intern` | `src/lexer.re` |
| Function scanner | position in a token list | `Skip`, `SkipUntil`, `SkipToMatch`, `FindInlineFunctions`, `FindCalls` | `src/analyzer.cc:10-135` |
| Call analysis | calls, call graphs, the sets of names | steps 2, 3, 5, 6, 7 of `Main` | `src/main.cc:132-155`, `src/analyzer.cc:137-220` |
| Unsafe sections | `if_level`, `prot`, start and end lists | step 4 of `Main` | `src/analyzer.cc:223-293` |
| Rewriter | token strings, `unsafe_code`, `rewritten_code` | `UpdateUnsafeSections`, `GenUnsafeCode`, `RewriteSourceFile`, `UnsafeName`, `SafeName` | `src/rewrite.cc:18-241` |
| Write-back | files on disk | `RewriteSourceFiles` | `src/rewrite.cc:247-276` |
| Bit matrices | rows of words | `TransitiveClosure` and the bit set operations | `adlib/bitset.cc` |
| Hash set, hash map | slots, count, tombstones | add, remove, find, set algebra, iteration | `adlib/set.h`, `adlib/map.h` |
| Arrays, strings | length and a block of memory | grow, shrink, cut, sort; search, split, join | `adlib/arr.h`, `adlib/str.h`, `adlib/str.cc` |
| Garbage collector | table of objects, lists, regions of roots | allocate, register a variable, collect | `gclib/tinygc.c`, `gclib/dlmalloc.c` |

`Main` (`src/main.cc:90-173`) drives everything, in nine steps, each of which
reads what the ones before left in memory:

    files -> tokens -> inline functions -> calls -> call graph, closed -> ward functions
                   \-> sections -> calls in sections -> used names -+
                                                                    v
       tokens renamed in sections, unsafe functions generated -> files rewritten

There are no threads and no callbacks.  The parts interact through shared
memory (the token lists, which step 8 changes under everybody who holds
positions in them) and through the disk: the output of one run is the input
of the next, and a run may be stopped between any two writes.

What makes each part correct:

* **Options and files**: nothing starts unless every argument is understood; the
  sources are the files below the inputs; outputs lie as the inputs do.
* **Lexer**: the tokens hold the text, and a token that is renamed is still a
  token for the next run.
* **Scanner**: the search ends for every token list, and what it finds are
  disjoint, ordered, balanced ranges with the name inside.
* **Closure**: the result is the least transitive relation above the argument.
* **Call analysis**: the redirected names are those that a section reaches and
  that reach a guard, neither fewer nor more; unsafe code calls unsafe code.
* **Sections**: the calls found are those that the preprocessor hides when
  `WARD_ENABLED` is defined.
* **Rewriter**: no text is lost, and with `-l` no line number; every unsafe function that is called is
  defined, once; a second run changes nothing.
* **Write-back**: no source is half-written; a run that ends has done all of its
  work; a rerun repairs what a stopped run has left.
* **Hash set and map**: they answer as a set and a partial function do, and
  every search ends.
* **Bit sets**: the word-wise operations are those on sets, for arguments with at
  least as many words as the operation reads.
* **Sorting**: the array is in order and nothing is lost.
* **Arrays and strings**: they hold the sequences they stand for, through every
  reallocation; searching finds what comparing would find.
* **Collector**: it frees nothing that can be reached, and keeps no garbage.

## What is hard

`PROJECT.json` lists the hazards by line.  In short: algorithms whose order of
steps is the reason why they are right (the in-place closure, splicing by
position, renaming before copying); scanners that do not parse what they scan;
a table whose searches depend on all earlier removals; a two-pass update of
several files that can be stopped or fail at each system call; a collector that
leaves each collection to be finished by later allocations; and a program that
has to recognise its own output.

## Modules

Positions and indexes are those of the code, save in `Reading`, `Lexer`,
`Scanner` and `Rewrite`, where sequences count from 1.  Each `MC` module chooses
the inputs of a run, and each `Proofs` module holds the theorems about the module
it is named after; `RewriteProofs` also those about `Scanner`, which `Rewrite`
extends, `Lexer` and `Reading`, `TableProofs` those about `HashSet`,
`LibraryProofs` those about `HashMap` and `Buffers`, and `AlgorithmProofs` those
about `MergeSort`, `BitSet` and `Collector`.

| Module | Models | State and actions |
|---|---|---|
| `Closure` | nothing: what `BuildCallGraph` expects of `TransitiveClosure` | one action `Answer` |
| `TransitiveClosure` | `adlib/bitset.cc:99-159` | `arg`, `mat`, `col`, `row` are the variables of the function.  One action per turn of the inner loop (`UnionRow`, `SkipRow`), one each for the outer loop, the clone and the return.  Refines `Closure`. |
| `Reading` | `src/args.re`, `src/main.cc:33-120`, `adlib/os.cc`, `src/rewrite.cc:247-276` | `args` is the command line, `opts` the option record with `mode` for a pending `-o`; `fs` is the file system: directories, files and links by location; `files` and `sources` are those of `Main`.  One action per kind of argument, then `FindFiles`, one action per way a turn of the reading loop can go, and one per output file with the directories made for it. |
| `Lexer` | `src/lexer.re` | Extends `Scanner`.  `text`, `cursor`, `result`, `error` are those of `Tokenize`; `PushToken` is one turn of its loop.  Each rule of the scanner is an operator that gives the places where it can end; the longest match is taken.  The tokens go on to `Scanner`. |
| `CallAnalysis` | `src/main.cc:132-155` | `calls` is `func->calls`, `ward` is `wardfuncs`, `used` is `used_funcnames`; `arg` to `pc` belong to the call of `TransitiveClosure`, which the module instantiates and runs to its end twice (`Close`).  One action per call that `Main` makes. |
| `UnsafeSections` | `src/analyzer.cc:223-293` | `if_level`, `prot`, `start`, `end`, `i` are the variables of the function; `Scan` is one token, with one operator per `case`; `Collect` is one section.  `depth`, `at`, `hidden`, `odd` are history: the same tokens as the preprocessor reads them. |
| `Scanner` | `src/analyzer.cc:6-168` | `pos` and `funcs` (`result`).  One action per way a turn of the loop can go: `StepOn`, `NoName` (line 70), `Function`, `EndOfFile`; then `FindCalls` for all functions. |
| `Rewrite` | `src/rewrite.cc:18-241`, `src/main.cc:122-163` | Extends `Scanner`.  `sections` is `unsafe_calls`, `used` is `used_funcnames`, `gen` is `rewritten_funcs` with the code of each, `out` is `rewritten_code`, in which a token of the old text carries its old position as a label; `linedirs` is `opts->LineDirs`.  `GenUnsafeCode` and `SpliceFunc` are one turn of their loops each, with the `#line` directives around a block.  `Rerun` puts the result through the lexer again and may add a section. |
| `WriteBack` | `src/rewrite.cc:247-276`, `adlib/os.cc:17-54` | `disk`, `copy` (the `.unsafe` files) and `out` are the files; `lists` is what is still to be written.  One action per system call that changes a file: `OpenCopy`, `WriteCopy`, `Rename`, `OpenOutput`, `WriteOutput`.  `Crash` and `Restart` are the environment. |
| `Basic` | `adlib/basic.h:16-21` | none: `nextPow2`, for the sizes of tables and blocks |
| `AbstractSet` | nothing: a set, as the callers of `Set<T>` see it | `Add`, `Remove`, `Contains`, `Intersect` |
| `HashSet` | `adlib/set.h` | `set` holds `_count`, `_size`, `_deleted`, `_data` and `_state`; `last` is the last call with its answer.  One action per method; `rebuild` is part of the method that calls it.  Refines `AbstractSet`. |
| `HashMap` | `adlib/map.h` | Extends `HashSet`, whose table is that of the keys; `map` adds `_values`.  One action per method that changes the map; the arguments of the bulk operations are lists of entries or keys.  `UnionSelf` iterates over the table it changes, turn by turn.  `Merged`, `Dropped` and `Entries` say what the operations should do to a function from keys to values. |
| `Buffers` | `adlib/arr.h`, `adlib/str.h`, `adlib/str.cc` | `arr` and `str` are a length and the cells of a block; `arrItems` and `strText` are the sequences they are meant to be.  One action per operation that changes one of them.  The searches, which change nothing, are operators, with the rolling hash as the code computes it. |
| `BitSet` | `adlib/bitset.cc:4-93`, `adlib/bitset.h` | `bitset` is `_bits` and the words.  One operator per method, over words, and one action that applies it. |
| `Heap` | nothing: a heap on which nothing is freed, as the program sees it | The program's `Store` and `Register` (`GCVar`, `adlib/mem.h`), and `Allocate`, at which what cannot be reached may disappear. |
| `Collector` | `gclib/tinygc.c`, as built here | Extends `Heap`.  `dataroots` are the regions of roots, `table` the hash table of objects with its bounds and the lists `marked_list`, `follow_list`, `free_list`.  `Malloc` with the share of an old collection that it recycles; `CollectUnreachable` is a whole collection.  Refines `Heap`. |
| `MergeSort` | `adlib/arr.h:295-332` | `in`, `out`, `step`, `i`, `p`, `l`, `r` are the variables of the function.  One action per turn of an inner loop (`TakeLeft`, `TakeRight`), and one each for the next pair, the next pass and the end. |

`MCAnalysis` joins `MCCallAnalysis` and `MCUnsafeSections`, `MCReading` the
options, the lexer and the scanner, `MCLibrary` sets, maps, arrays and strings,
and `MCAlgorithms` what works on flat memory: each behaviour of such a run has
one of the parts in use, which `inUse` names.

Composition: `CallAnalysis` runs `TransitiveClosure` step by step; that a row
may be taken for a set is what `BitSet` shows.  `HashMap` stands on the table of
`HashSet`, which the library has twice, once in each header.  `Lexer` runs
`Scanner` over what it has cut.  `Collector` keeps what `Heap` promises, on
which every other part relies without saying so.  `Rewrite`
runs `Scanner` step by step, and has the call analysis and the sections as one
action, `Analyse`, in the form that `CallAnalysis` and `UnsafeSections` show
them to have when names are unique and sections are not nested.  `WriteBack`
has steps 1 to 8 as one action, `Transform`, which knows of a file only what
the next run can tell: whether it is whole, whether its calls are redirected
and how often it defines an unsafe version.

Abstractions that matter:

* A token is a symbol and a text.  A text is a sequence of parts, so that the
  prefixes `UNSAFE_` and `Unsafe` can be added and removed; most texts are empty.
* In `Lexer` characters that no rule tells apart are one character.
* In `Reading` a path is a sequence of pieces with slashes among them, so that
  cutting prefixes and joining paths works as it does on characters; a source is
  known by its name and by whether it has tokens, and its output holds that name.
* In `UnsafeSections` a call is one token.
* In `WriteBack` an unfinished file is `Broken`, whatever its length; a file
  that is cut short is taken to be one the program cannot use.
* In `HashSet` the hash function and the seven bits of it kept in a slot are
  variables that never change: all functions on the given values are tried.
* In `Buffers` memory that nobody has written is `Junk`, which is equal to no
  item; `HashMod` stands for 2^32.
* In `Collector` a collection is one step, as nothing runs beside it; the lists
  are sets, and any of their elements may be the next.  When a collection comes
  is open, since it depends on sizes only.  The words beside the stack and the
  registered variables hold nothing.  `dlmalloc` is taken to give the lowest
  room there is; `LazyRefillCount` is 1 instead of 10, so that a collection
  stays unfinished with three objects.
* In `BitSet` a word is the set of its bits that are 1.  An operation with an
  argument that lacks words the loop reads is not enabled (`Fits`): the rows of
  a matrix have one length.

Undefined behaviour is an outcome of its own: `MissingEnd` (an index past the
list of section ends), the phase `overrun` (the scan goes on behind the last
token), and `fclose(NULL)`, which returns or aborts (`closeNull`).

## Runs

Each run checks the whole state space of its instance.  Sizes are distinct states.

| Run | Instance | States | Shows |
|---|---|---|---|
| `algorithms` | the closure of every relation on 3 nodes; bit sets of up to 5 elements, 2 to a word; every array of up to 6 elements with 3 keys; the collector with 3 cells in 2 blocks, nodes of one word and texts of two, one word of stack and one or two variables | 57 thousand | `ImplementsClosure`: three is the least number of nodes at which an edge found late in a sweep matters to a row visited early.  `BitsRight`: the last word is missing, part-filled or full.  `SortInv`, `SortsArray`: passes end with a missing, a short and a full second run.  `CollectorInv`, `ImplementsHeap`, `CollectsGarbage`: paths over two nodes, cycles, a text that is held by a pointer into its second block, a table that grows; no object points to itself. |
| `analysis` | a root, and two functions that may be ordinary, blacklisted or two variants of one name, with every call relation; every source of 6 tokens out of 7 kinds | 1.6 million | `RedirectsExactly`, `RedirectsOnlyNeeded`, `UnsafeCodeIsClosed`; `SectionsInv`, `FindsHiddenCalls`, `SectionsPaired`.  Six tokens hold a section with a conditional in it and a call, or two sections. |
| `call_missed` | four definitions of three names | until violated | `RedirectsAllNeeded` fails when a name is defined twice |
| `sections_nested` | 5 tokens, 5 kinds | until violated | `SectionsMatchUp` fails for a section in a section |
| `sections_positive` | 5 tokens, 6 kinds | until violated | `OnlyHiddenCalls` fails for `#ifdef WARD_ENABLED` |
| `reading` | every command line of up to 4 of 9 arguments over one tree, and complete ones over 6 trees with links, old outputs, a file in the way or one that cannot be read; every text of up to 2 characters, and texts of up to 5 for each kind of token; every token list of up to 5 of 7 pieces: heads, names, braces, prototypes, names followed by a blank | 271 thousand | `ArgsUnderstood`, `SourcesRight`, `OutputsMirror`; `TokensHoldText`, `RenamingHolds`; `FunctionsApart`, `ScanEnds`.  Four arguments hold an `-o` that is the value of another.  Five pieces are enough for two functions with something between them. |
| `rewrite` | 64 headers with the root P, F, g (a name with a lower-case letter) and the blacklisted C in two orders; one of 3 sections before the first run, and perhaps another before the second and third; with `-l` and without; at most 60 lines (`MCLine`), more than any result has | 564 thousand | `TextKept`, `LinesRight`, `Resolved`, `UnsafeIsUnguarded`, `SecondRunIdle` |
| `rewrite_sections` | headers that define F in a section | until violated | `FunctionsKeepNames` fails for an inline function in a section |
| `library` | a set or a map on 3 items, 3 hash values of which two collide in the smallest table only, 2 fingerprints, 2 values, tables of 4 slots and up; arrays and strings of up to 6 elements of 2 kinds | 10 thousand | `SetInv`, `ImplementsSet`, `MapInv`, `AnswersRight`.  Three items make a table grow, shrink and fill up with tombstones.  `_minsize` is 4 instead of 8, with the same thresholds.  `BuffersHold`, `SearchRight`: six elements pass through four capacities, and are enough for the patterns of five characters from which on the rolling hash is used. |
| `write` | 2 sources, 2 functions, 3 runs, both modes, failing writes or not | 409 thousand | `IInv` and the safety properties of `WriteBack`, and `OutputsArrive`.  Two sources are the least with calls and definitions apart, and three runs let a stopped run be followed by one that is stopped as well. |
| `write_rerun` | the same | until violated | `CallsDefined` fails after a stopped run |
| `write_new_output` | the same | until violated | `NeverAborts` fails in the first run |

Bounds: `MaxRuns` (`WriteBack`, `Rewrite`) caps the number of runs,
`MaxPieces` the pieces of a token list, `MaxItems` the length an array or a
string may reach, and `MaxObjects` the objects there are at a time; `MaxBits`
and `MaxLen` bound the sets and arrays that are enumerated; nothing else grows.
Deadlock is checked in `algorithms` and `library`; the other programs end, so
their runs say `CHECK_DEADLOCK FALSE`.

The inductive invariants of the closure, the call analysis, the scanner, the
rewriter, the tables and the sort are proved (see [Proofs](#proofs)) and are no
properties of a run; those of the sections and of the write-back are both.

What the properties say, beside the code they watch:

* `RedirectsExactly` compares `used` at the end of step 7 with a definition of
  reachability that does not mention matrices.  It needs unique names;
  `RedirectsOnlyNeeded` does not.
* `FindsHiddenCalls` compares the scan with the preprocessor's reading in
  balanced sources whose sections are `#ifndef` and not nested (`odd = {}`).
* `ArgsUnderstood` reads the command line as a whole, without its loop: which
  arguments are values of an `-o` follows from the number of `-o` before them.
* `SourcesRight` and `OutputsMirror` compare lists of paths that are put
  together piece by piece with places in the tree.  The second is about an input
  that is a directory, as the message at `src/main.cc:98` asks for, and that has
  a final slash only if the output directory has one (`Mirrors`): otherwise the
  code writes beside the output directory (`-o out src/` makes `outa.c`), and the
  property does not hold.  Its first part, that whoever writes has read every
  source, has no such condition.
* `FunctionsApart` holds for braces without a match, too: such a function ends
  with the file and is the last one.  The loop then goes on behind the list, where
  what it reads is undefined, and the model stops (`phase = "overrun"`), which
  `ScanEnds` counts as an end.
* `TokensHoldText`, `RenamingHolds`: cutting the text loses nothing, and the
  text of the tokens, with any identifier prefixed, is cut into the same tokens
  again - except where it follows a number, as the comment there says.
* `TextKept`: without its generated blocks the result is the input, in which
  nothing but names of calls in sections differs.
* `LinesRight` counts lines as a compiler does.  It is about the text of the
  header.  The copies of functions themselves are reported one line late, since
  `#ifdef USE_HPC_GUARDS` stands between the directive and the copy
  (`src/rewrite.cc:220-223`), and an in-place run with `-l` that touches a file
  again puts its directives beside the old ones, so the property speaks of
  headers without any.
* `Resolved` and `UnsafeIsUnguarded` look at the result as the next run's scan
  sees it.  The second allows a call of a blacklisted function, as the code
  does on purpose.
* `SecondRunIdle`: a run over an unchanged result leaves it as it is.
* `DefinitionsFollow`: while calls and definitions are written in two passes, a
  redirected call whose function is not there yet has it among the files still
  to be written - until a run is stopped.
* `OutputsComplete`, `OutputsArrive`: the comparison of old and new code
  notices every file that a stopped run has cut short.
* `ImplementsSet`: any sequence of operations answers as a mathematical set;
  the last call is part of the state, so a call with one argument cannot pass
  for one with another.  For the map `AnswersRight` says the same of every
  operation and argument, in each state: the entries the argument names change as
  they should, and all others stay.  That is stronger than a refinement, whose
  steps may be those of any argument, unless the call is kept in the state as for
  the set.  `SetInv` and `MapInv` are what makes every search
  end: an empty slot stays, and tombstones are few.
* `BuffersHold`: after any sequence of operations the cells of an array or string
  are its sequence, with zeros or a NUL behind; `SearchRight` compares every
  search with one that compares at each place, and split, join and replacement
  with each other.  (`find` from the end of a string is a breach of its contract,
  which the default build does not check and `replace_count` commits; it answers
  `NOWHERE`.)  `rfind` is the exception: it
  is stated as it is, and misses an occurrence at the very end.
* `BitsRight` compares `count`, which sees whole words, and the outcome of each
  operation with what an iterator visits.
* `ImplementsHeap`: whenever the collector runs, and however much of the last
  collection is undone, each of its steps is one that the abstract heap allows:
  only unreachable objects go.  A pointer on the stack holds an object if it
  points into its first block; the collector finds others only by luck, and
  `Heap` does not promise them.  `CollectsGarbage` is the other direction, in one
  collection.  `CollectorInv` says where each object is linked.
* `SortInv` is the invariant of the three nested loops: sorted runs, nothing lost,
  and nothing left behind that precedes what has been written.

**Fairness.**  `OutputsArrive` assumes weak fairness of `Program` and of
`Restart`: the program is one thread that nothing but a crash can stop, and
somebody starts it again after one.  No fairness is assumed of `Crash`; crashes
are finitely many because `MaxRuns` bounds the runs, and the last run is not
stopped.  `ScanEnds` assumes weak fairness of the steps of `Tokenize` and of the
scan: a loop runs on.

**Mutants.**  For each property of a passing run `PROJECT.json` names a mutant,
an operator marked "Mutant" beside the definition it replaces, with a plausible
mistake in it; the property is violated when the mutant is put in its place.

## Findings

Each is shown by a run that is expected to be violated.

1. *A name defined twice* (`call_missed`, `src/analyzer.cc:155`): only the first
   definition is in the function map, so a function whose only way to a guard
   leads through a later one keeps its guard in unprotected code.
2. *A section in a section* (`sections_nested`, `src/analyzer.cc:238`): two
   starts, one end; the default build then reads behind the list of ends.
3. *`#ifdef WARD_ENABLED`* (`sections_positive`, `src/analyzer.cc:236`): the
   guarded branch is taken for an unprotected one.
4. *A stopped run in place* (`write_rerun`, `src/main.cc:167`): calls are redirected to
   functions that no later run generates.
5. *A new output directory* (`write_new_output`, `adlib/os.cc:26`): `fclose` is
   called with a null pointer, for each output file that does not exist yet.
6. *An inline function in a section* (`rewrite_sections`, `src/analyzer.cc:130`):
   its head is taken for a call of it, so the original is renamed in place, the
   copy as well, and the function itself is gone.

The failures of `WriteFile` and `rename` are not looked at
(`src/rewrite.cc:272-273`), so a full disk can replace a source by a part of
itself; nothing in the repository promises otherwise, and the properties of
`WriteBack` that such a failure breaks say `~writesFail`.

## Proofs

All theorems hold for every value of the constants.  The assumptions on them
are the named `ASSUME`s of the modules:

* `Len`, `NFuncs`, `NTokens`, `MaxLen`, `MaxBits`, `MaxList` are natural numbers;
  `WordBits` is a positive one (32 in the code).
* Roots and blacklist are names.
* The tokens of a header of `Rewrite` end with an EOF and have no other:
  `TokensHoldTextCorrect` is that `Tokenize` leaves them so.  A section that is
  added holds none.
* No token that `Tokenize` makes is written as the lines are that the program
  adds, `#ifdef`, `#else`, `#define`, `#endif` and `#line` (`Made`): the next run
  gives them a symbol of their own or a text in another form (`Relex`).  No two lines of `Line` have the same number.
* A text ends with a NUL, as a `Str` that `ReadFile` returns does.
* The arguments of a command line are not empty, `-o`, `-i`, `-l` and `-h` begin
  with a dash, and no output directory (`NULL`) is not one.
* There are finitely many items, the hash values are natural numbers, `None` is
  neither an item nor a value, and `_minsize` is 4 or 8 (it is 8 in the code,
  and 4 in the runs).
* Sort keys are integers; the items of an array are integers other than zero, the
  characters of a string positive ones, CR and LF among them; `MaxItems` is a
  natural number and `HashMod` a positive one (2^32 in the code).
* The heap has finitely many cells, at least one, whose addresses are positive,
  as are those of global variables, of which `Dummy` is one; blocks, objects and
  `LazyRefillCount` are positive, and so is the logarithm of the size of the
  first table; the stack has a natural number of words.

`MaxRuns` is not assumed to be anything: the theorems about `WriteBack` and
`Rewrite` hold for any number of runs, and of crashes.

| Module | Theorems | Along which argument |
|---|---|---|
| `TransitiveClosureProofs` | `InvCorrect`, `ClosureCorrect`, `ClosureRefined` | `IInv`: what two edges join at a swept column is there, or will be when the row has been joined with the current column (`SweptJoined`, `VisitedJoined`), and nothing is outside any transitive relation above the argument (`Between`).  "Transitive at the end" alone is not inductive: in the middle of a sweep the matrix is not transitive even at the columns already swept. |
| `CallAnalysisProofs` | `RedirectsCorrect`, `RedirectsSound`, `UnsafeCodeCorrect` | `IInv`: each phase leaves what its name says, in terms of reachability between names; the two calls of `TransitiveClosure` contribute its own invariant and `ClosureCorrect`. |
| `UnsafeSectionsProofs` | `InvCorrect`, `EndsCorrect`, `SectionsCorrect`, `CallsCorrect` | `SectionsInv`: the flag and the counter say where the preprocessor's reading stands (`InSync`), the lists pair up so far (`Paired`), and what is hidden so far lies in a section (`HiddenFound`). |
| `RewriteProofs`: scanner | `ScanInvCorrect`, `FunctionsApartCorrect` | `ScanInv`: the position stays in the list and behind all functions found.  That the skipping loops stop is the well-foundedness of the natural numbers (`LeastExists`, `FirstIn`) and the EOF token. |
| `RewriteProofs`: rewriter | `InvCorrect`, `TextKeptCorrect` | `IInv`: what each phase leaves to the next.  `FunctionsApart` makes the generated blocks come in the order of their places (`BlocksInOrder`, `BlocksAhead`), and that is why a loop that copies up to a place and then puts the block there neither skips nor repeats a token: the result holds each token up to `copied` once and in order (`HoldsUpto`).  That what `Rerun` reads is a token list again rests on the one EOF being last. |
| `RewriteProofs`: line numbers | `LinesRightCorrect` | `LineInv`, on top of `IInv`: a generated block begins with a generated line and ends a line (`BlocksClose`), so what follows it begins one; and the text so far has the header's lines and goes on with the line of the next token (`LinesGo`).  The first part is needed for the second: a directive that does not begin a line is none.  Where a range of the header goes on from the line it has there, each of its tokens is on its line (`KeptLines`, by induction on its length); a block changes the line as it likes, since the directive behind it sets it (`NewLines`), and what is put behind a text does not change its lines (`LinesBefore`).  That what a run leaves has no line left that looks like an added one rests on `Retokenize` (`RetokenizedList`), so the next run begins as the first did. |
| `RewriteProofs`: lexer | `LexInvCorrect`, `TokensHoldTextCorrect`, `FunctionsApartInText` | `LexInv`: what is before the cursor is what the tokens hold.  Each rule takes at least one character and no NUL (`Takes`), and only a block comment one NUL, as its last character (`Reaches`); so does the longest match (`Matched`), and a turn joins two pieces of the text that lie side by side (`Joined`). |
| `RewriteProofs`: the next run's tokens | `RenamingHoldsCorrect` | `LexPath` adds to `LexInv` the places the loop of `Tokenize` has been at (`CutUpto`), so the tokens are the longest matches from place to place.  What matches at a place depends only on the text from there to the next NUL (`Moved`), rule by rule, so a text that is cut again is cut alike, and so is what stands behind a name that has grown by its prefix.  Before the name nothing changes either, although rules look ahead (`Near`, `Inserted`): the name begins a word, and every rule that begins before it takes the same characters with or without a `U` there; only an integer right before the name would take the `U` for its suffix, and `RenamingHolds` leaves that case out.  A string that is still open there ends at the same character (`SameEnds`).  At the name itself, the word is longer by one letter (`InsertedName`). |
| `RewriteProofs`: command line | `ReadInvCorrect`, `ArgsUnderstoodCorrect` | `ReadInv`: `mode` is `'o'` exactly if the next argument is a value, and the options are those of the arguments read so far.  That a run of `-o` has one beginning (`OneRun`, `RunExists`) turns the counting of `IsValue` into what the loop looks at: an argument is a value if the one before it is an `-o` that is none (`ValueAfter`). |
| `WriteBackProofs` | `InvCorrect`, `WholeCorrect`, `OnceCorrect`, `RedirectedCorrect`, `FollowCorrect`, `OutputsSafeCorrect`, `OutputsCompleteCorrect` | `IInv`: what is in memory, in the copy and on disk defines nothing twice (`OnceInv`); a copy about to be renamed is complete (`WholeInv`); a source that is behind, or lacks a definition, is on a list still to be written (`InPlaceInv`, `GrowInv`, `FollowInv`); outputs not on it are up to date (`OutputInv`). |
| `TableProofs` | `ProbesEverySlot`, `SetIsSound`, `SetIsASet` | The probe sequence `5k + 1` visits every slot of a table whose size is a power of two: by induction on the exponent, a table twice as large is visited in two halves that differ by the old size.  `TableInv`: counts are right, tags are those of the items, no item is there twice, each is met by a search for it before an empty slot (`Reached`), and an empty slot stays (`Roomy`).  A removal keeps `Reached` because it leaves a tombstone where an empty slot would cut a path; a rebuild proves it anew, item by item.  With it each operation answers as `AbstractSet` does. |
| `LibraryProofs`: map | `MapIsSound`, `OperationsAnswerRight` | `MapIInv`: `TableInv` for the keys, a value beside each key and nowhere else.  `AnswersRight` is about every operation at any argument; the loops over lists of entries and over the slots of another table are inductions over their turns, with the entries handled so far as the hypothesis (`Collects`): of a key that comes twice the first entry stays, or the last if they replace each other (`CollectsEntries`). |
| `LibraryProofs`: arrays and strings | `BuffersHoldTheirs` | `BufIInv`: the first `len` cells agree with the sequence (`Agrees`), and what is behind them is zeros, or a NUL (`ArrCells`, `StrCells`).  Each operation is a few writes behind the items (`Behind`), moves into a gap (`Moved`) and changes of the block (`Resized`), and each of these has a lemma.  `filter_in_place` writes over what it reads: by induction on its turns, it never writes ahead of its reading (`Compacts`). |
| `LibraryProofs`: searches | `SearchesAreRight`, `SearchRightCorrect` | On `BufIInv`.  Modulo any number, the hash of a window is that of the window without its first cell and that cell times a power of three (`WindowHash`, by induction on its length), so a turn of the loop gives the hash of the next window (`Rolled`), and no occurrence is passed over.  What `split` and `StrJoin` do, and what `replace_count` does, is the text with the character replaced (`Replaces`), each by induction on its turns.  `SearchesAreRight` is `SearchRight` for texts of any length. |
| `AlgorithmProofs`: sort | `SortInvCorrect`, `SortsArrayCorrect` | `SortInv` is not inductive: it needs where the counters are (`Place`: `i` is a multiple of two runs, and `p` is what has been read of both), as the runs start at multiples of their length.  That nothing is lost is a bijection that grows with each element that is taken. |
| `AlgorithmProofs`: bit sets | `BitsRightCorrect` | The words are well-formed: their number fits `_bits`, and no bit behind the last is set.  `count` is right since elements and pairs of a word and a bit in it correspond one to one, by division. |
| `AlgorithmProofs`: collector | `GcIInvCorrect`, `LinksAccounted`, `CollectorImplementsHeap`, `CollectionsAreFull` | `GcIInv` adds to `CollectorInv` that objects lie apart (`HeapOK`) and that nothing on `free_list` is reachable; without the latter an allocation could free what a previous collection should have kept.  A word that points into the first block of an object has its block or the next one (`BlocksOf`), so the two searches of `GC_scan_region` find the object (`FoundRight`).  A scan finds all that a region points to, and nothing that the region does not touch (`Scans`).  Each turn of following moves a link from `follow_list` to `marked_list`, where all that an object points to has been found (`Done`); when none is left, what is marked is closed (`ScanFollowableEnds`), and `Reachable` is the least closed set.  Each turn marks one link more, so as many turns as there are objects are enough.  What the program stores it can already reach, so `Reachable` never grows but by a new object (`StoreKeeps`, `AllocateKeeps`): garbage that waits on `free_list` stays garbage. |

`IInv` of `WriteBack` and `SectionsInv` are checked by the runs as well, and
`BufIInv` is `BuffersHold` with the kinds of the sequences; the others were
checked by TLC before they were proved.

What a loop or a recursive function computes is proved by induction over the
natural numbers in first-order form: the set of counterexamples is a set of
numbers, and has a least element as `<` is well-founded (`NatInd` in
`TableProofs`).

Only model-checked:

* the liveness properties `OutputsArrive` and `ScanEnds`: liveness under fairness
  is out of the prover's reach;
* `Resolved`, `UnsafeIsUnguarded` and `SecondRunIdle` of `Rewrite`, which speak
  of a second scan, of the result.  They are about headers as a compiler would
  accept them: names that are defined once, bodies that do not hold the end of a
  conditional.  For arbitrary token lists they are false, and what they need
  would be a grammar of headers;
* `SourcesRight` and `OutputsMirror` of `Reading`,
  which stand on folds and `SelectSeq`, for which there are no backends:
  each needs lemmas by induction as above, one function at a time.

## What is left out

* The sorting of functions of several files in `GenUnsafeCode`, and
  `NumberFuncList`: `Rewrite` has one header.  Renaming in place is left to
  `WriteBack`, so `Reading` ends there when `-i` is given.
* An empty argument, whose one NUL is read by the scanner of `ParseArgs`.  The
  model is of `args.re`; the generated `args.cc:93` compares a signed character
  (`yych <= 0x00`), so where `char` is signed a byte from 0x80 on right behind `-o`
  or `-i` ends the option as a NUL would.
* Names such as `UNSAFE_Foo`, whose prefix is not the one that `UnsafeName` gives:
  `UnsafeName` and `SafeName` are modelled for them as they are, but no run has
  any, and `Resolved` would not hold for a header that defines `UNSAFE_g` and
  needs `Unsafeg` (`src/rewrite.cc:25`).
* `keys`, `values` and `pairs` of a map: they compare a whole state byte with
  `SLOT_OCCUPIED` (`adlib/map.h:335`) and so list only entries whose fingerprint is
  zero.  Nothing in the program calls them.
* Subtracting a set or a map from itself, which the program never does.
* Splitting a string at a longer separator, which takes the places where the
  text differs from it (`adlib/str.cc:18`); nothing calls it so.  Formatting and
  parsing of numbers, and the listings and folds that only read.
* The interner: strings share one copy.  The keys of its map point into texts of
  the sources, and these stay in `InputSources` until the program ends.
* In the collector: threads, finalizers and disappearing links, which nothing
  here uses, the sizes that decide when to collect, and `dlmalloc`.
* Most of `adlib/os.cc` (processes, copies, removal of trees, path
  normalisation), which nothing calls; hashes and MD5, which are pure; contracts,
  which do nothing in the default build.
* The build system and generated code.

Four files are most of the repository and hardly of the program: the Tcl
interpreter of the build system (`autosetup/jimsh0.c`, 22 thousand lines),
`gclib/dlmalloc.c` (5 thousand), the generated `src/lexer.cc` (5 thousand,
modelled from `src/lexer.re`), and `gclib/tinygc.c` (4 thousand), most of which
serves threads, platforms and calls that are not used here.  The share of all lines that the modules account for is
small for that reason.

## Plan

Done, in this order: `TransitiveClosure`, `CallAnalysis`, `UnsafeSections` (the
analysis, which decides what is rewritten), `WriteBack` (what can be lost),
`HashSet` (what the analysis stands on), `Scanner` and `Rewrite`, `HashMap`,
`BitSet` and `MergeSort`; then `Reading` and `Lexer` (what comes before the
analysis), `Buffers`, `Heap` and `Collector` (what all of it stands on), and the
`#line` directives and definitions in sections in `Rewrite`.

Next:

1. Proofs: `Resolved` and `UnsafeIsUnguarded`, for a grammar of headers to be stated; that the rest of `CallAnalysis` implements the one-step `Analyse` of `Rewrite`.
2. Several files in `Rewrite`: calls in one header, definitions in another.
