------------------------------ MODULE Reading ------------------------------
(***************************************************************************)
(* From the command line to the sources in memory and to the files that    *)
(* -o writes: ParseArgs (src/src/args.re), the checks and the loop over    *)
(* the files at the head of Main (src/src/main.cc), the directory walk and *)
(* MakeDir (src/adlib/os.cc), and the names of the output files            *)
(* (RewriteSourceFiles in src/src/rewrite.cc).  What a source becomes is   *)
(* the matter of other modules.                                            *)
(*                                                                         *)
(* A path is a sequence of pieces, "/" among them: <<"src", "/", "a.c">>.  *)
(* Dropping a prefix or putting two paths together is done to the pieces,  *)
(* as the code does it to the characters, so <<"out", "a.c">> is outa.c.   *)
(* A location is what the system makes of a path: its names, each of them  *)
(* a sequence of pieces.  Arguments and loops count from 1.                *)
(***************************************************************************)
EXTENDS Integers, Sequences, FiniteSets

Seqs == INSTANCE SequencesExt

CONSTANTS SourceNames,   \* pieces at which a path ends in .h, .c or .cc
          Dashed,        \* pieces that begin with a dash
          NoDir,         \* OutputDir is NULL
          Unreadable     \* the text of a file that cannot be opened

(* Arguments are paths or options; none is empty. *)
Piece == STRING \cup Dashed
CommandLine == Seq(Seq(Piece) \ {<<>>})

ASSUME ReadAssumption == /\ {"-o", "-i", "-l", "-h"} \subseteq Dashed
                         /\ NoDir \notin Seq(Piece)

VARIABLES args, fs, order,   \* the command line, the files by location, and
                             \* the order in which readdir lists names
          closeNull,         \* does fclose(NULL) return or abort?
          i, mode, opts,     \* ParseArgs; i is also the index of later loops
          files, sources,    \* files and InputSources in Main
          progress           \* how far the program is

reading == <<args, fs, order, closeNull, i, mode, opts, files, sources,
             progress>>
environment == <<args, order, closeNull>>

-----------------------------------------------------------------------------
(* The file system. *)
Ends(path, piece) == path # <<>> /\ path[Len(path)] = piece

(* A name goes on until the next slash. *)
Location(path) ==
    LET grow(loc, n) ==
          IF path[n] = "/" THEN loc
          ELSE IF n = 1 \/ path[n - 1] = "/" THEN Append(loc, <<path[n]>>)
          ELSE [loc EXCEPT ![Len(loc)] = Append(@, path[n])]
    IN  Seqs!FoldLeft(grow, <<>>, [n \in 1 .. Len(path) |-> n])

Dir == [kind |-> "dir"]
File(text) == [kind |-> "file", text |-> text]
Link(loc) == [kind |-> "link", target |-> loc]

(* One link, anywhere on the way, is followed. *)
Followed(f, loc) ==
    LET links == {n \in 1 .. Len(loc) : LET l == SubSeq(loc, 1, n) IN
                    l \in DOMAIN f /\ f[l].kind = "link"}
        n == CHOOSE n \in links : \A k \in links : n <= k
    IN  IF links = {} THEN loc
        ELSE f[SubSeq(loc, 1, n)].target \o SubSeq(loc, n + 1, Len(loc))

KindAt(f, loc) == IF loc = <<>> THEN "dir"   \* the working directory
                  ELSE IF Followed(f, loc) \notin DOMAIN f THEN "none"
                  ELSE f[Followed(f, loc)].kind

(* What stat says of a path; a file does not answer to a final slash. *)
Kind(f, path) ==
    IF Ends(path, "/") /\ KindAt(f, Location(path)) # "dir" THEN "none"
    ELSE KindAt(f, Location(path))

(* fopen(path, "r") succeeds for a directory as well; nothing is read.     *)
Readable(f, path) ==
    \/ Kind(f, path) = "dir"
    \/ /\ Kind(f, path) = "file"
       /\ f[Followed(f, Location(path))].text # Unreadable

Start == /\ i = 1 /\ mode = "none"
         /\ opts = [InPlace |-> FALSE, LineDirs |-> FALSE,
                    OutputDir |-> NoDir, InputFiles |-> <<>>]
         /\ files = <<>> /\ sources = <<>> /\ progress = "parse"

-----------------------------------------------------------------------------
(* ParseArgs: one argument per turn. *)
Arg == args[i]

Parsing(pending) == progress = "parse" /\ i <= Len(args) /\ mode = pending

NextArg == i' = i + 1 /\ UNCHANGED <<environment, fs, files, sources, progress>>

(* The argument after -o, whatever it looks like. *)
ReadValue == /\ Parsing("o") /\ NextArg
             /\ opts' = [opts EXCEPT !.OutputDir = Arg]
             /\ mode' = "none"

OutputOption == /\ Parsing("none") /\ Arg = <<"-o">> /\ NextArg
                /\ mode' = "o" /\ UNCHANGED opts

InPlaceOption == /\ Parsing("none") /\ Arg = <<"-i">> /\ NextArg
                 /\ opts' = [opts EXCEPT !.InPlace = TRUE] /\ UNCHANGED mode

LineOption == /\ Parsing("none") /\ Arg = <<"-l">> /\ NextArg
              /\ opts' = [opts EXCEPT !.LineDirs = TRUE] /\ UNCHANGED mode

InputFile == /\ Parsing("none") /\ Head(Arg) \notin Dashed /\ NextArg
             /\ opts' = [opts EXCEPT !.InputFiles = Append(@, Arg)]
             /\ UNCHANGED mode

Stop(how) == /\ progress' = how
             /\ UNCHANGED <<environment, fs, i, mode, files, sources>>

HelpOption == /\ Parsing("none") /\ Arg = <<"-h">> /\ Stop("help")
              /\ UNCHANGED opts

(* The action for -oDIR runs into the next one, whose scanner reads behind *)
(* the end of the argument; what it finds there may pass for --help.       *)
AttachedValue == /\ Parsing("none") /\ Arg[1] = "-o" /\ Len(Arg) > 1
                 /\ opts' = [opts EXCEPT !.OutputDir = Tail(Arg)]
                 /\ \E how \in {"error", "help"} : Stop(how)

InvalidOption ==
    /\ Parsing("none") /\ Head(Arg) \in Dashed
    /\ Arg \notin {<<"-o">>, <<"-i">>, <<"-l">>, <<"-h">>} /\ Arg[1] # "-o"
    /\ Stop("error") /\ UNCHANGED opts

(* Mutant: -i and -o may be given together. *)
AcceptedEither == /\ mode = "none"
                  /\ opts.InPlace \/ opts.OutputDir # NoDir
                  /\ opts.OutputDir = NoDir \/ Len(opts.InputFiles) = 1

(* The end of ParseArgs, and the two checks in Main. *)
Accepted == /\ mode = "none"
            /\ opts.InPlace # (opts.OutputDir # NoDir)
            /\ opts.OutputDir = NoDir \/ Len(opts.InputFiles) = 1

CheckOptions == /\ progress = "parse" /\ i > Len(args)
                /\ progress' = IF Accepted THEN "find" ELSE "error"
                /\ UNCHANGED <<environment, fs, i, mode, opts, files, sources>>

ParseArgs == \/ ReadValue \/ OutputOption \/ InPlaceOption \/ LineOption
             \/ HelpOption \/ AttachedValue \/ InvalidOption \/ InputFile
             \/ CheckOptions

-----------------------------------------------------------------------------
(* FindFiles and ListFileTree. *)
ListFiles(loc) ==
    SelectSeq(order, LAMBDA name : Append(loc, name) \in DOMAIN fs)

Dirs == {loc \in DOMAIN fs : fs[loc] = Dir}

(* The paths below each directory, relative to it.  A link is listed, and  *)
(* not followed; a directory inside is not listed.                         *)
WalkDir ==
    LET walk[loc \in Dirs] ==
          LET below(name) ==
                LET at == Append(loc, name)
                IN  IF fs[at] # Dir THEN <<name>>
                    ELSE [n \in 1 .. Len(walk[at]) |->
                            name \o <<"/">> \o walk[at][n]]
          IN  Seqs!FlattenSeq([n \in 1 .. Len(ListFiles(loc)) |->
                                 below(ListFiles(loc)[n])])
    IN  walk

WithSlash(path) == IF Ends(path, "/") THEN path ELSE Append(path, "/")

ListFileTree(path) ==
    CASE Kind(fs, path) = "dir" ->
           LET below == WalkDir[Followed(fs, Location(path))]
           IN  <<WithSlash(path)>>
                 \o [n \in 1 .. Len(below) |-> WithSlash(path) \o below[n]]
      [] Kind(fs, path) = "file" -> <<path>>
      [] OTHER -> <<>>

FindFiles ==
    /\ progress = "find"
    /\ files' = Seqs!FlattenSeq([n \in 1 .. Len(opts.InputFiles) |->
                                   ListFileTree(opts.InputFiles[n])])
    /\ i' = 1 /\ progress' = "read"
    /\ UNCHANGED <<environment, fs, mode, opts, sources>>

-----------------------------------------------------------------------------
(* The loop that fills InputSources. *)
IsSource(path) == path[Len(path)] \in SourceNames

InputFileMap == {sources[n].filename : n \in 1 .. Len(sources)}

Reads == progress = "read" /\ i <= Len(files)

NextFile == i' = i + 1 /\ UNCHANGED <<environment, fs, mode, opts, files>>

Skipped == ~IsSource(files[i]) \/ files[i] \in InputFileMap

SkipFile == /\ Reads /\ Skipped /\ NextFile
            /\ UNCHANGED <<sources, progress>>

(* Mutant: a file that is given twice is read twice. *)
ReadAgain == /\ Reads /\ IsSource(files[i]) /\ Readable(fs, files[i]) /\ NextFile
             /\ sources' = Append(sources, [filename |-> files[i], tokens |-> TRUE])
             /\ UNCHANGED progress

ReadSource == /\ Reads /\ ~Skipped /\ Readable(fs, files[i]) /\ NextFile
              /\ sources' = Append(sources, [filename |-> files[i], tokens |-> TRUE])
              /\ UNCHANGED progress

(* ReadFile closes the null stream, and if that returns the file is kept   *)
(* as a source whose tokens are NULL.                                      *)
CannotRead == /\ Reads /\ ~Skipped /\ ~Readable(fs, files[i])
              /\ \/ /\ closeNull = "aborts" /\ Stop("aborted") /\ UNCHANGED opts
                 \/ /\ closeNull = "returns" /\ NextFile
                    /\ sources' = Append(sources, [filename |-> files[i],
                                                   tokens |-> FALSE])
                    /\ UNCHANGED progress

(* Step 1 looks at the tokens of every source. *)
UseSources ==
    /\ progress = "read" /\ i > Len(files)
    /\ progress' = IF \E n \in 1 .. Len(sources) : ~sources[n].tokens THEN "aborted"
                   ELSE IF opts.InPlace THEN "inplace" ELSE "write"
    /\ i' = 1
    /\ UNCHANGED <<environment, fs, mode, opts, files, sources>>

-----------------------------------------------------------------------------
(* Step 9 with an output directory: one source per turn. *)
OutputName(filename) ==
    opts.OutputDir \o SubSeq(filename, Len(opts.InputFiles[1]) + 1, Len(filename))

DirName(path) ==
    LET slashes == {n \in 1 .. Len(path) : path[n] = "/"}
        last == CHOOSE n \in slashes : \A k \in slashes : k <= n
    IN  IF slashes = {} THEN path ELSE SubSeq(path, 1, last - 1)

Prefixes(loc) == {SubSeq(loc, 1, n) : n \in 1 .. Len(loc)}

(* Mutant: only the last directory is made. *)
MakeLastDir(loc) ==
    IF KindAt(fs, loc) = "none" /\ KindAt(fs, Seqs!Front(loc)) = "dir"
    THEN [l \in DOMAIN fs \cup {loc} |-> IF l = loc THEN Dir ELSE fs[l]]
    ELSE fs

(* MakeDirRec makes what is missing, and gives up at a file or at a link   *)
(* that leads nowhere.                                                     *)
MakeDirRec(loc) ==
    LET missing == {l \in Prefixes(loc) : KindAt(fs, l) = "none"}
        made == {Followed(fs, l) : l \in missing}
    IN  IF \A l \in Prefixes(loc) : IF l \in missing THEN l \notin DOMAIN fs
                                    ELSE KindAt(fs, l) = "dir"
        THEN [l \in DOMAIN fs \cup made |-> IF l \in made THEN Dir ELSE fs[l]]
        ELSE fs

(* fopen(path, "w") and what follows; the text is the source's new code.   *)
WriteFile(f, path, text) ==
    LET loc == Followed(f, Location(path))
    IN  IF /\ ~Ends(path, "/")
           /\ KindAt(f, Seqs!Front(Location(path))) = "dir"
           /\ KindAt(f, loc) # "dir"
        THEN [l \in DOMAIN f \cup {loc} |-> IF l = loc THEN File(text) ELSE f[l]]
        ELSE f

(* The old file is read, and written unless it is the same. *)
OutputFile ==
    LET filename == sources[i].filename
        made == MakeDirRec(Location(DirName(OutputName(filename))))
        aborts == closeNull = "aborts" /\ ~Readable(made, OutputName(filename))
    IN  /\ progress = "write" /\ i <= Len(sources)
        /\ fs' = IF aborts THEN made
                 ELSE WriteFile(made, OutputName(filename), filename)
        /\ progress' = IF aborts THEN "aborted" ELSE "write"
        /\ i' = i + 1
        /\ UNCHANGED <<environment, mode, opts, files, sources>>

Finish == /\ progress = "write" /\ i > Len(sources)
          /\ progress' = "done"
          /\ UNCHANGED <<environment, fs, i, mode, opts, files, sources>>

ReadNext == \/ ParseArgs \/ FindFiles \/ SkipFile \/ ReadSource \/ CannotRead
            \/ UseSources \/ OutputFile \/ Finish

ReadSpec == args \in CommandLine /\ Start /\ [][ReadNext]_reading

-----------------------------------------------------------------------------
(* An argument is the value of the one before it if that one is an -o      *)
(* which is not a value itself: it ends an odd number of them.             *)
IsValue(n) ==
    \E k \in 1 .. n - 1 : /\ (n - k) % 2 = 1
                          /\ \A j \in k .. n - 1 : args[j] = <<"-o">>
                          /\ k = 1 \/ args[k - 1] # <<"-o">>

Values == {n \in 1 .. Len(args) : IsValue(n)}
Plain == {n \in 1 .. Len(args) : ~IsValue(n)}
Inputs == {n \in Plain : Head(args[n]) \notin Dashed}

(* Those up to the m-th argument, and the n-th of all. *)
InputsTo(m) == {n \in Inputs : n <= m}
NthInput(n) == CHOOSE a \in Inputs : Cardinality(InputsTo(a)) = n

Started == {"find", "read", "inplace", "write", "done"}

(* The program starts only when every argument is understood: it is the    *)
(* value of an -o, an option by itself, or an input, whose order is kept;  *)
(* either -i is given and there is no -o, or the last -o is the output     *)
(* directory for exactly one input.  Otherwise no file is touched.         *)
ArgsUnderstood ==
    progress \in Started =>
      /\ \A n \in Plain \ Inputs : args[n] \in {<<"-o">>, <<"-i">>, <<"-l">>}
      /\ opts.InputFiles = [n \in 1 .. Cardinality(Inputs) |-> args[NthInput(n)]]
      /\ opts.LineDirs = \E n \in Plain : args[n] = <<"-l">>
      /\ \/ /\ \E n \in Plain : args[n] = <<"-i">>
            /\ Values = {} /\ opts.OutputDir = NoDir
         \/ /\ \A n \in Plain : args[n] # <<"-i">>
            /\ Cardinality(Inputs) = 1
            /\ \E n \in Values : /\ opts.OutputDir = args[n]
                                 /\ \A k \in Values : k <= n

(* What the options say of the first m arguments. *)
Understood(m) ==
    /\ \A n \in Plain \ Inputs : n <= m => args[n] \in {<<"-o">>, <<"-i">>, <<"-l">>}
    /\ opts.InputFiles = [n \in 1 .. Cardinality(InputsTo(m)) |-> args[NthInput(n)]]
    /\ opts.LineDirs = \E n \in Plain : n <= m /\ args[n] = <<"-l">>
    /\ opts.InPlace = \E n \in Plain : n <= m /\ args[n] = <<"-i">>
    /\ \/ opts.OutputDir = NoDir /\ \A n \in Values : n > m
       \/ \E n \in Values : /\ n <= m /\ opts.OutputDir = args[n]
                            /\ \A k \in Values : k <= m => k <= n

OptsType == [InPlace : BOOLEAN, LineDirs : BOOLEAN,
             OutputDir : Seq(Piece) \cup {NoDir}, InputFiles : Seq(Seq(Piece))]

(* The loop of ParseArgs has understood what it has read, and mode tells   *)
(* whether the next argument is a value; nothing after it changes the      *)
(* options.  Inductive for ReadSpec (ParseArgs, args.re).                  *)
ReadInv ==
    /\ args \in CommandLine /\ opts \in OptsType
    /\ progress = "parse" =>
         /\ i \in 1 .. Len(args) + 1 /\ mode \in {"none", "o"}
         /\ mode = "o" <=> IsValue(i)
         /\ Understood(i - 1)
    /\ progress \in Started => Accepted /\ Understood(Len(args))

(* The files at or below an input, found by no walk: each directory on the *)
(* way is one, not a link to one.                                          *)
Below(loc) == {l \in DOMAIN fs :
                 /\ Len(l) > Len(loc) /\ SubSeq(l, 1, Len(loc)) = loc
                 /\ \A n \in Len(loc) .. Len(l) - 1 : fs[SubSeq(l, 1, n)] = Dir
                 /\ fs[l] # Dir}

Expected(path) ==
    LET loc == Location(path)
        top == Followed(fs, loc)
    IN  CASE Kind(fs, path) = "file" -> {loc}
          [] Kind(fs, path) = "dir" ->
               {loc \o SubSeq(l, Len(top) + 1, Len(l)) : l \in Below(top)}
          [] OTHER -> {}

EndsAsSource(loc) == Seqs!Last(Seqs!Last(loc)) \in SourceNames

Where(n) == Location(sources[n].filename)

(* The sources are the files that the inputs name or lead to, if their     *)
(* names end in .h, .c or .cc, each under one path once; with one input,   *)
(* each once.  Two inputs may lead to a file by two paths.                 *)
SourcesRight ==
    progress \in {"inplace", "write"} /\ i = 1 =>
      /\ {Where(n) : n \in 1 .. Len(sources)} =
           {loc \in UNION {Expected(opts.InputFiles[n]) :
                             n \in 1 .. Len(opts.InputFiles)} : EndsAsSource(loc)}
      /\ Cardinality(InputFileMap) = Len(sources)
      /\ Len(opts.InputFiles) = 1 =>
           \A n, k \in 1 .. Len(sources) : Where(n) = Where(k) => n = k

(* Where the output of a source belongs: below the output directory, as    *)
(* the source lies below the input.                                        *)
Mirrored(n) == Location(opts.OutputDir)
                 \o SubSeq(Where(n), Len(Location(opts.InputFiles[1])) + 1,
                           Len(Where(n)))

(* The input is a directory, as the message at main.cc:98 has it, and has  *)
(* a final slash only if the output directory has one.                     *)
Mirrors == /\ Kind(fs, opts.InputFiles[1]) = "dir"
           /\ Ends(opts.InputFiles[1], "/") => Ends(opts.OutputDir, "/")

(* Nothing is in the way of the directories and files to be made. *)
Clear == \A n \in 1 .. Len(sources) :
           /\ KindAt(fs, Mirrored(n)) # "dir"
           /\ Mirrored(n) \in DOMAIN fs => fs[Mirrored(n)].kind # "link"
           /\ \A l \in Prefixes(Seqs!Front(Mirrored(n))) :
                 KindAt(fs, l) = "dir" \/ (KindAt(fs, l) = "none" /\ l \notin DOMAIN fs)

Written == {l \in DOMAIN fs : fs[l].kind = "file" /\ fs[l].text \in InputFileMap}

(* Nothing is written unless every source has been read; and with -o each  *)
(* source has its code in a file of its own at the same place below the    *)
(* output directory, in directories made for it, and no other file is      *)
(* written.                                                                *)
OutputsMirror ==
    progress \in {"write", "done"} =>
      /\ \A n \in 1 .. Len(sources) : sources[n].tokens
      /\ Mirrors /\ Clear =>
           /\ \A n \in 1 .. Len(sources) : n < i =>
                 LET loc == Followed(fs, Mirrored(n))
                 IN  loc \in DOMAIN fs /\ fs[loc] = File(sources[n].filename)
           /\ Written = {Followed(fs, Mirrored(n)) : n \in 1 .. i - 1}
=============================================================================
