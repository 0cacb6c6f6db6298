------------------------------ MODULE Rewrite ------------------------------
(***************************************************************************)
(* A header rewritten in place, from its tokens to its new text: the scan  *)
(* for inline functions, the analysis, UpdateUnsafeSections, GenUnsafeCode *)
(* and RewriteSourceFile (src/src/rewrite.cc), and the next run over the   *)
(* result, after which somebody may have added another section.            *)
(*                                                                         *)
(* The analysis is the one step that CallAnalysis proves it to be when     *)
(* names are unique; a section is what UnsafeSections proves the scan to   *)
(* find when sections are not nested.                                      *)
(*                                                                         *)
(* A token of the new text that is one of the old carries its position     *)
(* there as a label, which is 0 for a token that the program makes.        *)
(***************************************************************************)
EXTENDS Scanner, TLC

CONSTANTS Header,      \* the token lists to start from
          NewSection,  \* what may be added between two runs
          Roots,       \* ROOT_FUNCS
          Blacklist,   \* BLACKLIST
          Lower,       \* names with a lower-case letter
          Line,        \* line numbers, and how they are written
          Numeral(_),
          MaxRuns      \* bound: how often the program is run

ASSUME HeaderAssumption == \A ts \in Header : IsTokenList(ts)

ASSUME SectionAssumption ==
    NewSection \subseteq Seq([sym : Symbol \ {"EOF"}, str : Spelling])

(* The lines that the program adds begin with one of these.  What Tokenize *)
(* makes of them has another symbol or text, see Relex.                    *)
Made == {"#ifdef", "#else", "#define", "#endif", "#line"}

MadeLine(token) == token.sym = "PPOther" /\ token.str[1] \in Made

ASSUME DirectiveAssumption ==
    \A ts \in Header \cup NewSection : \A p \in 1 .. Len(ts) : ~MadeLine(ts[p])

(* No two lines have the same number. *)
ASSUME NumeralAssumption ==
    \A m, n \in Line : Numeral(m) = Numeral(n) => m = n

VARIABLES used,     \* used_funcnames
          sections, \* source->unsafe_calls
          gen,      \* source->rewritten_funcs: where a block goes, and its code
          todo,     \* functions that the current loop has still to visit
          copied,   \* the last token that is part of out
          out,      \* source->rewritten_code
          linedirs, \* opts->LineDirs
          given,    \* history: the tokens before this run
          edited,   \* history: a section was added before this run
          runs

rewriting == <<used, sections, gen, todo, copied, out>>
history == <<linedirs, given, edited, runs>>
vars == <<tokens, scan, phase, rewriting, history>>

Token(sym, str) == [sym |-> sym, str |-> str]
nl == Token("EOL", <<>>)

(* The input ends with EOF; a section is put before it. *)
WithSection(ts, sec) ==
    SubSeq(ts, 1, Len(ts) - 1) \o sec \o <<Token("EOF", <<>>)>>

Init ==
    /\ \E ts \in Header, sec \in NewSection : tokens = WithSection(ts, sec)
    /\ linedirs \in BOOLEAN
    /\ given = tokens /\ edited = FALSE /\ runs = 1
    /\ pos = 1 /\ funcs = <<>> /\ phase = "scan"
    /\ used = {} /\ sections = {} /\ gen = <<>> /\ todo = {}
    /\ copied = 0 /\ out = <<>>

Scan == ScanNext /\ UNCHANGED <<rewriting, history>>

-----------------------------------------------------------------------------
Mixed(n) == \E i \in 1 .. Len(n) : n[i] = "Unsafe" \/ n[i] \in Lower

UnsafeName(n) ==
    LET prefix == IF Mixed(n) THEN "Unsafe" ELSE "UNSAFE_"
    IN  IF n[1] = prefix THEN n ELSE <<prefix>> \o n

IsUnsafe(n) == n # <<>> /\ n[1] \in {"Unsafe", "UNSAFE_"}

SafeName(n) == IF IsUnsafe(n) THEN Tail(n) ELSE n

(* unsafe_names: step 1 of Main. *)
UnsafeNames == {n \in FuncNames : IsUnsafe(n)}
                 \cup {SafeName(n) : n \in {m \in FuncNames : IsUnsafe(m)}}

Callees(n) == UNION {Called(funcs[i].calls) :
                        i \in {j \in 1 .. Len(funcs) : funcs[j].name = n}}

(* The names in S and those that step(_) leads to from them, again and     *)
(* again.                                                                  *)
Reached(S, step) ==
    LET r[k \in 0 .. Len(funcs)] ==
          IF k = 0 THEN S
          ELSE LET prev == r[k - 1] IN prev \cup UNION {step[n] : n \in prev}
    IN  r[Len(funcs)]

CalleesOf == [n \in FuncNames |-> Callees(n)]

CallersOf == LET callees == CalleesOf
             IN  [n \in FuncNames |-> {m \in FuncNames : n \in callees[m]}]

Guarded == Reached(Roots \cap FuncNames, CallersOf)

(* Depth of the conditional that ends at q, seen from p. *)
Inside(p, q) == Cardinality({r \in p + 1 .. q - 1 : Sym(r) = "PPIf"})
                  - Cardinality({r \in p + 1 .. q - 1 : Sym(r) = "PPEndif"})

SectionStarts == {p \in 1 .. Len(tokens) :
                     Sym(p) = "PPIf" /\ tokens[p].str = <<"WARD_ENABLED">>}

Closes(p, q) == Sym(q) \in {"PPElse", "PPElif", "PPEndif"} /\ Inside(p, q) = 0

SectionEnd(p) == First({q \in p + 1 .. Len(tokens) : Closes(p, q)})

SectionCalls(names) ==
    UNION {CallsIn(names, p, SectionEnd(p)) : p \in SectionStarts}

(* Steps 3 to 7 of Main. *)
Analyse ==
    /\ phase = "called"
    /\ sections' = SectionCalls(Guarded)
    /\ used' = (Reached(Called(sections'), CalleesOf) \cap Guarded) \ Blacklist
    /\ phase' = "update"
    /\ UNCHANGED <<tokens, scan, gen, todo, copied, out, history>>

-----------------------------------------------------------------------------
Renamed(ts, positions) ==
    [p \in 1 .. Len(ts) |->
        IF p \in positions /\ ts[p].str \in used
        THEN Token(ts[p].sym, UnsafeName(ts[p].str)) ELSE ts[p]]

UpdateUnsafeSections ==
    /\ phase = "update"
    /\ tokens' = Renamed(tokens, sections)
    /\ todo' = 1 .. Len(funcs)
    /\ phase' = "generate"
    /\ UNCHANGED <<scan, used, sections, gen, copied, out, history>>

(* White space before and after the function, and the end of its line,     *)
(* become part of it.                                                      *)
WideStart(f) ==
    First({p \in 1 .. f.start : \A q \in p .. f.start - 1 : Sym(q) = "WS"})

WideEnd(f) == LET next == Skip(f.end + 1, {"WS"})
              IN  IF Sym(next) = "EOL" THEN next ELSE next - 1

(* The last identifier before the first parenthesis. *)
FuncPos(from) ==
    CHOOSE p \in from .. SkipUntil(from, {"LPar"}) :
        Sym(p) = "Ident" /\ \A q \in p + 1 .. SkipUntil(from, {"LPar"}) :
                                Sym(q) # "Ident"

(* Mutant: the function's own name is kept. *)
BodyPositions(f) == f.calls

(* Mutant: its calls are. *)
NamePosition(f) == {FuncPos(WideStart(f))}

CallPositions(f) == f.calls \cup {FuncPos(WideStart(f))}

(* "#ifdef" is #ifdef USE_HPC_GUARDS. *)
unsafe_code(f) ==
    LET copy == SubSeq(Renamed(tokens, CallPositions(f)), WideStart(f), WideEnd(f))
    IN  <<Token("PPOther", <<"#ifdef">>)>> \o copy
          \o (IF copy[Len(copy)].sym = "EOL" THEN <<>> ELSE <<nl>>)
          \o <<Token("PPOther", <<"#else">>),
               Token("PPOther", <<"#define">> \o UnsafeName(f.name)),
               Token("PPOther", <<"#endif">>)>>

(* Mutant: functions that have an unsafe version get another. *)
GeneratesAll(f) == f.name \in used

Generates(f) == f.name \in used /\ f.name \notin UnsafeNames

(* One turn of the loop of GenUnsafeCode over the functions. *)
GenUnsafeCode ==
    /\ phase = "generate" /\ todo # {}
    /\ LET i == First(todo)
           f == funcs[i]
       IN  /\ gen' = IF Generates(f)
                     THEN Append(gen, [start |-> WideStart(f), end |-> WideEnd(f),
                                       code |-> unsafe_code(f)])
                     ELSE gen
           /\ todo' = todo \ {i}
    /\ UNCHANGED <<tokens, scan, phase, used, sections, copied, out, history>>

-----------------------------------------------------------------------------
(* linenos: the lines on which the tokens begin. *)
Newlines(token) == IF token.sym = "EOL" THEN 1
                   ELSE IF token.sym # "Comment" THEN 0
                   ELSE Cardinality({k \in 1 .. Len(token.str) : token.str[k] = "LF"})

linenos ==
    LET line[k \in 1 .. Len(tokens)] ==
          IF k = 1 THEN 1 ELSE line[k - 1] + Newlines(tokens[k - 1])
    IN  line

Lineno(p) == linenos[p]

(* Tokens of the old text, and tokens that are new. *)
Label(at, token) == [at |-> at, sym |-> token.sym, str |-> token.str]
Kept(from, to) ==
    [k \in 1 .. to - from + 1 |-> Label(from + k - 1, tokens[from + k - 1])]
New(ts) == [k \in 1 .. Len(ts) |-> Label(0, ts[k])]

LineDirective(p) == Token("PPOther", <<"#line", Numeral(Lineno(p))>>)

(* ADD_LINE_DIR: the text goes on as line Lineno(p). *)
LineDir(p) == IF ~linedirs THEN <<>>
              ELSE IF p > 1 /\ Sym(p - 1) # "EOL" THEN <<nl, LineDirective(p)>>
              ELSE <<LineDirective(p)>>

(* The file is in unsafe_sources or in unsafe_sources2.  No other is       *)
(* rewritten.                                                              *)
Listed == gen # <<>> \/ \E p \in sections : given[p].str \in used

(* The loop is over, and RewriteSourceFile begins. *)
GenUnsafeCodeEnd ==
    /\ phase = "generate" /\ todo = {}
    /\ todo' = 1 .. Len(gen)
    /\ out' = IF Listed THEN New(LineDir(1)) ELSE <<>>
    /\ phase' = "splice"
    /\ UNCHANGED <<tokens, scan, used, sections, gen, copied, history>>

(* Mutant: the text behind the block is given the line that ends before. *)
SpliceFuncEndLine ==
    /\ phase = "splice" /\ todo # {}
    /\ LET g == gen[First(todo)]
       IN  /\ out' = out \o Kept(copied + 1, g.end)
                        \o New(<<nl, nl>> \o LineDir(g.start) \o g.code
                                  \o LineDir(g.end))
           /\ copied' = g.end
    /\ todo' = todo \ {First(todo)}
    /\ UNCHANGED <<tokens, scan, phase, used, sections, gen, history>>

(* Each function is followed by its unsafe version. *)
SpliceFunc ==
    /\ phase = "splice" /\ todo # {}
    /\ LET g == gen[First(todo)]
       IN  /\ out' = out \o Kept(copied + 1, g.end)
                        \o New(<<nl, nl>> \o LineDir(g.start) \o g.code
                                  \o LineDir(g.end + 1))
           /\ copied' = g.end
    /\ todo' = todo \ {First(todo)}
    /\ UNCHANGED <<tokens, scan, phase, used, sections, gen, history>>

(* Mutant: the text goes on with the first token of the line. *)
SpliceRestAgain ==
    /\ phase = "splice" /\ todo = {}
    /\ out' = out \o Kept(IF copied = 0 THEN 1 ELSE copied, Len(tokens))
    /\ copied' = Len(tokens)
    /\ phase' = "done"
    /\ UNCHANGED <<tokens, scan, used, sections, gen, todo, history>>

SpliceRest ==
    /\ phase = "splice" /\ todo = {}
    /\ out' = out \o Kept(copied + 1, Len(tokens))
    /\ copied' = Len(tokens)
    /\ phase' = "done"
    /\ UNCHANGED <<tokens, scan, used, sections, gen, todo, history>>

-----------------------------------------------------------------------------
(* What Tokenize makes of the new lines, each of which ends its line. *)
Relex(token) ==
    IF token.sym # "PPOther" THEN <<token>>
    ELSE CASE token.str[1] = "#ifdef"  -> <<Token("PPIf", <<>>), nl>>
           [] token.str[1] = "#else"   -> <<Token("PPElse", <<>>), nl>>
           [] token.str[1] = "#endif"  -> <<Token("PPEndif", <<>>), nl>>
           [] token.str[1] = "#define" -> <<Token("PPDef", <<>>), nl>>
           [] token.str[1] = "#line"   -> <<Token("PPOther", <<"line">>), nl>>
           [] OTHER                    -> <<token>>

Retokenized(ts) ==
    LET r[p \in 0 .. Len(ts)] ==
          IF p = 0 THEN <<>> ELSE r[p - 1] \o Relex(Token(ts[p].sym, ts[p].str))
    IN  r[Len(ts)]

(* The program is run again, over its result or with one more section. *)
Rerun ==
    /\ phase = "done" /\ runs < MaxRuns
    /\ \E sec \in NewSection \cup {<<>>} :
          /\ tokens' = WithSection(Retokenized(out), sec) /\ given' = tokens'
          /\ edited' = (sec # <<>>)
    /\ runs' = runs + 1 /\ UNCHANGED linedirs
    /\ pos' = 1 /\ funcs' = <<>> /\ phase' = "scan"
    /\ used' = {} /\ sections' = {} /\ gen' = <<>> /\ todo' = {}
    /\ copied' = 0 /\ out' = <<>>

Next == \/ Scan \/ Analyse \/ UpdateUnsafeSections \/ GenUnsafeCode
        \/ GenUnsafeCodeEnd \/ SpliceFunc \/ SpliceRest \/ Rerun

Spec == Init /\ [][Next]_vars

-----------------------------------------------------------------------------
(* The token at p is in a section.                                         *)
InSection(p) == \E s \in SectionStarts :
                   s < p /\ \A q \in s + 1 .. p : ~Closes(s, q)

(* A token is the given one at p, unless it is a call and is redirected.   *)
SameAs(token, p) ==
    /\ token.sym = given[p].sym
    /\ token.str # given[p].str =>
          /\ given[p].sym = "Ident" /\ InSection(p)
          /\ token.str = UnsafeName(given[p].str)

(* No text is lost, repeated or moved: what the result has of the header   *)
(* is the header, in which only calls in sections are renamed              *)
(* (RewriteSourceFile and UpdateUnsafeSections).                           *)
TextKept ==
    phase = "done" =>
        /\ {out[k].at : k \in 1 .. Len(out)} \ {0} = 1 .. Len(given)
        /\ \A k, l \in 1 .. Len(out) :
              k < l /\ out[k].at # 0 /\ out[l].at # 0 => out[k].at < out[l].at
        /\ \A k \in 1 .. Len(out) : out[k].at # 0 => SameAs(out[k], out[k].at)

(* Generated lines begin lines, and with -l the compiler counts each token *)
(* of the header in the line where the header has it, whatever has been    *)
(* put in between (ADD_LINE_DIR); for a header without #line directives,   *)
(* all of whose lines have numbers in Line.                                *)
GeneratedLine(t) == t.at = 0 /\ MadeLine(t)

LineAfter(t, line) ==
    IF ~GeneratedLine(t) THEN line + Newlines(t)
    ELSE IF t.str[1] # "#line" THEN line + 1
    ELSE CHOOSE n \in Line : Numeral(n) = t.str[2]

(* The line on which each token begins, and the one where the text ends. *)
LinesOf(ts) ==
    LET line[k \in 1 .. Len(ts) + 1] ==
          IF k = 1 THEN 1 ELSE LineAfter(ts[k - 1], line[k - 1])
    IN  line

BeginLines(ts) ==
    \A k \in 2 .. Len(ts) :
       GeneratedLine(ts[k]) => GeneratedLine(ts[k - 1]) \/ ts[k - 1].sym = "EOL"

LinesKept(ts) ==
    LET line == LinesOf(ts)
    IN  \A k \in 1 .. Len(ts) : ts[k].at # 0 => line[k] = Lineno(ts[k].at)

LinesRight ==
    phase = "done" =>
      /\ BeginLines(out)
      /\ /\ linedirs
         /\ \A p \in 1 .. Len(given) : given[p].str # <<"line">> /\ Lineno(p) \in Line
         => LinesKept(out)

(* What the compiler sees of the result of a run: the next one's scan. *)
Result == phase = "called" /\ runs > 1

Idents == {tokens[p].str : p \in {q \in 1 .. Len(tokens) : Sym(q) = "Ident"}}

UnsafeFuncs == {i \in 1 .. Len(funcs) : IsUnsafe(funcs[i].name)}

(* Every unsafe function that is called somewhere is defined, once.        *)
Resolved ==
    Result => /\ \A n \in Called(CallsIn(Idents, 1, Len(tokens))) :
                    IsUnsafe(n) => n \in FuncNames
              /\ \A i, j \in 1 .. Len(funcs) :
                    funcs[i].name = funcs[j].name => i = j

(* No unsafe function runs into a guard, save through a blacklisted one:   *)
(* what it calls is unsafe as well or never comes to a guard.              *)
UnsafeIsUnguarded ==
    Result => LET guarded == Guarded IN
              \A i \in UnsafeFuncs : \A n \in Callees(funcs[i].name) \cap guarded :
                 n \in Blacklist \/ IsUnsafe(n)

(* A run over the unchanged result of another leaves it as it is, unless   *)
(* it adds #line directives (steps 1 and 8 of Main, main.cc:123 and 159).  *)
SecondRunIdle ==
    phase = "done" /\ runs > 1 /\ ~edited /\ ~linedirs =>
        Len(out) = Len(given) /\ \A p \in 1 .. Len(given) :
                                     Token(out[p].sym, out[p].str) = given[p]

(* A function keeps its name where it is defined.  One that is defined in  *)
(* a section is taken for a call of itself (step 5 of Main says "called    *)
(* from those sections"), and loses its name to its unsafe version.        *)
FunctionsKeepNames ==
    \A i \in 1 .. Len(funcs) : tokens[funcs[i].namepos].str = funcs[i].name
=============================================================================
