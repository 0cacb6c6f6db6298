------------------------------ MODULE Scanner ------------------------------
(***************************************************************************)
(* Finding the inline functions of a header, and the calls in a piece of   *)
(* it (src/src/analyzer.cc), over the token list that Tokenize leaves.     *)
(* Positions are counted from 1; in the code they are one less.            *)
(*                                                                         *)
(* A token has a symbol and a text.  Texts are sequences: <<"F">> is the   *)
(* name F, <<"UNSAFE_", "F">> is UNSAFE_F, and <<>> is any text that makes *)
(* no difference.                                                          *)
(***************************************************************************)
EXTENDS Integers, Sequences, FiniteSets

VARIABLES tokens,   \* source->tokens
          pos, funcs, phase   \* FindInlineFunctions

scan == <<pos, funcs>>

Symbol == {"Static", "Inline", "EXPORT_INLINE", "Ident", "LPar", "RPar",
           "LBrace", "RBrace", "Semicolon", "WS", "EOL", "Comment",
           "PPIf", "PPElse", "PPElif", "PPEndif", "PPDef", "PPOther", "Other",
           "BAD", "EOF"}

SymsWS == {"WS", "EOL", "Comment"}

(* The text of a token is a sequence of strings.  Those that rewrite.cc    *)
(* adds are spelled out, as provers do not know that they are strings; "U" *)
(* is how UNSAFE_ begins.                                                  *)
Spelling == Seq(STRING \cup {"UNSAFE_", "Unsafe", "#ifdef", "#else", "#define",
                             "#endif", "line", "U"})

(* Tokenize ends the list with an EOF token, and has no other. *)
IsTokenList(ts) ==
    /\ ts \in Seq([sym : Symbol, str : Spelling]) /\ Len(ts) > 0
    /\ \A p \in 1 .. Len(ts) : ts[p].sym = "EOF" <=> p = Len(ts)

Sym(p) == tokens[p].sym

First(S) == CHOOSE p \in S : \A q \in S : p <= q

Skip(p, syms) == First({q \in p .. Len(tokens) : Sym(q) \notin syms})

SkipUntil(p, syms) ==
    First({q \in p .. Len(tokens) : Sym(q) \in syms \cup {"EOF"}})

(* How many braces are open after q of those from p on. *)
Level(p, q) == Cardinality({r \in p .. q : Sym(r) = "LBrace"})
                 - Cardinality({r \in p .. q : Sym(r) = "RBrace"})

Matches(p, q) == Sym(q) = "RBrace" /\ Level(p, q) = 0

(* Mutant: the first right brace is taken for the match. *)
SkipToBrace(p) == SkipUntil(p, {"RBrace"})

SkipToMatch(p) ==
    First({q \in p .. Len(tokens) : Matches(p, q) \/ Sym(q) = "EOF"})

ScanInit == IsTokenList(tokens) /\ pos = 1 /\ funcs = <<>> /\ phase = "scan"

-----------------------------------------------------------------------------
(* One turn of the loop of FindInlineFunctions.  Where it finds neither    *)
(* "static inline" nor EXPORT_INLINE it steps on.                          *)
AtInline(p) == IF Sym(p) = "Static" THEN Skip(p + 1, SymsWS) ELSE p

StartsInline(p) == \/ Sym(p) = "EXPORT_INLINE"
                   \/ Sym(p) = "Static" /\ Sym(AtInline(p)) = "Inline"

StepOn ==
    /\ phase = "scan" /\ Sym(pos) # "EOF" /\ ~StartsInline(pos)
    /\ pos' = IF Sym(pos) = "Static" THEN AtInline(pos) ELSE pos + 1
    /\ UNCHANGED <<tokens, funcs, phase>>

(* The parenthesis after the name, and the brace after that. *)
LPar(p) == SkipUntil(AtInline(p), {"LPar"})
LBrace(p) == SkipUntil(LPar(p), {"LBrace"})

(* Mutant: the search goes on where it began. *)
NoNameAgain == /\ phase = "scan" /\ StartsInline(pos)
               /\ Sym(LPar(pos)) = "LPar" /\ Sym(LPar(pos) - 1) # "Ident"
               /\ UNCHANGED <<tokens, scan, phase>>

(* No identifier stands right before the parenthesis. *)
NoName == /\ phase = "scan" /\ StartsInline(pos)
          /\ Sym(LPar(pos)) = "LPar" /\ Sym(LPar(pos) - 1) # "Ident"
          /\ pos' = LPar(pos)
          /\ UNCHANGED <<tokens, funcs, phase>>

Found(p) == [start |-> p, end |-> SkipToMatch(LBrace(p)),
             namepos |-> LPar(p) - 1, name |-> tokens[LPar(p) - 1].str,
             calls |-> {}]

(* Everything up to the matching brace belongs to the function.  If there  *)
(* is none, the loop goes on behind the last token.                        *)
Function ==
    /\ phase = "scan" /\ StartsInline(pos)
    /\ Sym(LPar(pos)) = "LPar" /\ Sym(LPar(pos) - 1) = "Ident"
    /\ Sym(LBrace(pos)) = "LBrace"
    /\ funcs' = Append(funcs, Found(pos))
    /\ pos' = Found(pos).end + 1
    /\ phase' = IF Sym(Found(pos).end) = "EOF" THEN "overrun" ELSE "scan"
    /\ UNCHANGED tokens

(* The end of the list, or of what can hold a definition. *)
NoBody(p) == \/ Sym(LPar(p)) = "EOF"
             \/ Sym(LPar(p) - 1) = "Ident" /\ Sym(LBrace(p)) = "EOF"

EndOfFile ==
    /\ phase = "scan"
    /\ Sym(pos) = "EOF" \/ (StartsInline(pos) /\ NoBody(pos))
    /\ phase' = "scanned"
    /\ UNCHANGED <<tokens, pos, funcs>>

FindInlineFunctions == StepOn \/ NoName \/ Function \/ EndOfFile

-----------------------------------------------------------------------------
(* FindCalls: the positions of the names that an open parenthesis follows. *)
CallsIn(names, from, to) ==
    {p \in from .. to :
        /\ Sym(p) = "Ident" /\ tokens[p].str \in names
        /\ LET next == Skip(p + 1, SymsWS) IN next <= to /\ Sym(next) = "LPar"}

FuncNames == {funcs[i].name : i \in 1 .. Len(funcs)}

(* Step 2 of Main: func->callpositions, the calls in each function's body. *)
FindCalls ==
    /\ phase = "scanned"
    /\ funcs' = [i \in 1 .. Len(funcs) |->
                    [funcs[i] EXCEPT !.calls =
                       CallsIn(FuncNames, SkipUntil(funcs[i].start, {"LBrace"}),
                               funcs[i].end)]]
    /\ phase' = "called"
    /\ UNCHANGED <<tokens, pos>>

ScanNext == FindInlineFunctions \/ FindCalls

ScanSpec == ScanInit /\ [][ScanNext]_<<tokens, scan, phase>>

Called(positions) == {tokens[p].str : p \in positions}

-----------------------------------------------------------------------------
(* Functions are found in order and apart from each other, the name is     *)
(* inside, and the end is the brace that matches the first one and no      *)
(* later: what the splicing in rewrite.cc relies on (lines 217 to 238).    *)
(* Only a function whose brace has no match ends with the file, and the    *)
(* search with it (line 49).                                               *)
FunctionsApart ==
    /\ \A i \in 1 .. Len(funcs) : LET f == funcs[i] IN
          /\ f.start < f.namepos /\ f.namepos < f.end /\ f.end <= Len(tokens)
          /\ \A q \in LBrace(f.start) .. f.end - 1 : ~Matches(LBrace(f.start), q)
          /\ \/ Matches(LBrace(f.start), f.end)
             \/ f.end = Len(tokens) /\ phase = "overrun"
    /\ \A i, j \in 1 .. Len(funcs) : i < j => funcs[i].end < funcs[j].start

FuncType == [start : Nat, end : Nat, namepos : Nat, name : Spelling,
             calls : SUBSET Nat]

PosInv == /\ phase # "overrun" => pos \in 1 .. Len(tokens)
          /\ phase = "overrun" => pos = Len(tokens) + 1

(* Where a function may start and end. *)
Bodies == {r \in (1 .. Len(tokens)) \X (1 .. Len(tokens)) :
             /\ \A q \in LBrace(r[1]) .. r[2] - 1 : ~Matches(LBrace(r[1]), q)
             /\ Matches(LBrace(r[1]), r[2]) \/ r[2] = Len(tokens)}

FuncInv == \A i \in 1 .. Len(funcs) : LET f == funcs[i] IN
    /\ f.start \in 1 .. Len(tokens) /\ f.end \in 1 .. Len(tokens)
    /\ f.start < f.namepos /\ f.namepos < f.end /\ f.end < pos
    /\ <<f.start, f.end>> \in Bodies

OrderInv == \A i, j \in 1 .. Len(funcs) : i < j => funcs[i].end < funcs[j].start

(* The scan stays inside the list, until it meets a brace without a match, *)
(* and has left behind every function it has found: inductive for          *)
(* ScanSpec (FindInlineFunctions, analyzer.cc).                            *)
ScanInv == /\ IsTokenList(tokens) /\ funcs \in Seq(FuncType)
           /\ PosInv /\ FuncInv /\ OrderInv

(* The search for functions comes to an end, at the EOF token or, where a  *)
(* brace has no match, behind it: each turn of its loop gets further,      *)
(* though some leave pos where a search stopped (line 70).                 *)
ScanEnds == <>(phase \in {"called", "overrun"})
=============================================================================
