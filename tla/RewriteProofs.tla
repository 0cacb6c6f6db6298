--------------------------- MODULE RewriteProofs ---------------------------
(* First the scan of Scanner: it keeps ScanInv for every list of tokens,   *)
(* so that the functions it finds are in order and apart.  Then,           *)
(* from there, Rewrite: rewriting a header keeps its text.  The new one is *)
(* the old one with calls in sections redirected, and with blocks in       *)
(* between.  Then Lexer: its tokens hold the text they are cut from; at    *)
(* last Reading: the options say what the command line says.              *)
EXTENDS Rewrite, Lexer, Reading, FiniteSetTheorems, WellFoundedInduction, TLAPS

-----------------------------------------------------------------------------
(* What First promises. *)

(* A set of natural numbers has a least element. *)
LEMMA LeastExists ==
  ASSUME NEW S \in SUBSET Nat, S # {}
  PROVE  \E p \in S : \A q \in S : p <= q
<1> DEFINE R == OpToRel(<, Nat)
<1>1. IsWellFoundedOn(R, Nat)
  BY NatLessThanWellFounded
<1>2. \A x, y \in Nat : <<y, x>> \in R <=> y < x
  BY DEF OpToRel
<1> HIDE DEF R
<1>3. PICK x \in S : \A y \in S : ~(<<y, x>> \in R)
  BY <1>1, WFMin
<1>4. \A y \in S : ~(y < x)
  BY <1>2, <1>3
<1> QED BY <1>4

(* First returns it. *)
LEMMA FirstIn ==
  ASSUME NEW S \in SUBSET Nat, S # {}
  PROVE  First(S) \in S
BY LeastExists DEF First

(* The list ends with EOF, and EOF is nowhere else (Tokenize).            *)
LEMMA ListEnds ==
  ASSUME IsTokenList(tokens)
  PROVE  /\ Len(tokens) \in Nat \ {0} /\ Sym(Len(tokens)) = "EOF"
         /\ \A p \in 1 .. Len(tokens) : Sym(p) = "EOF" <=> p = Len(tokens)
BY DEF IsTokenList, Sym

LEMMA ElementType ==
  ASSUME NEW T, NEW s \in Seq(T), NEW ix \in 1 .. Len(s)
  PROVE  s[ix] \in T
OBVIOUS

(* Skip, SkipUntil and SkipToMatch stop at a token of the list (the loops  *)
(* of analyzer.cc 10-48, which EOF ends).                                  *)
LEMMA SkipStops ==
  ASSUME IsTokenList(tokens), NEW p \in 1 .. Len(tokens), Sym(p) # "EOF"
  PROVE  /\ Skip(p + 1, SymsWS) \in p + 1 .. Len(tokens)
         /\ Sym(Skip(p + 1, SymsWS)) \notin SymsWS
<1> DEFINE S == {q \in p + 1 .. Len(tokens) : Sym(q) \notin SymsWS}
<1>1. Len(tokens) \in Nat /\ Sym(Len(tokens)) = "EOF" /\ p < Len(tokens)
  BY ListEnds
<1>2. Len(tokens) \in S
  BY <1>1 DEF SymsWS
<1>3. S \in SUBSET Nat
  BY <1>1
<1>4. First(S) \in S
  BY <1>2, <1>3, FirstIn
<1> QED BY <1>4 DEF Skip

LEMMA SkipUntilStops ==
  ASSUME IsTokenList(tokens), NEW p \in 1 .. Len(tokens), NEW syms
  PROVE  /\ SkipUntil(p, syms) \in p .. Len(tokens)
         /\ Sym(SkipUntil(p, syms)) \in syms \cup {"EOF"}
<1> DEFINE S == {q \in p .. Len(tokens) : Sym(q) \in syms \cup {"EOF"}}
<1>1. Len(tokens) \in Nat /\ Sym(Len(tokens)) = "EOF"
  BY ListEnds
<1>2. Len(tokens) \in S
  BY <1>1
<1>3. S \in SUBSET Nat
  BY <1>1
<1>4. First(S) \in S
  BY <1>2, <1>3, FirstIn
<1> QED BY <1>4 DEF SkipUntil

LEMMA SkipToMatchStops ==
  ASSUME IsTokenList(tokens), NEW p \in 1 .. Len(tokens)
  PROVE  /\ SkipToMatch(p) \in p .. Len(tokens)
         /\ Matches(p, SkipToMatch(p)) \/ Sym(SkipToMatch(p)) = "EOF"
         /\ \A q \in p .. SkipToMatch(p) - 1 : ~Matches(p, q)
<1> DEFINE S == {q \in p .. Len(tokens) : Matches(p, q) \/ Sym(q) = "EOF"}
<1>1. Len(tokens) \in Nat /\ Sym(Len(tokens)) = "EOF"
  BY ListEnds
<1>2. Len(tokens) \in S
  BY <1>1
<1>3. S \in SUBSET Nat
  BY <1>1
<1>4. First(S) \in S
  BY <1>2, <1>3, FirstIn
<1>5. \A q \in S : First(S) <= q
  BY <1>2, <1>3, LeastExists DEF First
<1>6. ASSUME NEW q \in p .. First(S) - 1 PROVE ~Matches(p, q)
  <2>1. q \in p .. Len(tokens) /\ ~(First(S) <= q)
    BY <1>1, <1>4
  <2> HIDE DEF S
  <2>2. q \notin S
    BY <1>5, <2>1
  <2> QED BY <2>1, <2>2 DEF S
<1> QED BY <1>4, <1>6 DEF SkipToMatch

-----------------------------------------------------------------------------
(* Where a function that starts at p has its parts (lines 61 to 75). *)
LEMMA Parts ==
  ASSUME IsTokenList(tokens), NEW p \in 1 .. Len(tokens), StartsInline(p)
  PROVE  /\ AtInline(p) \in p .. Len(tokens)
         /\ Sym(p) = "Static" => p < AtInline(p)
         /\ LPar(p) \in AtInline(p) + 1 .. Len(tokens)
         /\ Sym(LPar(p)) \in {"LPar", "EOF"}
         /\ LBrace(p) \in LPar(p) .. Len(tokens)
         /\ Sym(LBrace(p)) \in {"LBrace", "EOF"}
<1>1. AtInline(p) \in p .. Len(tokens) /\ (Sym(p) = "Static" => p < AtInline(p))
  <2>1. CASE Sym(p) = "Static"
    <3>1. Skip(p + 1, SymsWS) \in p + 1 .. Len(tokens)
      BY <2>1, SkipStops
    <3> QED BY <2>1, <3>1, ListEnds DEF AtInline
  <2>2. CASE Sym(p) # "Static"
    BY <2>2, ListEnds DEF AtInline
  <2> QED BY <2>1, <2>2
<1>2. Sym(AtInline(p)) \in {"Inline", "EXPORT_INLINE"}
  BY DEF StartsInline, AtInline
<1>3. AtInline(p) \in 1 .. Len(tokens)
  BY <1>1, ListEnds
<1>4. LPar(p) \in AtInline(p) .. Len(tokens) /\ Sym(LPar(p)) \in {"LPar", "EOF"}
  BY <1>3, SkipUntilStops DEF LPar
<1>5. LPar(p) # AtInline(p)
  BY <1>2, <1>4
<1>6. LPar(p) \in 1 .. Len(tokens)
  BY <1>3, <1>4, ListEnds
<1>7. LBrace(p) \in LPar(p) .. Len(tokens) /\ Sym(LBrace(p)) \in {"LBrace", "EOF"}
  BY <1>6, SkipUntilStops DEF LBrace
<1> QED BY <1>1, <1>3, <1>4, <1>5, <1>7, ListEnds

(* The function found there lies within the list, and its name within it.  *)
LEMMA FoundInside ==
  ASSUME IsTokenList(tokens), NEW p \in 1 .. Len(tokens), StartsInline(p),
         Sym(LPar(p) - 1) = "Ident"
  PROVE  /\ Found(p) \in FuncType
         /\ Found(p).start = p /\ Found(p).end \in 1 .. Len(tokens)
         /\ p < Found(p).namepos /\ Found(p).namepos < Found(p).end
         /\ Matches(LBrace(p), Found(p).end) \/ Sym(Found(p).end) = "EOF"
         /\ \A q \in LBrace(p) .. Found(p).end - 1 : ~Matches(LBrace(p), q)
<1> DEFINE end == SkipToMatch(LBrace(p))
           namepos == LPar(p) - 1
<1>1. Len(tokens) \in Nat /\ p \in Nat
  BY ListEnds
<1>2. LPar(p) \in 1 .. Len(tokens) /\ LBrace(p) \in 1 .. Len(tokens)
      /\ LPar(p) <= LBrace(p) /\ p < LPar(p)
  BY <1>1, Parts
<1>3. /\ end \in LBrace(p) .. Len(tokens)
      /\ Matches(LBrace(p), end) \/ Sym(end) = "EOF"
      /\ \A q \in LBrace(p) .. end - 1 : ~Matches(LBrace(p), q)
  BY <1>2, SkipToMatchStops
<1>4. end \in 1 .. Len(tokens) /\ end \in Nat
  BY <1>1, <1>2, <1>3
<1>5. namepos < end /\ namepos \in 1 .. Len(tokens) /\ p <= namepos
  BY <1>1, <1>2, <1>3
<1>6. p < namepos
  <2>1. CASE Sym(p) = "Static"
    BY <1>1, <2>1, Parts
  <2>2. CASE Sym(p) # "Static"
    <3>1. p # namepos
      BY <2>2 DEF StartsInline
    <3> QED BY <1>1, <1>2, <1>5, <3>1
  <2> QED BY <2>1, <2>2
<1> HIDE DEF end, namepos
<1>7. tokens[namepos].str \in Spelling
  <2>1. tokens \in Seq([sym : Symbol, str : Spelling])
    BY DEF IsTokenList
  <2>2. tokens[namepos] \in [sym : Symbol, str : Spelling]
    BY <1>5, <2>1, ElementType
  <2> QED BY <2>2
<1>8. Found(p) = [start |-> p, end |-> end, namepos |-> namepos,
                  name |-> tokens[namepos].str, calls |-> {}]
  BY DEF Found, end, namepos
<1>9. Found(p) \in FuncType
  BY <1>1, <1>4, <1>5, <1>7, <1>8 DEF FuncType
<1> QED BY <1>3, <1>4, <1>5, <1>6, <1>8, <1>9

-----------------------------------------------------------------------------
(* The scan begins in its invariant. *)
LEMMA ScanInitInv == ScanInit => ScanInv
<1> SUFFICES ASSUME ScanInit PROVE ScanInv
  OBVIOUS
<1>1. IsTokenList(tokens) /\ Len(tokens) \in Nat \ {0}
  BY ListEnds DEF ScanInit
<1>2. funcs = <<>> /\ Len(funcs) = 0 /\ pos = 1 /\ phase = "scan"
  BY DEF ScanInit
<1> QED BY <1>1, <1>2 DEF ScanInv, PosInv, FuncInv, OrderInv

(* What the invariant says of one function. *)
LEMMA KnownFunc ==
  ASSUME ScanInv, NEW ix \in 1 .. Len(funcs)
  PROVE  /\ funcs[ix].start \in 1 .. Len(tokens) /\ funcs[ix].start \in Nat
         /\ funcs[ix].end \in 1 .. Len(tokens) /\ funcs[ix].end \in Nat
         /\ funcs[ix].start < funcs[ix].namepos /\ funcs[ix].namepos < funcs[ix].end
         /\ funcs[ix].end < pos
         /\ <<funcs[ix].start, funcs[ix].end>> \in Bodies
<1>1. IsTokenList(tokens) /\ FuncInv
  BY DEF ScanInv
<1>2. funcs[ix].start \in 1 .. Len(tokens) /\ funcs[ix].end \in 1 .. Len(tokens)
  BY <1>1 DEF FuncInv
<1>3. funcs[ix].start \in Nat /\ funcs[ix].end \in Nat
  BY <1>1, <1>2, ListEnds
<1> QED BY <1>1, <1>2, <1>3 DEF FuncInv

(* The bodies stay where they are. *)
LEMMA SameBodies ==
  ASSUME tokens' = tokens
  PROVE  Bodies' = Bodies
BY SMT DEF Bodies, Matches, LBrace, LPar, AtInline, SkipUntil, Skip, First,
           Level, Sym

(* A function that the scan has not found before is appended. *)
LEMMA FunctionInv ==
  ASSUME ScanInv, Function
  PROVE  ScanInv'
<1> DEFINE f == Found(pos)
<1>1. /\ phase = "scan" /\ StartsInline(pos) /\ Sym(LPar(pos) - 1) = "Ident"
      /\ funcs' = Append(funcs, f) /\ pos' = f.end + 1 /\ tokens' = tokens
      /\ phase' = IF Sym(f.end) = "EOF" THEN "overrun" ELSE "scan"
  BY DEF Function
<1>2. /\ IsTokenList(tokens) /\ funcs \in Seq(FuncType)
      /\ pos \in 1 .. Len(tokens)
  BY <1>1 DEF ScanInv, PosInv
<1>3. /\ f \in FuncType /\ f.start = pos /\ f.end \in 1 .. Len(tokens)
      /\ pos < f.namepos /\ f.namepos < f.end
      /\ Matches(LBrace(pos), f.end) \/ Sym(f.end) = "EOF"
      /\ \A q \in LBrace(pos) .. f.end - 1 : ~Matches(LBrace(pos), q)
  BY <1>1, <1>2, FoundInside
<1> HIDE DEF f
<1>4. Len(tokens) \in Nat /\ pos \in Nat /\ f.end \in Nat
  BY <1>2, <1>3, ListEnds
<1>5. PosInv'
  <2>1. Sym(f.end) = "EOF" <=> f.end = Len(tokens)
    BY <1>2, <1>3, ListEnds
  <2>2. pos' = f.end + 1 /\ Len(tokens') = Len(tokens)
    BY <1>1
  <2>3. CASE Sym(f.end) = "EOF"
    <3>1. phase' = "overrun"
      BY <1>1, <2>3
    <3> QED BY <2>1, <2>2, <2>3, <3>1 DEF PosInv
  <2>4. CASE Sym(f.end) # "EOF"
    <3>1. phase' = "scan"
      BY <1>1, <2>4
    <3>2. f.end + 1 \in 1 .. Len(tokens)
      BY <1>3, <1>4, <2>1, <2>4
    <3> QED BY <2>2, <3>1, <3>2 DEF PosInv
  <2> QED BY <2>3, <2>4
<1>6. /\ funcs' \in Seq(FuncType) /\ Len(funcs) \in Nat
      /\ Len(funcs') = Len(funcs) + 1 /\ funcs'[Len(funcs) + 1] = f
      /\ \A ix \in 1 .. Len(funcs) : funcs'[ix] = funcs[ix] /\ funcs[ix] \in FuncType
  BY <1>1, <1>2, <1>3
<1>7. \A ix \in 1 .. Len(funcs') : ix \in 1 .. Len(funcs) \/ ix = Len(funcs) + 1
  BY <1>6
<1>8. Bodies' = Bodies /\ Len(tokens') = Len(tokens)
  BY <1>1, SameBodies
<1>9. FuncInv'
  <2> SUFFICES ASSUME NEW ix \in 1 .. Len(funcs')
               PROVE  /\ funcs'[ix].start \in 1 .. Len(tokens)
                      /\ funcs'[ix].end \in 1 .. Len(tokens)
                      /\ funcs'[ix].start < funcs'[ix].namepos
                      /\ funcs'[ix].namepos < funcs'[ix].end
                      /\ funcs'[ix].end < pos'
                      /\ <<funcs'[ix].start, funcs'[ix].end>> \in Bodies
    BY <1>1, <1>8, Zenon DEF FuncInv
  <2>1. CASE ix \in 1 .. Len(funcs)
    <3>1. funcs'[ix] = funcs[ix] /\ funcs[ix] \in FuncType
      BY <1>6, <2>1
    <3>2. pos < pos'
      <4>1. f.namepos \in Nat
        BY <1>3 DEF FuncType
      <4> QED BY <1>1, <1>3, <1>4, <4>1
    <3>3. /\ funcs[ix].start \in 1 .. Len(tokens) /\ funcs[ix].end \in 1 .. Len(tokens)
          /\ funcs[ix].start < funcs[ix].namepos /\ funcs[ix].namepos < funcs[ix].end
          /\ funcs[ix].end < pos /\ funcs[ix].end \in Nat
          /\ <<funcs[ix].start, funcs[ix].end>> \in Bodies
      BY <1>1, <2>1, KnownFunc
    <3>4. funcs[ix].end < pos'
      <4>1. pos' \in Nat
        BY <1>1, <1>4
      <4>2. funcs[ix].end < pos /\ funcs[ix].end \in Nat
        BY <3>3
      <4> QED BY <1>4, <3>2, <4>1, <4>2
    <3> QED BY <3>1, <3>3, <3>4
  <2>2. CASE ix = Len(funcs) + 1
    <3>1. funcs'[ix] = f
      BY <1>6, <2>2
    <3>2. Matches(LBrace(pos), f.end) \/ f.end = Len(tokens)
      BY <1>2, <1>3, ListEnds
    <3>3. <<pos, f.end>> \in Bodies
      BY <1>2, <1>3, <3>2 DEF Bodies
    <3>4. f.end < pos' /\ pos \in 1 .. Len(tokens)
      BY <1>1, <1>2, <1>4
    <3> QED BY <1>3, <3>1, <3>3, <3>4
  <2> QED BY <1>7, <2>1, <2>2
<1>10. OrderInv'
  <2> SUFFICES ASSUME NEW ix \in 1 .. Len(funcs'), NEW j \in 1 .. Len(funcs'), ix < j
               PROVE  funcs'[ix].end < funcs'[j].start
    BY DEF OrderInv
  <2>1. ix \in 1 .. Len(funcs) /\ funcs'[ix] = funcs[ix]
    BY <1>6
  <2>2. CASE j \in 1 .. Len(funcs)
    BY <1>6, <2>1, <2>2 DEF ScanInv, OrderInv
  <2>3. CASE j = Len(funcs) + 1
    <3>1. funcs'[j].start = pos
      BY <1>3, <1>6, <2>3
    <3>2. funcs[ix].end < pos
      BY <2>1 DEF ScanInv, FuncInv
    <3> QED BY <2>1, <3>1, <3>2
  <2> QED BY <1>7, <2>2, <2>3
<1> QED BY <1>1, <1>2, <1>5, <1>6, <1>9, <1>10 DEF ScanInv

(* FindCalls changes nothing but the calls of each function. *)
LEMMA FindCallsInv ==
  ASSUME ScanInv, FindCalls
  PROVE  ScanInv'
<1> DEFINE calls(ix) == CallsIn(FuncNames, SkipUntil(funcs[ix].start, {"LBrace"}),
                               funcs[ix].end)
<1>1. /\ phase = "scanned" /\ phase' = "called" /\ tokens' = tokens /\ pos' = pos
      /\ funcs' = [ix \in 1 .. Len(funcs) |-> [funcs[ix] EXCEPT !.calls = calls(ix)]]
  BY DEF FindCalls
<1>2. /\ IsTokenList(tokens) /\ funcs \in Seq(FuncType) /\ Len(funcs) \in Nat
      /\ Len(tokens) \in Nat
  BY ListEnds DEF ScanInv
<1>3. ASSUME NEW ix \in 1 .. Len(funcs)
      PROVE  calls(ix) \in SUBSET Nat
  <2>1. funcs[ix] \in FuncType
    BY <1>2, ElementType
  <2>2. funcs[ix].start \in 1 .. Len(tokens) /\ funcs[ix].end \in Nat
    BY <2>1 DEF ScanInv, FuncInv, FuncType
  <2>3. SkipUntil(funcs[ix].start, {"LBrace"}) \in Nat
    BY <1>2, <2>2, SkipUntilStops
  <2> QED BY <2>2, <2>3 DEF CallsIn
<1> HIDE DEF calls
<1>4. ASSUME NEW ix \in 1 .. Len(funcs)
      PROVE  /\ funcs'[ix] \in FuncType
             /\ funcs'[ix].start = funcs[ix].start /\ funcs'[ix].end = funcs[ix].end
             /\ funcs'[ix].namepos = funcs[ix].namepos
  <2>1. funcs[ix] \in FuncType
    BY <1>2, ElementType
  <2>2. funcs'[ix] = [funcs[ix] EXCEPT !.calls = calls(ix)]
    BY <1>1
  <2> QED BY <1>3, <2>1, <2>2 DEF FuncType
<1>5. funcs' \in Seq(FuncType) /\ Len(funcs') = Len(funcs)
  <2>1. funcs' \in [1 .. Len(funcs) -> FuncType]
    BY <1>1, <1>4
  <2> QED BY <1>2, <2>1
<1>6. Bodies' = Bodies /\ Len(tokens') = Len(tokens)
  BY <1>1, SameBodies
<1>7. FuncInv'
  BY <1>1, <1>4, <1>5, <1>6 DEF ScanInv, FuncInv
<1>8. OrderInv'
  BY <1>4, <1>5 DEF ScanInv, OrderInv
<1> QED BY <1>1, <1>2, <1>5, <1>7, <1>8 DEF ScanInv, PosInv

(* The steps that only move on. *)
LEMMA MoveInv ==
  ASSUME ScanInv, tokens' = tokens, funcs' = funcs, phase # "overrun",
         phase' # "overrun", pos' \in pos .. Len(tokens)
  PROVE  ScanInv'
<1>1. /\ IsTokenList(tokens) /\ funcs \in Seq(FuncType) /\ Len(tokens) \in Nat
      /\ pos \in 1 .. Len(tokens)
  BY ListEnds DEF ScanInv, PosInv
<1>2. Bodies' = Bodies /\ Len(tokens') = Len(tokens)
  BY SameBodies
<1>3. PosInv'
  BY <1>1, <1>2 DEF PosInv
<1>4. FuncInv'
  <2>1. \A ix \in 1 .. Len(funcs) : funcs[ix].end < pos /\ funcs[ix].end \in Nat
    BY KnownFunc
  <2>2. \A ix \in 1 .. Len(funcs) : funcs[ix].end < pos'
    BY <1>1, <2>1
  <2> QED BY <1>2, <2>2 DEF ScanInv, FuncInv
<1>5. OrderInv'
  BY DEF ScanInv, OrderInv
<1> QED BY <1>1, <1>3, <1>4, <1>5 DEF ScanInv

(* ScanInv is inductive. *)
LEMMA ScanStepInv == ScanInv /\ [ScanNext]_<<tokens, scan, phase>> => ScanInv'
<1> SUFFICES ASSUME ScanInv, [ScanNext]_<<tokens, scan, phase>>
             PROVE  ScanInv'
  OBVIOUS
<1>1. IsTokenList(tokens) /\ Len(tokens) \in Nat
  BY ListEnds DEF ScanInv
<1>2. phase = "scan" => pos \in 1 .. Len(tokens)
  BY DEF ScanInv, PosInv
<1>3. CASE StepOn
  <2>1. /\ pos \in 1 .. Len(tokens) /\ Sym(pos) # "EOF"
        /\ phase = "scan" /\ phase' = "scan" /\ tokens' = tokens /\ funcs' = funcs
    BY <1>2, <1>3 DEF StepOn
  <2>2. Skip(pos + 1, SymsWS) \in pos + 1 .. Len(tokens) /\ pos < Len(tokens)
    BY <1>1, <2>1, SkipStops, ListEnds
  <2>3. pos' = pos + 1 \/ pos' = Skip(pos + 1, SymsWS)
    BY <1>3 DEF StepOn, AtInline
  <2>4. pos' \in pos .. Len(tokens)
    BY <1>1, <2>1, <2>2, <2>3
  <2> QED BY <2>1, <2>4, MoveInv
<1>4. CASE NoName
  <2>1. /\ pos \in 1 .. Len(tokens) /\ StartsInline(pos) /\ pos' = LPar(pos)
        /\ phase = "scan" /\ phase' = "scan" /\ tokens' = tokens /\ funcs' = funcs
    BY <1>2, <1>4 DEF NoName
  <2>2. pos' \in pos .. Len(tokens)
    BY <1>1, <2>1, Parts
  <2> QED BY <2>1, <2>2, MoveInv
<1>5. CASE Function
  BY <1>5, FunctionInv
<1>6. CASE EndOfFile
  <2>1. /\ pos' = pos /\ pos \in 1 .. Len(tokens)
        /\ phase = "scan" /\ phase' = "scanned" /\ tokens' = tokens /\ funcs' = funcs
    BY <1>2, <1>6 DEF EndOfFile
  <2> QED BY <1>1, <2>1, MoveInv
<1>7. CASE FindCalls
  BY <1>7, FindCallsInv
<1>8. CASE UNCHANGED <<tokens, scan, phase>>
  <2>1. pos' = pos /\ tokens' = tokens /\ funcs' = funcs /\ phase' = phase
    BY <1>8 DEF scan
  <2>2. Bodies' = Bodies
    BY <2>1, SameBodies
  <2> QED BY <2>1, <2>2 DEF ScanInv, PosInv, FuncInv, OrderInv
<1> QED BY <1>3, <1>4, <1>5, <1>6, <1>7, <1>8 DEF ScanNext, FindInlineFunctions

(* The scan keeps ScanInv, whatever the tokens are (FindInlineFunctions,   *)
(* analyzer.cc 50-94).                                                     *)
THEOREM ScanInvCorrect == ScanSpec => []ScanInv
<1>1. ScanInit => ScanInv
  BY ScanInitInv
<1>2. ScanInv /\ [ScanNext]_<<tokens, scan, phase>> => ScanInv'
  BY ScanStepInv
<1> QED BY <1>1, <1>2, PTL DEF ScanSpec

(* It is what FunctionsApart says: a function that ends with the file is   *)
(* the last thing the scan meets.                                          *)
LEMMA InvApart == ScanInv => FunctionsApart
<1> SUFFICES ASSUME ScanInv PROVE FunctionsApart
  OBVIOUS
<1>1. Len(tokens) \in Nat
  BY ListEnds DEF ScanInv
<1>2. ASSUME NEW ix \in 1 .. Len(funcs)
      PROVE  LET f == funcs[ix] IN
             /\ f.start < f.namepos /\ f.namepos < f.end /\ f.end <= Len(tokens)
             /\ \A q \in LBrace(f.start) .. f.end - 1 : ~Matches(LBrace(f.start), q)
             /\ \/ Matches(LBrace(f.start), f.end)
                \/ f.end = Len(tokens) /\ phase = "overrun"
  <2> DEFINE f == funcs[ix]
  <2>1. /\ f.start < f.namepos /\ f.namepos < f.end /\ f.end \in 1 .. Len(tokens)
        /\ f.end < pos /\ <<f.start, f.end>> \in Bodies
    BY KnownFunc
  <2> HIDE DEF f
  <2>2. /\ \A q \in LBrace(f.start) .. f.end - 1 : ~Matches(LBrace(f.start), q)
        /\ Matches(LBrace(f.start), f.end) \/ f.end = Len(tokens)
    BY <2>1 DEF Bodies
  <2>3. f.end = Len(tokens) => phase = "overrun"
    BY <1>1, <2>1 DEF ScanInv, PosInv
  <2>4. f.end <= Len(tokens)
    BY <1>1, <2>1
  <2> QED BY <2>1, <2>2, <2>3, <2>4 DEF f
<1> QED BY <1>2 DEF FunctionsApart, ScanInv, OrderInv

(* So the functions it finds are in order and apart, each up to the brace  *)
(* that matches, as RewriteSourceFile (rewrite.cc 217-238) takes them to   *)
(* be; only one whose brace has no match ends with the file (line 49 of    *)
(* analyzer.cc), and no other is found after it.                           *)
THEOREM FunctionsApartCorrect == ScanSpec => []FunctionsApart
BY ScanInvCorrect, InvApart, PTL

-----------------------------------------------------------------------------
(* The parts of the invariant of Rewrite. *)
TokenType == [sym : Symbol, str : Spelling]

(* Tokens that the program may put in between: ordinary ones, and #line    *)
(* directives, whose text is only known to be one.                         *)
PlainToken == [sym : Symbol \ {"EOF"}, str : Spelling]
LineTexts == {LineDirective(p).str : p \in 1 .. Len(tokens)}
Generated == PlainToken \cup [sym : {"PPOther"}, str : LineTexts]

OutType == [at : 0 .. Len(tokens), sym : Symbol, str : Spelling]
             \cup [at : {0}, sym : {"PPOther"}, str : LineTexts]

BlockType == [start : 1 .. Len(tokens), end : 1 .. Len(tokens) - 1,
              code : Seq(PlainToken)]

Scanning == {"scan", "overrun", "scanned", "called"}
Rewriting == {"update", "generate", "splice", "done"}

-----------------------------------------------------------------------------
(* The functions of the scan, when their tokens may have new texts. *)
Placed ==
    /\ funcs \in Seq(FuncType) /\ OrderInv
    /\ \A ix \in 1 .. Len(funcs) : LET f == funcs[ix] IN
          /\ f.start \in 1 .. Len(tokens) /\ f.end \in 1 .. Len(tokens)
          /\ f.start < f.end /\ Sym(f.end) = "RBrace"

(* The calls that are to be redirected. *)
SectionsFound ==
    \A p \in sections : p \in 1 .. Len(tokens) => Sym(p) = "Ident" /\ InSection(p)

OnlyCallsRenamed ==
    Len(tokens) = Len(given) /\ \A p \in 1 .. Len(given) : SameAs(tokens[p], p)

(* Blocks come in the order in which they go into the text, *)
BlocksInOrder ==
    /\ gen \in Seq(BlockType)
    /\ \A ix, j \in 1 .. Len(gen) : ix < j => gen[ix].end <= gen[j].end

(* and those that are still to come go behind them. *)
BlocksAhead ==
    /\ todo \subseteq 1 .. Len(funcs)
    /\ \A ix \in 1 .. Len(gen), j \in todo : gen[ix].end <= WideEnd(funcs[j])

(* The text o has the old tokens up to n, in order, each once. *)
HoldsUpto(o, n) ==
    /\ o \in Seq(OutType)
    /\ \A k \in 1 .. Len(o) : o[k].at <= n
    /\ \A p \in 1 .. n : \E k \in 1 .. Len(o) : o[k].at = p
    /\ \A k, l \in 1 .. Len(o) :
          k < l /\ o[k].at # 0 /\ o[l].at # 0 => o[k].at < o[l].at
    /\ \A k \in 1 .. Len(o) : o[k].at # 0 => o[k] = Label(o[k].at, tokens[o[k].at])
    /\ \A k \in 1 .. Len(o) : o[k].sym = "EOF" => o[k].at = Len(tokens)

SpliceInv ==
    /\ todo \subseteq 1 .. Len(gen) /\ copied \in 0 .. Len(tokens) - 1
    /\ \A ix \in todo : copied <= gen[ix].end
    /\ HoldsUpto(out, copied)

DoneInv == /\ HoldsUpto(out, Len(tokens))
           /\ Len(out) > 0 /\ out[Len(out)].at = Len(tokens)

(* What each phase leaves to the next. *)
IInv ==
    /\ phase \in Scanning \cup Rewriting
    /\ IsTokenList(tokens) /\ IsTokenList(given)
    /\ phase \in Scanning => tokens = given /\ ScanInv
    /\ phase \in Rewriting => Placed
    /\ phase = "update" => tokens = given /\ SectionsFound
    /\ phase \in {"generate", "splice", "done"} => OnlyCallsRenamed
    /\ phase \in Scanning \cup {"update"} => gen = <<>>
    /\ phase \in {"generate", "splice"} => BlocksInOrder
    /\ phase = "generate" => BlocksAhead
    /\ phase \notin {"splice", "done"} => copied = 0
    /\ phase = "splice" => SpliceInv
    /\ phase = "done" => DoneInv /\ copied = Len(tokens)

-----------------------------------------------------------------------------
(* Where the text of a function begins and ends. *)
LEMMA FirstLeast ==
  ASSUME NEW S \in SUBSET Nat, NEW q \in S
  PROVE  First(S) \in S /\ First(S) <= q
BY LeastExists DEF First

(* WideEnd is behind the function and before EOF, *)
LEMMA WideEndInside ==
  ASSUME IsTokenList(tokens), NEW f, f.end \in 1 .. Len(tokens), Sym(f.end) # "EOF"
  PROVE  WideEnd(f) \in f.end .. Len(tokens) - 1
<1> DEFINE S == {q \in f.end + 1 .. Len(tokens) : Sym(q) \notin {"WS"}}
           next == First(S)
<1>1. /\ Len(tokens) \in Nat /\ Sym(Len(tokens)) = "EOF"
      /\ f.end \in Nat /\ f.end < Len(tokens)
  BY ListEnds
<1>2. Len(tokens) \in S /\ S \in SUBSET Nat
  BY <1>1
<1>3. next \in f.end + 1 .. Len(tokens)
  BY <1>2, FirstIn
<1>4. WideEnd(f) = IF Sym(next) = "EOL" THEN next ELSE next - 1
  BY DEF WideEnd, Skip
<1> HIDE DEF next
<1>5. CASE Sym(next) = "EOL"
  <2>1. next # Len(tokens)
    BY <1>1, <1>5
  <2> QED BY <1>1, <1>3, <1>4, <1>5, <2>1
<1>6. CASE Sym(next) # "EOL"
  BY <1>1, <1>3, <1>4, <1>6
<1> QED BY <1>5, <1>6

(* and before the end of every later function. *)
LEMMA WideEndBefore ==
  ASSUME IsTokenList(tokens), NEW f, f.end \in 1 .. Len(tokens),
         NEW q \in 1 .. Len(tokens), Sym(q) = "RBrace", f.end < q
  PROVE  WideEnd(f) <= q
<1> DEFINE S == {r \in f.end + 1 .. Len(tokens) : Sym(r) \notin {"WS"}}
           next == First(S)
<1>1. Len(tokens) \in Nat /\ f.end \in Nat /\ q \in Nat
  BY ListEnds
<1>2. q \in S /\ S \in SUBSET Nat
  BY <1>1
<1>3. next \in S /\ next <= q
  <2> HIDE DEF S
  <2> QED BY <1>2, FirstLeast
<1>4. next \in Nat
  BY <1>1, <1>3
<1>5. WideEnd(f) = IF Sym(next) = "EOL" THEN next ELSE next - 1
  BY DEF WideEnd, Skip
<1> HIDE DEF next
<1> QED BY <1>1, <1>3, <1>4, <1>5

LEMMA WideStartInside ==
  ASSUME NEW f, f.start \in Nat \ {0}
  PROVE  WideStart(f) \in 1 .. f.start
<1> DEFINE S == {p \in 1 .. f.start : \A q \in p .. f.start - 1 : Sym(q) = "WS"}
<1>1. f.start \in S /\ S \in SUBSET Nat
  OBVIOUS
<1>2. First(S) \in S
  BY <1>1, FirstIn
<1> QED BY <1>2 DEF WideStart

-----------------------------------------------------------------------------
(* Renaming tokens. *)
LEMMA UnsafeNameType ==
  ASSUME NEW n \in Spelling
  PROVE  UnsafeName(n) \in Spelling
<1> DEFINE prefix == IF Mixed(n) THEN "Unsafe" ELSE "UNSAFE_"
<1> DEFINE W == STRING \cup {"UNSAFE_", "Unsafe", "#ifdef",
                            "#else", "#define", "#endif", "line", "U"}
<1>1. prefix \in W /\ Spelling = Seq(W)
  BY DEF Spelling
<1>2. UnsafeName(n) = IF n[1] = prefix THEN n ELSE <<prefix>> \o n
  BY DEF UnsafeName
<1> HIDE DEF prefix, W
<1>3. <<prefix>> \o n \in Spelling
  <2>1. <<prefix>> \in Seq(W) /\ n \in Seq(W)
    BY <1>1
  <2>2. <<prefix>> \o n \in Seq(W)
    BY <2>1
  <2> QED BY <1>1, <2>2
<1> QED BY <1>2, <1>3

LEMMA RenamedType ==
  ASSUME NEW ts \in Seq(TokenType), NEW S
  PROVE  /\ Renamed(ts, S) \in Seq(TokenType) /\ Len(Renamed(ts, S)) = Len(ts)
         /\ \A p \in 1 .. Len(ts) :
               /\ Renamed(ts, S)[p].sym = ts[p].sym
               /\ Renamed(ts, S)[p].str # ts[p].str =>
                     p \in S /\ Renamed(ts, S)[p].str = UnsafeName(ts[p].str)
<1> DEFINE new(p) == IF p \in S /\ ts[p].str \in used
                     THEN Token(ts[p].sym, UnsafeName(ts[p].str)) ELSE ts[p]
<1>1. Renamed(ts, S) = [p \in 1 .. Len(ts) |-> new(p)]
  BY DEF Renamed
<1>2. ASSUME NEW p \in 1 .. Len(ts)
      PROVE  /\ new(p) \in TokenType /\ new(p).sym = ts[p].sym
             /\ new(p).str # ts[p].str =>
                   p \in S /\ new(p).str = UnsafeName(ts[p].str)
  <2>1. ts[p] \in TokenType
    BY ElementType
  <2>2. UnsafeName(ts[p].str) \in Spelling
    BY <2>1, UnsafeNameType DEF TokenType
  <2> QED BY <2>1, <2>2 DEF TokenType, Token
<1> HIDE DEF new
<1>3. Renamed(ts, S) \in [1 .. Len(ts) -> TokenType]
  BY <1>1, <1>2
<1>4. Renamed(ts, S) \in Seq(TokenType) /\ Len(Renamed(ts, S)) = Len(ts)
  BY <1>3
<1> QED BY <1>1, <1>2, <1>4

LEMMA TokenListType ==
  ASSUME NEW ts, IsTokenList(ts)
  PROVE  /\ ts \in Seq(TokenType) /\ Len(ts) \in Nat \ {0}
         /\ \A p \in 1 .. Len(ts) : ts[p].sym = "EOF" <=> p = Len(ts)
BY DEF IsTokenList, TokenType

LEMMA PlainTokens ==
  /\ nl \in PlainToken
  /\ \A n \in Spelling : Token("PPOther", n) \in PlainToken
<1>1. <<>> \in Spelling
  BY DEF Spelling
<1>2. {"EOL", "PPOther"} \subseteq Symbol \ {"EOF"}
  BY DEF Symbol
<1> QED BY <1>1, <1>2 DEF PlainToken, Token, nl

LEMMA PlainPart ==
  ASSUME NEW ts, IsTokenList(ts), NEW m \in 1 .. Len(ts), NEW n \in m .. Len(ts) - 1
  PROVE  /\ SubSeq(ts, m, n) \in Seq(PlainToken)
         /\ Len(SubSeq(ts, m, n)) = n - m + 1
<1>1. ts \in Seq(TokenType) /\ Len(ts) \in Nat \ {0}
      /\ \A p \in 1 .. Len(ts) : ts[p].sym = "EOF" <=> p = Len(ts)
  BY TokenListType
<1>2. SubSeq(ts, m, n) = [k \in 1 .. n - m + 1 |-> ts[m + k - 1]]
  BY <1>1
<1>3. ASSUME NEW k \in 1 .. n - m + 1
      PROVE  ts[m + k - 1] \in PlainToken
  <2>1. m + k - 1 \in 1 .. Len(ts) /\ m + k - 1 # Len(ts)
    BY <1>1
  <2>2. ts[m + k - 1] \in TokenType /\ ts[m + k - 1].sym # "EOF"
    BY <1>1, <2>1, ElementType
  <2> QED BY <2>2 DEF TokenType, PlainToken
<1>4. SubSeq(ts, m, n) \in [1 .. n - m + 1 -> PlainToken]
  BY <1>2, <1>3
<1> DEFINE c == n - m + 1
<1>5. c \in Nat
  BY <1>1
<1> DEFINE s == SubSeq(ts, m, n)
<1>6. s \in [1 .. c -> PlainToken]
  BY <1>4
<1> HIDE DEF c, s
<1>7. s \in Seq(PlainToken) /\ Len(s) = c
  BY <1>5, <1>6
<1> QED BY <1>7 DEF c, s

LEMMA RenamedList ==
  ASSUME NEW ts, IsTokenList(ts), NEW S
  PROVE  IsTokenList(Renamed(ts, S)) /\ Len(Renamed(ts, S)) = Len(ts)
<1>1. ts \in Seq(TokenType) /\ Len(ts) > 0
      /\ \A p \in 1 .. Len(ts) : ts[p].sym = "EOF" <=> p = Len(ts)
  BY DEF IsTokenList, TokenType
<1>2. /\ Renamed(ts, S) \in Seq(TokenType) /\ Len(Renamed(ts, S)) = Len(ts)
      /\ \A p \in 1 .. Len(ts) : Renamed(ts, S)[p].sym = ts[p].sym
  BY <1>1, RenamedType
<1> QED BY <1>1, <1>2 DEF IsTokenList, TokenType

-----------------------------------------------------------------------------
(* What is put in between. *)
LEMMA Concat ==
  ASSUME NEW T, NEW s \in Seq(T), NEW t \in Seq(T)
  PROVE  /\ s \o t \in Seq(T) /\ Len(s \o t) = Len(s) + Len(t)
         /\ Len(s) \in Nat /\ Len(t) \in Nat
         /\ \A k \in 1 .. Len(s) : (s \o t)[k] = s[k]
         /\ \A k \in 1 .. Len(t) : (s \o t)[Len(s) + k] = t[k]
OBVIOUS

LEMMA OneElement ==
  ASSUME NEW T, NEW x \in T
  PROVE  <<x>> \in Seq(T)
OBVIOUS

LEMMA WordType ==
  ASSUME NEW w \in {"#ifdef", "#else", "#define", "#endif", "line", "U"}
  PROVE  <<w>> \in Spelling
<1> DEFINE W == STRING \cup {"UNSAFE_", "Unsafe", "#ifdef",
                            "#else", "#define", "#endif", "line", "U"}
<1>1. w \in W /\ Spelling = Seq(W)
  BY DEF Spelling
<1> HIDE DEF W
<1>2. <<w>> \in Seq(W)
  BY <1>1, OneElement
<1> QED BY <1>1, <1>2

LEMMA CodeType ==
  ASSUME IsTokenList(tokens), NEW f, f.start \in 1 .. Len(tokens),
         f.end \in 1 .. Len(tokens), f.start < f.end, Sym(f.end) # "EOF",
         f.name \in Spelling
  PROVE  unsafe_code(f) \in Seq(PlainToken)
<1> DEFINE ts == Renamed(tokens, CallPositions(f))
           copy == SubSeq(ts, WideStart(f), WideEnd(f))
           head == Token("PPOther", <<"#ifdef">>)
           mid == Token("PPOther", <<"#else">>)
           define == Token("PPOther", <<"#define">> \o UnsafeName(f.name))
           last == Token("PPOther", <<"#endif">>)
           rest == IF copy[Len(copy)].sym = "EOL" THEN <<>> ELSE <<nl>>
<1>1. Len(tokens) \in Nat
  BY ListEnds
<1>2. WideStart(f) \in 1 .. f.start /\ WideEnd(f) \in f.end .. Len(tokens) - 1
  BY <1>1, WideStartInside, WideEndInside
<1>3. IsTokenList(ts) /\ Len(ts) = Len(tokens)
  BY RenamedList
<1>4. copy \in Seq(PlainToken)
  <2> HIDE DEF ts
  <2>1. WideStart(f) \in 1 .. Len(ts) /\ WideEnd(f) \in WideStart(f) .. Len(ts) - 1
    BY <1>1, <1>2, <1>3
  <2> QED BY <1>3, <2>1, PlainPart
<1>5. head \in PlainToken /\ mid \in PlainToken /\ last \in PlainToken
  <2>1. /\ <<"#ifdef">> \in Spelling
        /\ <<"#else">> \in Spelling /\ <<"#endif">> \in Spelling
    BY WordType
  <2> QED BY <2>1, PlainTokens
<1>6. define \in PlainToken
  <2>1. <<"#define">> \in Spelling
    BY WordType
  <2>2. UnsafeName(f.name) \in Spelling
    BY UnsafeNameType
  <2>3. <<"#define">> \o UnsafeName(f.name) \in Spelling
    BY <2>1, <2>2, Concat DEF Spelling
  <2> QED BY <2>3, PlainTokens
<1>7. unsafe_code(f) = <<head>> \o copy \o rest \o <<mid, define, last>>
  BY DEF unsafe_code
<1> HIDE DEF copy, head, mid, define, last
<1>8. rest \in Seq(PlainToken)
  BY PlainTokens
<1> HIDE DEF rest
<1>9. <<head>> \in Seq(PlainToken) /\ <<mid, define, last>> \in Seq(PlainToken)
  BY <1>5, <1>6
<1>10. <<head>> \o copy \in Seq(PlainToken)
  BY <1>4, <1>9, Concat
<1>11. <<head>> \o copy \o rest \in Seq(PlainToken)
  BY <1>8, <1>10, Concat
<1>12. <<head>> \o copy \o rest \o <<mid, define, last>> \in Seq(PlainToken)
  BY <1>9, <1>11, Concat
<1> QED BY <1>7, <1>12

LEMMA LineDirType ==
  ASSUME NEW p \in 1 .. Len(tokens)
  PROVE  LineDir(p) \in Seq(Generated)
<1>1. LineDirective(p) \in Generated
  <2>1. LineDirective(p) = [sym |-> "PPOther", str |-> LineDirective(p).str]
    BY DEF LineDirective, Token
  <2>2. LineDirective(p).str \in LineTexts
    BY DEF LineTexts
  <2> HIDE DEF LineTexts
  <2> QED BY <2>1, <2>2 DEF Generated
<1>2. nl \in Generated
  BY PlainTokens DEF Generated
<1>3. <<LineDirective(p)>> \in Seq(Generated) /\ <<nl, LineDirective(p)>> \in Seq(Generated)
  BY <1>1, <1>2
<1>4. <<>> \in Seq(Generated)
  OBVIOUS
<1> QED BY <1>3, <1>4 DEF LineDir

(* A generated token is labelled 0, and is not EOF. *)
LEMMA LabelGenerated ==
  ASSUME NEW t \in Generated, Len(tokens) \in Nat
  PROVE  Label(0, t) \in OutType /\ Label(0, t).at = 0 /\ Label(0, t).sym # "EOF"
<1>1. CASE t \in PlainToken
  BY <1>1 DEF PlainToken, OutType, Label
<1>2. CASE t \in [sym : {"PPOther"}, str : LineTexts]
  BY <1>2 DEF OutType, Label
<1> QED BY <1>1, <1>2 DEF Generated

LEMMA NewType ==
  ASSUME NEW ts \in Seq(Generated), Len(tokens) \in Nat
  PROVE  /\ New(ts) \in Seq(OutType) /\ Len(New(ts)) = Len(ts)
         /\ \A k \in 1 .. Len(ts) : New(ts)[k].at = 0 /\ New(ts)[k].sym # "EOF"
<1> DEFINE s == New(ts)
<1>1. s = [k \in 1 .. Len(ts) |-> Label(0, ts[k])] /\ Len(ts) \in Nat
  BY DEF New
<1>2. ASSUME NEW k \in 1 .. Len(ts)
      PROVE  s[k] \in OutType /\ s[k].at = 0 /\ s[k].sym # "EOF"
  <2>1. ts[k] \in Generated
    BY ElementType
  <2>2. s[k] = Label(0, ts[k])
    BY <1>1
  <2> QED BY <2>1, <2>2, LabelGenerated
<1> HIDE DEF s
<1>3. s \in [1 .. Len(ts) -> OutType]
  BY <1>1, <1>2
<1>4. s \in Seq(OutType) /\ Len(s) = Len(ts)
  BY <1>1, <1>3
<1> QED BY <1>2, <1>4 DEF s

LEMMA KeptType ==
  ASSUME IsTokenList(tokens), NEW n \in 0 .. Len(tokens), NEW m \in n .. Len(tokens)
  PROVE  /\ Kept(n + 1, m) \in Seq(OutType) /\ Len(Kept(n + 1, m)) = m - n
         /\ \A k \in 1 .. m - n :
               Kept(n + 1, m)[k] = Label(n + k, tokens[n + k])
<1> DEFINE s == Kept(n + 1, m)
           c == m - n
<1>1. Len(tokens) \in Nat /\ n \in Nat /\ m \in Nat /\ c \in Nat
  BY ListEnds
<1>2. s = [k \in 1 .. c |-> Label(n + k, tokens[n + k])]
  <2>1. m - (n + 1) + 1 = c /\ \A k \in 1 .. c : n + 1 + k - 1 = n + k
    BY <1>1
  <2> QED BY <2>1 DEF Kept
<1>3. ASSUME NEW k \in 1 .. c
      PROVE  Label(n + k, tokens[n + k]) \in OutType
  <2>1. n + k \in 1 .. Len(tokens) /\ n + k \in 0 .. Len(tokens)
    BY <1>1
  <2>2. tokens[n + k] \in TokenType
    BY <2>1, TokenListType, ElementType
  <2> QED BY <2>1, <2>2 DEF OutType, Label, TokenType
<1> HIDE DEF s, c
<1>4. s \in [1 .. c -> OutType]
  BY <1>2, <1>3
<1>5. s \in Seq(OutType) /\ Len(s) = c
  BY <1>1, <1>4
<1> QED BY <1>2, <1>5 DEF s, c

-----------------------------------------------------------------------------
(* The text grows. *)
LEMMA KeptHolds ==
  ASSUME IsTokenList(tokens), NEW n \in 0 .. Len(tokens), NEW m \in n .. Len(tokens),
         NEW o, HoldsUpto(o, n)
  PROVE  HoldsUpto(o \o Kept(n + 1, m), m)
<1> DEFINE s == Kept(n + 1, m)
           u == o \o s
<1>1. Len(tokens) \in Nat /\ n \in Nat /\ m \in Nat /\ n <= m
  BY ListEnds
<1>2. /\ s \in Seq(OutType) /\ Len(s) = m - n
      /\ \A k \in 1 .. m - n : s[k] = Label(n + k, tokens[n + k])
  BY KeptType
<1>3. o \in Seq(OutType) /\ Len(o) \in Nat
  BY DEF HoldsUpto
<1> HIDE DEF s
<1>4. /\ u \in Seq(OutType) /\ Len(u) = Len(o) + (m - n)
      /\ \A k \in 1 .. Len(o) : u[k] = o[k]
      /\ \A k \in 1 .. m - n : u[Len(o) + k] = s[k]
  <2>2. PICK T : T = OutType
    OBVIOUS
  <2>3. o \in Seq(T) /\ s \in Seq(T)
    BY <1>2, <1>3, <2>2
  <2>4. /\ u \in Seq(T) /\ Len(u) = Len(o) + Len(s)
        /\ \A k \in 1 .. Len(o) : u[k] = o[k]
        /\ \A k \in 1 .. Len(s) : u[Len(o) + k] = s[k]
    BY <2>3, Concat
  <2>1. /\ u \in Seq(OutType) /\ Len(u) = Len(o) + Len(s)
        /\ \A k \in 1 .. Len(o) : u[k] = o[k]
        /\ \A k \in 1 .. Len(s) : u[Len(o) + k] = s[k]
    BY <2>2, <2>4
  <2> QED BY <1>2, <2>1
<1>5. ASSUME NEW k \in 1 .. Len(u)
      PROVE  k \in 1 .. Len(o) \/ \E j \in 1 .. m - n : k = Len(o) + j
  <2>1. k - Len(o) \in 1 .. m - n \/ k \in 1 .. Len(o)
    BY <1>1, <1>3, <1>4
  <2>2. k = Len(o) + (k - Len(o))
    BY <1>3
  <2> QED BY <2>1, <2>2
<1> HIDE DEF u
<1>6. ASSUME NEW j \in 1 .. m - n
      PROVE  /\ u[Len(o) + j] = Label(n + j, tokens[n + j])
             /\ u[Len(o) + j].at = n + j /\ u[Len(o) + j].sym = Sym(n + j)
             /\ n + j \in n + 1 .. m
  <2>1. u[Len(o) + j] = Label(n + j, tokens[n + j])
    BY <1>2, <1>4
  <2>2. n + j \in n + 1 .. m
    BY <1>1
  <2> HIDE DEF Label
  <2>3. /\ Label(n + j, tokens[n + j]).at = n + j
        /\ Label(n + j, tokens[n + j]).sym = Sym(n + j)
    BY DEF Label, Sym
  <2> QED BY <2>1, <2>2, <2>3
<1>7. ASSUME NEW k \in 1 .. Len(u)
      PROVE  /\ u[k].at <= m
             /\ u[k].at # 0 => u[k] = Label(u[k].at, tokens[u[k].at])
             /\ u[k].sym = "EOF" => u[k].at = Len(tokens)
  <2>1. CASE k \in 1 .. Len(o)
    <3>1. o[k].at \in Nat
      <4>1. o[k] \in OutType
        BY <1>3, <2>1, ElementType
      <4> QED BY <1>1, <4>1 DEF OutType
    <3> QED BY <1>1, <1>4, <2>1, <3>1 DEF HoldsUpto
  <2>2. CASE \E j \in 1 .. m - n : k = Len(o) + j
    <3>1. PICK j \in 1 .. m - n : k = Len(o) + j
      BY <2>2
    <3>2. n + j \in 1 .. Len(tokens) /\ (Sym(n + j) = "EOF" => n + j = Len(tokens))
      BY <1>1, ListEnds
    <3> QED BY <1>1, <1>6, <3>1, <3>2
  <2> QED BY <1>5, <2>1, <2>2
<1>8. ASSUME NEW p \in 1 .. m
      PROVE  \E k \in 1 .. Len(u) : u[k].at = p
  <2>1. CASE p \in 1 .. n
    <3>1. PICK k \in 1 .. Len(o) : o[k].at = p
      BY <2>1 DEF HoldsUpto
    <3>2. k \in 1 .. Len(u) /\ u[k].at = p
      BY <1>1, <1>3, <1>4, <3>1
    <3> QED BY <3>2
  <2>2. CASE p \notin 1 .. n
    <3> DEFINE j == p - n
    <3>1. j \in 1 .. m - n /\ n + j = p
      BY <1>1, <2>2
    <3>2. Len(o) + j \in 1 .. Len(u)
      BY <1>1, <1>3, <1>4, <3>1
    <3>3. u[Len(o) + j].at = n + j
      BY <1>6, <3>1
    <3> QED BY <3>1, <3>2, <3>3
  <2> QED BY <2>1, <2>2
<1>9. ASSUME NEW k \in 1 .. Len(u), NEW l \in 1 .. Len(u), k < l,
             u[k].at # 0, u[l].at # 0
      PROVE  u[k].at < u[l].at
  <2>1. CASE l \in 1 .. Len(o)
    <3>1. k \in 1 .. Len(o)
      BY <1>3, <1>9, <2>1
    <3> QED BY <1>4, <1>9, <2>1, <3>1 DEF HoldsUpto
  <2>2. CASE \E j \in 1 .. m - n : l = Len(o) + j
    <3>1. PICK j \in 1 .. m - n : l = Len(o) + j
      BY <2>2
    <3>2. u[l].at = n + j /\ n < n + j
      BY <1>1, <1>6, <3>1
    <3>3. CASE k \in 1 .. Len(o)
      <4>1. u[k].at = o[k].at /\ o[k].at <= n
        BY <1>4, <3>3 DEF HoldsUpto
      <4>2. o[k].at \in Nat
        <5>1. o[k] \in OutType
          BY <1>3, <3>3, ElementType
        <5> QED BY <1>1, <5>1 DEF OutType
      <4> QED BY <1>1, <3>2, <4>1, <4>2
    <3>4. CASE \E ix \in 1 .. m - n : k = Len(o) + ix
      <4>1. PICK ix \in 1 .. m - n : k = Len(o) + ix
        BY <3>4
      <4>2. u[k].at = n + ix /\ ix < j
        BY <1>1, <1>3, <1>6, <1>9, <3>1, <4>1
      <4> QED BY <1>1, <3>2, <4>2
    <3> QED BY <1>5, <3>3, <3>4
  <2> QED BY <1>5, <2>1, <2>2
<1>10. HoldsUpto(u, m)
  BY <1>4, <1>7, <1>8, <1>9 DEF HoldsUpto
<1> QED BY <1>10 DEF u, s

LEMMA NewHolds ==
  ASSUME Len(tokens) \in Nat, NEW n \in Nat, NEW o, HoldsUpto(o, n),
         NEW ts \in Seq(Generated)
  PROVE  HoldsUpto(o \o New(ts), n)
<1> DEFINE s == New(ts)
           u == o \o s
<1>1. /\ s \in Seq(OutType) /\ Len(s) = Len(ts) /\ Len(ts) \in Nat
      /\ \A k \in 1 .. Len(ts) : s[k].at = 0 /\ s[k].sym # "EOF"
  BY NewType
<1>2. o \in Seq(OutType) /\ Len(o) \in Nat
  BY DEF HoldsUpto
<1> HIDE DEF s
<1>3. /\ u \in Seq(OutType) /\ Len(u) = Len(o) + Len(ts)
      /\ \A k \in 1 .. Len(o) : u[k] = o[k]
      /\ \A k \in 1 .. Len(ts) : u[Len(o) + k] = s[k]
  <2>2. PICK T : T = OutType
    OBVIOUS
  <2>3. o \in Seq(T) /\ s \in Seq(T)
    BY <1>1, <1>2, <2>2
  <2>4. /\ u \in Seq(T) /\ Len(u) = Len(o) + Len(s)
        /\ \A k \in 1 .. Len(o) : u[k] = o[k]
        /\ \A k \in 1 .. Len(s) : u[Len(o) + k] = s[k]
    BY <2>3, Concat
  <2>1. /\ u \in Seq(OutType) /\ Len(u) = Len(o) + Len(s)
        /\ \A k \in 1 .. Len(o) : u[k] = o[k]
        /\ \A k \in 1 .. Len(s) : u[Len(o) + k] = s[k]
    BY <2>2, <2>4
  <2> QED BY <1>1, <2>1
<1> HIDE DEF u
<1>4. ASSUME NEW k \in 1 .. Len(u), k \notin 1 .. Len(o)
      PROVE  u[k].at = 0 /\ u[k].sym # "EOF"
  <2> DEFINE j == k - Len(o)
  <2>1. j \in 1 .. Len(ts) /\ Len(o) + j = k
    BY <1>1, <1>2, <1>3, <1>4
  <2> HIDE DEF j
  <2>2. u[Len(o) + j] = s[j]
    BY <1>3, <2>1
  <2> QED BY <1>1, <2>1, <2>2
<1>5. ASSUME NEW k \in 1 .. Len(u)
      PROVE  /\ u[k].at <= n
             /\ u[k].at # 0 => u[k] = Label(u[k].at, tokens[u[k].at])
             /\ u[k].sym = "EOF" => u[k].at = Len(tokens)
  BY <1>3, <1>4 DEF HoldsUpto
<1>6. ASSUME NEW p \in 1 .. n
      PROVE  \E k \in 1 .. Len(u) : u[k].at = p
  <2>1. PICK k \in 1 .. Len(o) : o[k].at = p
    BY DEF HoldsUpto
  <2>2. k \in 1 .. Len(u) /\ u[k].at = p
    <3>1. Len(o) \in Nat /\ Len(ts) \in Nat /\ Len(u) = Len(o) + Len(ts)
      BY <1>1, <1>2, <1>3
    <3>2. k \in 1 .. Len(u)
      BY <2>1, <3>1
    <3>3. u[k] = o[k]
      BY <1>3, <2>1
    <3> QED BY <2>1, <3>2, <3>3
  <2> QED BY <2>2
<1>7. ASSUME NEW k \in 1 .. Len(u), NEW l \in 1 .. Len(u), k < l,
             u[k].at # 0, u[l].at # 0
      PROVE  u[k].at < u[l].at
  <2>1. k \in 1 .. Len(o) /\ l \in 1 .. Len(o)
    BY <1>4, <1>7
  <2> QED BY <1>3, <1>7, <2>1 DEF HoldsUpto
<1>8. HoldsUpto(u, n)
  BY <1>3, <1>5, <1>6, <1>7 DEF HoldsUpto
<1> QED BY <1>8 DEF u, s

LEMMA NothingHeld ==
  ASSUME Len(tokens) \in Nat
  PROVE  HoldsUpto(<<>>, 0)
BY DEF HoldsUpto

-----------------------------------------------------------------------------
(* The next run reads the text. *)
LEMMA NatInd ==
  ASSUME NEW S, 0 \in S, \A n \in Nat : n \in S => n + 1 \in S
  PROVE  \A n \in Nat : n \in S
<1> SUFFICES ASSUME Nat \ S # {} PROVE FALSE
  OBVIOUS
<1>1. PICK n \in Nat \ S : \A q \in Nat \ S : n <= q
  BY LeastExists
<1>2. n - 1 \in Nat /\ ~(n <= n - 1)
  BY <1>1
<1>3. n - 1 \in S
  BY <1>1, <1>2
<1>4. n - 1 + 1 = n
  BY <1>1
<1> QED BY <1>1, <1>2, <1>3, <1>4

(* Each token is read as one or more, *)
ReadAs(r, t) ==
    /\ r \in Seq(TokenType) /\ Len(r) > 0
    /\ \A p \in 1 .. Len(r) : r[p].sym = "EOF" <=> t.sym = "EOF"
    /\ t.sym = "EOF" => Len(r) = 1

LEMMA RelexType ==
  ASSUME NEW t \in OutType
  PROVE  ReadAs(Relex(Token(t.sym, t.str)), t)
<1> DEFINE token == Token(t.sym, t.str)
<1>1. token.sym = t.sym /\ token.str = t.str
  BY DEF Token
<1>2. /\ t.sym \in Symbol
      /\ t.str \in Spelling \/ (t.sym = "PPOther" /\ t.str \in LineTexts)
  BY DEF OutType, Symbol
<1>3. ASSUME NEW sym \in Symbol \ {"EOF"}, NEW str \in Spelling, t.sym # "EOF"
      PROVE  /\ ReadAs(<<Token(sym, str)>>, t)
             /\ ReadAs(<<Token(sym, str), nl>>, t)
  <2>1. Token(sym, str) \in TokenType /\ nl \in TokenType
    BY PlainTokens DEF Token, TokenType, PlainToken
  <2>2. Token(sym, str).sym # "EOF" /\ nl.sym # "EOF"
    BY <1>3 DEF Token, nl
  <2> HIDE DEF Token
  <2> QED BY <1>3, <2>1, <2>2 DEF ReadAs
<1>4. <<>> \in Spelling /\ <<"line">> \in Spelling
      /\ {"PPIf", "PPElse", "PPEndif", "PPDef", "PPOther"} \subseteq Symbol \ {"EOF"}
  BY WordType DEF Symbol, Spelling
<1>5. CASE t.str \in Spelling
  <2>1. ReadAs(<<token>>, t)
    BY <1>1, <1>2, <1>5 DEF ReadAs, Token, TokenType
  <2> HIDE DEF token
  <2>2. CASE t.sym # "PPOther"
    BY <1>1, <2>1, <2>2 DEF Relex, token
  <2>3. CASE t.sym = "PPOther"
    <3>1. /\ ReadAs(<<Token("PPIf", <<>>), nl>>, t)
          /\ ReadAs(<<Token("PPElse", <<>>), nl>>, t)
          /\ ReadAs(<<Token("PPEndif", <<>>), nl>>, t)
          /\ ReadAs(<<Token("PPDef", <<>>), nl>>, t)
          /\ ReadAs(<<Token("PPOther", <<"line">>), nl>>, t)
      BY <1>3, <1>4, <2>3
    <3>2. \/ Relex(token) = <<token>>
          \/ Relex(token) = <<Token("PPIf", <<>>), nl>>
          \/ Relex(token) = <<Token("PPElse", <<>>), nl>>
          \/ Relex(token) = <<Token("PPEndif", <<>>), nl>>
          \/ Relex(token) = <<Token("PPDef", <<>>), nl>>
          \/ Relex(token) = <<Token("PPOther", <<"line">>), nl>>
      BY <1>1, <2>3 DEF Relex
    <3> QED BY <2>1, <3>1, <3>2 DEF token
  <2> QED BY <2>2, <2>3
<1>6. CASE t.sym = "PPOther" /\ t.str \in LineTexts
  <2>1. PICK p \in 1 .. Len(tokens) : t.str = <<"#line", Numeral(Lineno(p))>>
    BY <1>6 DEF LineTexts, LineDirective, Token
  <2>2. Relex(token) = <<Token("PPOther", <<"line">>), nl>>
    <3> HIDE DEF token
    <3> QED BY <1>1, <1>6, <2>1 DEF Relex
  <2>3. ReadAs(<<Token("PPOther", <<"line">>), nl>>, t)
    BY <1>3, <1>4, <1>6
  <2> QED BY <2>2, <2>3
<1> QED BY <1>2, <1>5, <1>6

(* and none is a line that a run has made; *)
Unmade(ts) == \A p \in 1 .. Len(ts) : ~MadeLine(ts[p])

LEMMA RelexUnmade ==
  ASSUME NEW sym, NEW str
  PROVE  Unmade(Relex(Token(sym, str)))
<1> DEFINE token == Token(sym, str)
           line == Token("PPOther", <<"line">>)
<1>1. token.sym = sym /\ token.str = str
  BY DEF Token
<1>2. ~MadeLine(nl) /\ \A x \in {"PPIf", "PPElse", "PPEndif", "PPDef"} :
                          ~MadeLine(Token(x, <<>>))
  BY DEF MadeLine, Token, nl
<1>3. ~MadeLine(line)
  BY DEF MadeLine, Made, Token
<1> HIDE DEF token, line
<1>4. \/ /\ Relex(token) = <<token>>
         /\ token.sym = "PPOther" => token.str[1] \notin Made
      \/ \E x \in {"PPIf", "PPElse", "PPEndif", "PPDef"} : Relex(token) = <<Token(x, <<>>), nl>>
      \/ Relex(token) = <<line, nl>>
  BY DEF Relex, Made, line
<1>5. CASE /\ Relex(token) = <<token>>
           /\ token.sym = "PPOther" => token.str[1] \notin Made
  BY <1>5 DEF Unmade, MadeLine, token
<1>6. CASE \E x \in {"PPIf", "PPElse", "PPEndif", "PPDef"} :
             Relex(token) = <<Token(x, <<>>), nl>>
  <2>1. PICK x \in {"PPIf", "PPElse", "PPEndif", "PPDef"} :
               Relex(token) = <<Token(x, <<>>), nl>>
    BY <1>6
  <2> DEFINE first == Token(x, <<>>)
  <2>2. ~MadeLine(first) /\ Relex(token) = <<first, nl>>
    BY <1>2, <2>1
  <2> HIDE DEF first, nl
  <2> QED BY <1>2, <2>2 DEF Unmade, token
<1>7. CASE Relex(token) = <<line, nl>>
  <2> HIDE DEF nl
  <2> QED BY <1>2, <1>3, <1>7 DEF Unmade, token
<1> QED BY <1>4, <1>5, <1>6, <1>7

(* so a text that ends with its only EOF is read as such. *)
LEMMA RetokenizedList ==
  ASSUME NEW ts \in Seq(OutType), Len(ts) > 0,
         \A k \in 1 .. Len(ts) : ts[k].sym = "EOF" <=> k = Len(ts)
  PROVE  IsTokenList(Retokenized(ts)) /\ Unmade(Retokenized(ts))
<1> DEFINE N == Len(ts)
           E == <<>>
           Step(v, ix) == v \o Relex(Token(ts[ix].sym, ts[ix].str))
           Is(f, n) == f = [ix \in 0 .. n |-> IF ix = 0 THEN E ELSE Step(f[ix - 1], ix)]
<1>1. N \in Nat /\ N > 0
  OBVIOUS
<1>2. \A n \in Nat : \E f : Is(f, n)
  <2> HIDE DEF Step, E
  <2> DEFINE S == {n \in Nat : \E f : Is(f, n)}
  <2>1. 0 \in S
    <3>1. Is([ix \in 0 .. 0 |-> E], 0)
      OBVIOUS
    <3> QED BY <3>1
  <2>2. ASSUME NEW n \in Nat, n \in S PROVE n + 1 \in S
    <3>1. PICK f : Is(f, n)
      BY <2>2
    <3> DEFINE g == [ix \in 0 .. n + 1 |-> IF ix <= n THEN f[ix] ELSE Step(f[n], ix)]
    <3>2. Is(g, n + 1)
      BY <3>1
    <3> HIDE DEF Is
    <3> QED BY <3>2
  <2> HIDE DEF S
  <2>3. \A n \in Nat : n \in S
    BY <2>1, <2>2, NatInd
  <2> QED BY <2>3 DEF S
<1>3. PICK new : Is(new, N) /\ Retokenized(ts) = new[N]
  <2> DEFINE new == CHOOSE f : Is(f, N)
  <2>1. Retokenized(ts) = new[N]
    BY DEF Retokenized
  <2> HIDE DEF Is
  <2>2. Is(new, N)
    BY <1>1, <1>2
  <2> QED BY <2>1, <2>2
<1> DEFINE OK(v, ix) ==
             /\ v \in Seq(TokenType) /\ (ix > 0 => Len(v) > 0)
             /\ \A p \in 1 .. Len(v) : v[p].sym = "EOF" <=> (ix = N /\ p = Len(v))
             /\ Unmade(v)
<1>4. OK(E, 0)
  BY DEF Unmade
<1>5. ASSUME NEW ix \in Nat, NEW v, OK(v, ix), ix < N
      PROVE  OK(Step(v, ix + 1), ix + 1)
  <2> DEFINE t == ts[ix + 1]
             r == Relex(Token(t.sym, t.str))
             w == v \o r
  <2>1. ix + 1 \in 1 .. N /\ t \in OutType
    BY <1>1, <1>5, ElementType
  <2>2. ReadAs(r, t) /\ Unmade(r) /\ (t.sym = "EOF" <=> ix + 1 = N)
    BY <2>1, RelexType, RelexUnmade
  <2> HIDE DEF t, r
  <2>3. /\ w \in Seq(TokenType) /\ Len(w) = Len(v) + Len(r)
        /\ \A p \in 1 .. Len(v) : w[p] = v[p]
        /\ \A p \in 1 .. Len(r) : w[Len(v) + p] = r[p]
        /\ Len(v) \in Nat /\ Len(r) \in Nat /\ Len(r) > 0
    <3>1. v \in Seq(TokenType) /\ r \in Seq(TokenType) /\ Len(r) > 0
      BY <1>5, <2>2 DEF ReadAs
    <3> QED BY <3>1, Concat
  <2> HIDE DEF w
  <2>4. ASSUME NEW p \in 1 .. Len(w)
        PROVE  w[p].sym = "EOF" <=> (ix + 1 = N /\ p = Len(w))
    <3>1. CASE p \in 1 .. Len(v)
      BY <1>5, <2>3, <3>1
    <3>2. CASE p \notin 1 .. Len(v)
      <4> DEFINE j == p - Len(v)
      <4>1. j \in 1 .. Len(r) /\ Len(v) + j = p
        BY <2>3, <3>2
      <4> HIDE DEF j
      <4>2. w[p] = r[j]
        BY <2>3, <4>1
      <4>3. w[p].sym = "EOF" <=> ix + 1 = N
        BY <2>2, <4>1, <4>2 DEF ReadAs
      <4>4. ix + 1 = N => p = Len(w)
        BY <2>2, <2>3, <4>1 DEF ReadAs
      <4> QED BY <4>3, <4>4
    <3> QED BY <3>1, <3>2
  <2>6. ASSUME NEW p \in 1 .. Len(w)
        PROVE  ~MadeLine(w[p])
    <3>1. CASE p \in 1 .. Len(v)
      BY <1>5, <2>3, <3>1 DEF Unmade
    <3>2. CASE p \notin 1 .. Len(v)
      <4> DEFINE j == p - Len(v)
      <4>1. j \in 1 .. Len(r) /\ Len(v) + j = p
        BY <2>3, <3>2
      <4> HIDE DEF j
      <4> QED BY <2>2, <2>3, <4>1 DEF Unmade
    <3> QED BY <3>1, <3>2
  <2>5. OK(w, ix + 1)
    <3>1. Unmade(w)
      BY <2>6 DEF Unmade
    <3> QED BY <2>3, <2>4, <3>1
  <2> QED BY <2>5 DEF w, r, t
<1>6. OK(new[N], N)
  <2> HIDE DEF OK, Step, E
  <2> DEFINE S == {ix \in Nat : ix <= N => OK(new[ix], ix)}
  <2>1. new[0] = E /\ \A ix \in Nat : ix < N => new[ix + 1] = Step(new[ix], ix + 1)
    BY <1>1, <1>3
  <2>2. 0 \in S
    BY <1>4, <2>1
  <2>3. ASSUME NEW ix \in Nat, ix \in S PROVE ix + 1 \in S
    <3> SUFFICES ASSUME ix + 1 <= N PROVE OK(new[ix + 1], ix + 1)
      OBVIOUS
    <3>1. ix < N /\ OK(new[ix], ix)
      BY <1>1, <2>3
    <3> QED BY <1>5, <2>1, <3>1
  <2> HIDE DEF S
  <2>4. \A ix \in Nat : ix \in S
    BY <2>2, <2>3, NatInd
  <2>5. N \in S
    BY <1>1, <2>4
  <2> QED BY <1>1, <2>5 DEF S
<1> QED BY <1>1, <1>3, <1>6 DEF IsTokenList, TokenType

-----------------------------------------------------------------------------
(* Steps that leave the tokens alone. *)
LEMMA SameTexts ==
  ASSUME tokens' = tokens
  PROVE  LineTexts' = LineTexts
<1>1. ASSUME NEW p PROVE Lineno(p)' = Lineno(p)
  BY DEF Lineno, linenos
<1> QED BY <1>1 DEF LineTexts, LineDirective, Token

LEMMA SameTypes ==
  ASSUME tokens' = tokens
  PROVE  /\ OutType' = OutType /\ BlockType' = BlockType /\ Len(tokens)' = Len(tokens)
BY SameTexts DEF OutType, BlockType, PlainToken

LEMMA SameHolds ==
  ASSUME tokens' = tokens, HoldsUpto(out', copied')
  PROVE  HoldsUpto(out, copied)'
<1>1. OutType' = OutType
  BY SameTypes
<1> QED BY <1>1 DEF HoldsUpto

(* A token that keeps its symbol, and its text if it is no identifier,     *)
(* keeps its section.                                                      *)
LEMMA SectionKept ==
  ASSUME Len(tokens) \in Nat, Len(tokens') = Len(tokens),
         \A p \in 1 .. Len(tokens) :
            /\ tokens'[p].sym = tokens[p].sym
            /\ tokens[p].sym = "PPIf" => tokens'[p].str = tokens[p].str,
         NEW p \in 1 .. Len(tokens), InSection(p)
  PROVE  InSection(p)'
<1>1. PICK s \in SectionStarts : s < p /\ \A q \in s + 1 .. p : ~Closes(s, q)
  BY DEF InSection
<1>2. s \in 1 .. Len(tokens) /\ s \in SectionStarts'
  BY <1>1 DEF SectionStarts, Sym
<1>3. ASSUME NEW q \in s + 1 .. p
      PROVE  Closes(s, q)' = Closes(s, q)
  <2>1. q \in 1 .. Len(tokens) /\ \A r \in s + 1 .. q - 1 : r \in 1 .. Len(tokens)
    BY <1>2
  <2>2. \A r \in s + 1 .. q - 1 : Sym(r)' = Sym(r)
    BY <2>1 DEF Sym
  <2>3. Inside(s, q)' = Inside(s, q)
    <3>1. {r \in s + 1 .. q - 1 : Sym(r)' = "PPIf"} = {r \in s + 1 .. q - 1 : Sym(r) = "PPIf"}
      BY <2>2
    <3>2. {r \in s + 1 .. q - 1 : Sym(r)' = "PPEndif"}
            = {r \in s + 1 .. q - 1 : Sym(r) = "PPEndif"}
      BY <2>2
    <3> QED BY <3>1, <3>2 DEF Inside
  <2>4. Sym(q)' = Sym(q)
    BY <2>1 DEF Sym
  <2> QED BY <2>3, <2>4 DEF Closes
<1>4. s < p /\ \A q \in s + 1 .. p : ~Closes(s, q)'
  BY <1>1, <1>3
<1> QED BY <1>2, <1>4 DEF InSection

LEMMA SectionList ==
  ASSUME NEW ts, IsTokenList(ts), NEW sec \in NewSection \cup {<<>>}
  PROVE  IsTokenList(WithSection(ts, sec))
<1> DEFINE eof == Token("EOF", <<>>)
           a == SubSeq(ts, 1, Len(ts) - 1)
<1>1. eof \in TokenType /\ eof.sym = "EOF"
  BY DEF Token, TokenType, Symbol, Spelling
<1>2. ts \in Seq(TokenType) /\ Len(ts) \in Nat \ {0}
  BY TokenListType
<1>3. a \in Seq(PlainToken)
  <2>1. CASE Len(ts) = 1
    BY <1>2, <2>1
  <2>2. CASE Len(ts) # 1
    BY <1>2, <2>2, PlainPart
  <2> QED BY <2>1, <2>2
<1>4. sec \in Seq(PlainToken)
  <2>1. CASE sec = <<>>
    BY <2>1
  <2>2. CASE sec \in NewSection
    BY <2>2, SectionAssumption DEF PlainToken
  <2> QED BY <2>1, <2>2
<1>5. WithSection(ts, sec) = a \o sec \o <<eof>>
  BY DEF WithSection
<1> DEFINE b == a \o sec
           u == b \o <<eof>>
<1>6. b \in Seq(PlainToken)
  BY <1>3, <1>4, Concat
<1> HIDE DEF a, b, eof
<1>7. /\ b \in Seq(TokenType) /\ Len(b) \in Nat
      /\ \A p \in 1 .. Len(b) : b[p].sym # "EOF"
  <2>1. \A p \in 1 .. Len(b) : b[p] \in TokenType /\ b[p].sym # "EOF"
    <3> SUFFICES ASSUME NEW p \in 1 .. Len(b)
                 PROVE  b[p] \in TokenType /\ b[p].sym # "EOF"
      OBVIOUS
    <3>1. b[p] \in PlainToken
      BY <1>6, ElementType
    <3> QED BY <3>1 DEF PlainToken, TokenType
  <2> QED BY <1>6, <2>1
<1>8. <<eof>> \in Seq(TokenType) /\ Len(<<eof>>) = 1
  BY <1>1
<1>9. /\ u \in Seq(TokenType) /\ Len(u) = Len(b) + 1 /\ u[Len(b) + 1] = eof
      /\ \A p \in 1 .. Len(b) : u[p] = b[p]
  <2>1. /\ u \in Seq(TokenType) /\ Len(u) = Len(b) + Len(<<eof>>)
        /\ \A p \in 1 .. Len(b) : u[p] = b[p]
        /\ \A p \in 1 .. Len(<<eof>>) : u[Len(b) + p] = <<eof>>[p]
    BY <1>7, <1>8, Concat
  <2> QED BY <1>8, <2>1
<1> HIDE DEF u
<1>10. IsTokenList(u)
  <2>1. \A p \in 1 .. Len(u) : u[p].sym = "EOF" <=> p = Len(u)
    BY <1>1, <1>7, <1>9
  <2> QED BY <1>7, <1>9, <2>1 DEF IsTokenList, TokenType
<1> QED BY <1>5, <1>10 DEF u, b

-----------------------------------------------------------------------------
(* IInv is inductive: one lemma for each action. *)
LEMMA InitInv == Init => IInv
<1> SUFFICES ASSUME Init PROVE IInv
  OBVIOUS
<1>1. PICK ts \in Header, sec \in NewSection : tokens = WithSection(ts, sec)
  BY DEF Init
<1>2. IsTokenList(tokens)
  <2>1. IsTokenList(ts)
    BY HeaderAssumption
  <2> QED BY <1>1, <2>1, SectionList
<1>3. phase = "scan" /\ given = tokens /\ gen = <<>> /\ copied = 0
  BY DEF Init
<1>4. ScanInv
  BY <1>2, ScanInitInv DEF Init, ScanInit
<1> QED BY <1>2, <1>3, <1>4 DEF IInv, Scanning, Rewriting

LEMMA ScanKeeps ==
  ASSUME IInv, Scan
  PROVE  IInv'
<1>1. /\ ScanNext /\ gen' = gen /\ copied' = copied /\ given' = given
  BY DEF Scan, rewriting, history
<1>2. /\ tokens' = tokens /\ phase \in {"scan", "scanned"}
      /\ phase' \in {"scan", "overrun", "scanned", "called"}
  BY <1>1 DEF ScanNext, FindInlineFunctions, StepOn, NoName, Function, EndOfFile,
              FindCalls
<1>3. /\ tokens = given /\ ScanInv /\ IsTokenList(tokens) /\ gen = <<>> /\ copied = 0
  BY <1>2 DEF IInv, Scanning
<1>4. ScanInv'
  BY <1>1, <1>3, ScanStepInv
<1>5. IsTokenList(tokens')
  BY <1>2, <1>3
<1> QED BY <1>1, <1>2, <1>3, <1>4, <1>5 DEF IInv, Scanning, Rewriting

(* The scan leaves the functions where Placed has them. *)
LEMMA ScanPlaced ==
  ASSUME ScanInv, phase # "overrun"
  PROVE  Placed
<1>1. funcs \in Seq(FuncType) /\ OrderInv
  BY DEF ScanInv
<1>2. ASSUME NEW ix \in 1 .. Len(funcs)
      PROVE  /\ funcs[ix].start \in 1 .. Len(tokens) /\ funcs[ix].end \in 1 .. Len(tokens)
             /\ funcs[ix].start < funcs[ix].end /\ Sym(funcs[ix].end) = "RBrace"
  <2>1. funcs[ix] \in FuncType
    BY <1>1, ElementType
  <2>2. funcs[ix].namepos \in Nat
    BY <2>1 DEF FuncType
  <2>3. /\ funcs[ix].start \in 1 .. Len(tokens) /\ funcs[ix].start \in Nat
        /\ funcs[ix].end \in 1 .. Len(tokens) /\ funcs[ix].end \in Nat
        /\ funcs[ix].start < funcs[ix].namepos /\ funcs[ix].namepos < funcs[ix].end
    BY KnownFunc
  <2>4. Matches(LBrace(funcs[ix].start), funcs[ix].end)
    BY InvApart DEF FunctionsApart
  <2>5. Sym(funcs[ix].end) = "RBrace"
    BY <2>4 DEF Matches
  <2>6. funcs[ix].start < funcs[ix].end
    BY <2>2, <2>3, SMT
  <2> QED BY <2>3, <2>5, <2>6
<1> QED BY <1>1, <1>2 DEF Placed

(* A call that FindCalls finds in a section is a name in it. *)
LEMMA CallInSection ==
  ASSUME NEW names, NEW p \in SectionCalls(names), p \in 1 .. Len(tokens),
         Len(tokens) \in Nat
  PROVE  Sym(p) = "Ident" /\ InSection(p)
<1>1. PICK s \in SectionStarts : p \in CallsIn(names, s, SectionEnd(s))
  BY DEF SectionCalls
<1>2. Sym(p) = "Ident" /\ p \in s .. SectionEnd(s)
  BY <1>1 DEF CallsIn
<1>3. s \in 1 .. Len(tokens) /\ Sym(s) = "PPIf"
  BY DEF SectionStarts
<1>4. s < p /\ p <= SectionEnd(s)
  <2>1. s # p
    BY <1>2, <1>3
  <2>2. s <= p
    BY <1>2, <1>3
  <2> QED BY <1>2, <1>3, <2>1, <2>2
<1>5. ASSUME NEW q \in s + 1 .. p, Closes(s, q)
      PROVE  FALSE
  <2> DEFINE S == {r \in s + 1 .. Len(tokens) : Closes(s, r)}
  <2>1. q \in S /\ S \in SUBSET Nat
    BY <1>3, <1>5
  <2>2. First(S) <= q
    <3> HIDE DEF S
    <3> QED BY <2>1, FirstLeast
  <2>3. p <= q
    <3>1. First(S) \in Nat
      <4>1. First(S) \in S
        <5> HIDE DEF S
        <5> QED BY <2>1, FirstLeast
      <4> QED BY <1>3, <4>1
    <3> QED BY <1>3, <1>4, <2>2, <3>1 DEF SectionEnd
  <2>4. p = q
    BY <1>3, <2>3
  <2> QED BY <1>2, <1>5, <2>4 DEF Closes
<1> QED BY <1>2, <1>3, <1>4, <1>5 DEF InSection

LEMMA AnalyseKeeps ==
  ASSUME IInv, Analyse
  PROVE  IInv'
<1>1. /\ phase = "called" /\ phase' = "update" /\ sections' = SectionCalls(Guarded)
      /\ tokens' = tokens /\ funcs' = funcs /\ given' = given
      /\ gen' = gen /\ copied' = copied
  BY DEF Analyse, scan, history
<1>2. /\ tokens = given /\ ScanInv /\ IsTokenList(tokens) /\ gen = <<>> /\ copied = 0
      /\ Len(tokens) \in Nat
  BY <1>1, TokenListType DEF IInv, Scanning
<1>3. Placed'
  <2>1. Placed
    BY <1>1, <1>2, ScanPlaced
  <2> QED BY <1>1, <2>1 DEF Placed, OrderInv, Sym
<1>4. SectionsFound'
  <2> SUFFICES ASSUME NEW p \in sections', p \in 1 .. Len(tokens)
               PROVE  Sym(p)' = "Ident" /\ InSection(p)'
    BY <1>1 DEF SectionsFound
  <2>1. Sym(p) = "Ident" /\ InSection(p)
    BY <1>1, <1>2, CallInSection
  <2>2. InSection(p)'
    BY <1>1, <1>2, <2>1, SectionKept
  <2> QED BY <1>1, <2>1, <2>2 DEF Sym
<1> QED BY <1>1, <1>2, <1>3, <1>4 DEF IInv, Scanning, Rewriting

LEMMA UpdateKeeps ==
  ASSUME IInv, UpdateUnsafeSections
  PROVE  IInv'
<1>1. /\ phase = "update" /\ phase' = "generate" /\ tokens' = Renamed(tokens, sections)
      /\ todo' = 1 .. Len(funcs) /\ funcs' = funcs /\ given' = given
      /\ gen' = gen /\ copied' = copied
  BY DEF UpdateUnsafeSections, scan, history
<1>2. /\ tokens = given /\ SectionsFound /\ Placed /\ IsTokenList(tokens)
      /\ gen = <<>> /\ copied = 0
  BY <1>1 DEF IInv, Scanning, Rewriting
<1>3. tokens \in Seq(TokenType) /\ Len(tokens) \in Nat
  BY <1>2, TokenListType
<1>4. /\ IsTokenList(tokens') /\ Len(tokens') = Len(tokens)
      /\ \A p \in 1 .. Len(tokens) :
            /\ tokens'[p].sym = tokens[p].sym
            /\ tokens'[p].str # tokens[p].str =>
                  p \in sections /\ tokens'[p].str = UnsafeName(tokens[p].str)
  BY <1>1, <1>2, <1>3, RenamedList, RenamedType
<1>5. ASSUME NEW p \in 1 .. Len(tokens), tokens'[p].str # tokens[p].str
      PROVE  /\ Sym(p) = "Ident" /\ InSection(p)
             /\ tokens'[p].str = UnsafeName(tokens[p].str)
  BY <1>2, <1>4, <1>5 DEF SectionsFound
<1>6. \A p \in 1 .. Len(tokens) :
         tokens[p].sym = "PPIf" => tokens'[p].str = tokens[p].str
  BY <1>5 DEF Sym
<1>7. OnlyCallsRenamed'
  <2> SUFFICES ASSUME NEW p \in 1 .. Len(given)
               PROVE  SameAs(tokens[p], p)'
    BY <1>1, <1>2, <1>4 DEF OnlyCallsRenamed
  <2>1. InSection(p) => InSection(p)'
    BY <1>2, <1>3, <1>4, <1>6, SectionKept
  <2> QED BY <1>1, <1>2, <1>4, <1>5, <2>1 DEF SameAs, Sym
<1>8. Placed'
  <2>1. \A p \in 1 .. Len(tokens) : Sym(p)' = Sym(p)
    BY <1>4 DEF Sym
  <2> QED BY <1>1, <1>2, <1>4, <2>1 DEF Placed, OrderInv
<1>9. BlocksInOrder' /\ BlocksAhead'
  <2>1. gen' = <<>> /\ Len(gen') = 0
    BY <1>1, <1>2
  <2> QED BY <1>1, <2>1 DEF BlocksInOrder, BlocksAhead
<1> QED BY <1>1, <1>2, <1>4, <1>7, <1>8, <1>9 DEF IInv, Scanning, Rewriting

(* What Placed says of one function. *)
LEMMA PlacedFunc ==
  ASSUME IsTokenList(tokens), Placed, NEW ix \in 1 .. Len(funcs)
  PROVE  /\ funcs[ix].start \in 1 .. Len(tokens) /\ funcs[ix].end \in 1 .. Len(tokens)
         /\ funcs[ix].start < funcs[ix].end /\ Sym(funcs[ix].end) = "RBrace"
         /\ Sym(funcs[ix].end) # "EOF" /\ funcs[ix].name \in Spelling
         /\ WideStart(funcs[ix]) \in 1 .. Len(tokens)
         /\ WideEnd(funcs[ix]) \in 1 .. Len(tokens) - 1
         /\ funcs[ix].end <= WideEnd(funcs[ix])
<1>1. /\ funcs[ix].start \in 1 .. Len(tokens) /\ funcs[ix].end \in 1 .. Len(tokens)
      /\ funcs[ix].start < funcs[ix].end /\ Sym(funcs[ix].end) = "RBrace"
  BY DEF Placed
<1>2. funcs[ix].name \in Spelling
  <2>1. funcs[ix] \in FuncType
    BY ElementType DEF Placed
  <2> QED BY <2>1 DEF FuncType
<1>3. Sym(funcs[ix].end) # "EOF" /\ Len(tokens) \in Nat
  BY <1>1, ListEnds
<1>4. WideStart(funcs[ix]) \in 1 .. funcs[ix].start
  BY <1>1, <1>3, WideStartInside
<1>5. WideEnd(funcs[ix]) \in funcs[ix].end .. Len(tokens) - 1
  BY <1>1, <1>3, WideEndInside
<1> QED BY <1>1, <1>2, <1>3, <1>4, <1>5

(* A later function ends later, with what belongs to it. *)
LEMMA PlacedOrder ==
  ASSUME IsTokenList(tokens), Placed, NEW ix \in 1 .. Len(funcs),
         NEW j \in 1 .. Len(funcs), ix < j
  PROVE  WideEnd(funcs[ix]) <= WideEnd(funcs[j])
<1>1. /\ funcs[ix].end \in 1 .. Len(tokens) /\ funcs[j].end \in 1 .. Len(tokens)
      /\ funcs[j].start \in 1 .. Len(tokens) /\ funcs[j].start < funcs[j].end
      /\ Sym(funcs[j].end) = "RBrace" /\ funcs[j].end <= WideEnd(funcs[j])
      /\ WideEnd(funcs[ix]) \in 1 .. Len(tokens) - 1
      /\ WideEnd(funcs[j]) \in 1 .. Len(tokens) - 1
  BY PlacedFunc
<1>2. funcs[ix].end < funcs[j].start
  BY DEF Placed, OrderInv
<1>3. Len(tokens) \in Nat
  BY ListEnds
<1>4. funcs[ix].end < funcs[j].end
  BY <1>1, <1>2, <1>3
<1>5. WideEnd(funcs[ix]) <= funcs[j].end
  BY <1>1, <1>4, WideEndBefore
<1> QED BY <1>1, <1>3, <1>5

LEMMA SamePlaces ==
  ASSUME tokens' = tokens
  PROVE  \A f : WideStart(f)' = WideStart(f) /\ WideEnd(f)' = WideEnd(f)
BY DEF WideStart, WideEnd, Skip, First, Sym

LEMMA SameTokens ==
  ASSUME tokens' = tokens, given' = given, funcs' = funcs,
         IsTokenList(tokens), IsTokenList(given), Placed, OnlyCallsRenamed
  PROVE  /\ IsTokenList(tokens)' /\ IsTokenList(given)' /\ Placed'
         /\ OnlyCallsRenamed'
<1>1. Placed'
  BY DEF Placed, OrderInv, Sym
<1>2. Len(tokens) \in Nat /\ Len(given) = Len(tokens)
  BY TokenListType DEF OnlyCallsRenamed
<1>3. OnlyCallsRenamed'
  <2> SUFFICES ASSUME NEW p \in 1 .. Len(given)
               PROVE  SameAs(tokens[p], p)'
    BY DEF OnlyCallsRenamed
  <2>1. InSection(p) => InSection(p)'
    BY <1>2, SectionKept
  <2>2. SameAs(tokens[p], p)
    BY DEF OnlyCallsRenamed
  <2> QED BY <2>1, <2>2 DEF SameAs
<1> QED BY <1>1, <1>3

LEMMA GenerateKeeps ==
  ASSUME IInv, GenUnsafeCode
  PROVE  IInv'
<1> DEFINE ix == First(todo)
           f == funcs[ix]
           g == [start |-> WideStart(f), end |-> WideEnd(f), code |-> unsafe_code(f)]
<1>1. /\ phase = "generate" /\ phase' = "generate" /\ todo # {}
      /\ todo' = todo \ {ix} /\ gen' = IF Generates(f) THEN Append(gen, g) ELSE gen
      /\ tokens' = tokens /\ funcs' = funcs /\ given' = given /\ copied' = copied
  BY DEF GenUnsafeCode, scan, history
<1>2. /\ IsTokenList(tokens) /\ IsTokenList(given) /\ Placed /\ OnlyCallsRenamed
      /\ BlocksInOrder /\ BlocksAhead /\ copied = 0
  BY <1>1 DEF IInv, Rewriting
<1>3. /\ funcs \in Seq(FuncType) /\ Len(funcs) \in Nat /\ Len(tokens) \in Nat
      /\ todo \subseteq 1 .. Len(funcs)
  BY <1>2, TokenListType DEF Placed, BlocksAhead
<1>4. todo \in SUBSET Nat
  BY <1>3
<1>5. ix \in todo /\ ix \in 1 .. Len(funcs) /\ \A j \in todo : ix <= j
  BY <1>1, <1>3, <1>4, FirstIn, FirstLeast
<1> HIDE DEF ix
<1>6. /\ WideStart(f) \in 1 .. Len(tokens) /\ WideEnd(f) \in 1 .. Len(tokens) - 1
      /\ f.start \in 1 .. Len(tokens) /\ f.end \in 1 .. Len(tokens)
      /\ f.start < f.end /\ Sym(f.end) # "EOF" /\ f.name \in Spelling
  BY <1>2, <1>5, PlacedFunc
<1>7. unsafe_code(f) \in Seq(PlainToken)
  <2> HIDE DEF f
  <2> QED BY <1>2, <1>6, CodeType
<1>8. g \in BlockType /\ g.end = WideEnd(f)
  <2> HIDE DEF f
  <2> QED BY <1>6, <1>7 DEF BlockType
<1>9. \A j \in todo' : j \in 1 .. Len(funcs) /\ WideEnd(f) <= WideEnd(funcs[j])
  <2> SUFFICES ASSUME NEW j \in todo'
               PROVE  j \in 1 .. Len(funcs) /\ WideEnd(f) <= WideEnd(funcs[j])
    OBVIOUS
  <2>1. j \in 1 .. Len(funcs) /\ ix < j
    BY <1>1, <1>3, <1>4, <1>5
  <2> QED BY <1>2, <1>5, <2>1, PlacedOrder
<1> HIDE DEF f, g
<1>10. gen \in Seq(BlockType) /\ Len(gen) \in Nat
  BY <1>2 DEF BlocksInOrder
<1>11. \A k \in 1 .. Len(gen) : gen[k].end <= WideEnd(f)
  BY <1>2, <1>5 DEF BlocksAhead, f
<1>12. /\ gen' \in Seq(BlockType)
       /\ \A k, l \in 1 .. Len(gen') : k < l => gen'[k].end <= gen'[l].end
       /\ \A k \in 1 .. Len(gen'), j \in todo' : gen'[k].end <= WideEnd(funcs[j])
  <2>1. CASE Generates(f)
    <3>1. /\ gen' \in Seq(BlockType) /\ Len(gen') = Len(gen) + 1
          /\ gen'[Len(gen) + 1] = g
          /\ \A k \in 1 .. Len(gen) : gen'[k] = gen[k]
      BY <1>1, <1>8, <1>10, <2>1
    <3>2. \A k \in 1 .. Len(gen') : k \in 1 .. Len(gen) \/ k = Len(gen) + 1
      BY <1>10, <3>1
    <3>3. \A k, l \in 1 .. Len(gen') : k < l => gen'[k].end <= gen'[l].end
      <4> SUFFICES ASSUME NEW k \in 1 .. Len(gen'), NEW l \in 1 .. Len(gen'), k < l
                   PROVE  gen'[k].end <= gen'[l].end
        OBVIOUS
      <4>1. k \in 1 .. Len(gen)
        BY <1>10, <3>1
      <4>2. CASE l \in 1 .. Len(gen)
        BY <1>2, <3>1, <4>1, <4>2 DEF BlocksInOrder
      <4>3. CASE l = Len(gen) + 1
        BY <1>8, <1>11, <3>1, <4>1, <4>3
      <4> QED BY <3>2, <4>2, <4>3
    <3>4. \A k \in 1 .. Len(gen'), j \in todo' : gen'[k].end <= WideEnd(funcs[j])
      <4> SUFFICES ASSUME NEW k \in 1 .. Len(gen'), NEW j \in todo'
                   PROVE  gen'[k].end <= WideEnd(funcs[j])
        OBVIOUS
      <4>1. CASE k \in 1 .. Len(gen)
        BY <1>1, <1>2, <3>1, <4>1 DEF BlocksAhead
      <4>2. CASE k = Len(gen) + 1
        BY <1>8, <1>9, <3>1, <4>2
      <4> QED BY <3>2, <4>1, <4>2
    <3> QED BY <3>1, <3>3, <3>4
  <2>2. CASE ~Generates(f)
    <3>1. gen' = gen /\ todo' \subseteq todo
      BY <1>1, <2>2
    <3> QED BY <1>2, <3>1 DEF BlocksInOrder, BlocksAhead
  <2> QED BY <2>1, <2>2
<1>13. BlockType' = BlockType /\ \A h : WideEnd(h)' = WideEnd(h)
  BY <1>1, SameTypes, SamePlaces
<1>14. BlocksInOrder'
  BY <1>12, <1>13 DEF BlocksInOrder
<1>15. BlocksAhead'
  <2>1. todo' \subseteq 1 .. Len(funcs')
    BY <1>1, <1>3
  <2> QED BY <1>1, <1>12, <1>13, <2>1 DEF BlocksAhead
<1>16. IsTokenList(tokens)' /\ IsTokenList(given)' /\ Placed' /\ OnlyCallsRenamed'
  BY <1>1, <1>2, SameTokens
<1> QED BY <1>1, <1>2, <1>14, <1>15, <1>16 DEF IInv, Scanning, Rewriting

LEMMA GenerateEndKeeps ==
  ASSUME IInv, GenUnsafeCodeEnd
  PROVE  IInv'
<1>1. /\ phase = "generate" /\ phase' = "splice" /\ todo' = 1 .. Len(gen)
      /\ out' = IF Listed THEN New(LineDir(1)) ELSE <<>>
      /\ tokens' = tokens /\ funcs' = funcs /\ given' = given /\ gen' = gen
      /\ copied' = copied
  BY DEF GenUnsafeCodeEnd, scan, history
<1>2. /\ IsTokenList(tokens) /\ IsTokenList(given) /\ Placed /\ OnlyCallsRenamed
      /\ BlocksInOrder /\ copied = 0
  BY <1>1 DEF IInv, Rewriting
<1>3. Len(tokens) \in Nat \ {0}
  BY <1>2, TokenListType
<1>4. HoldsUpto(out', 0)
  <2>1. HoldsUpto(<<>>, 0)
    BY <1>3, NothingHeld
  <2>2. LineDir(1) \in Seq(Generated)
    BY <1>3, LineDirType
  <2> DEFINE s == New(LineDir(1))
  <2>3. HoldsUpto(<<>> \o s, 0)
    BY <1>3, <2>1, <2>2, NewHolds
  <2>4. s \in Seq(OutType)
    BY <1>3, <2>2, NewType
  <2> HIDE DEF s
  <2>5. <<>> \o s = s
    BY <2>4
  <2>6. HoldsUpto(s, 0)
    BY <2>3, <2>5
  <2> QED BY <1>1, <2>1, <2>6 DEF s
<1>5. SpliceInv'
  <2>1. HoldsUpto(out, copied)'
    BY <1>1, <1>2, <1>4, SameHolds
  <2>2. copied' = 0 /\ 0 \in 0 .. Len(tokens) - 1
    BY <1>1, <1>2, <1>3
  <2>3. \A ix \in 1 .. Len(gen) : 0 <= gen[ix].end
    <3> SUFFICES ASSUME NEW ix \in 1 .. Len(gen) PROVE 0 <= gen[ix].end
      OBVIOUS
    <3>1. gen[ix] \in BlockType
      BY <1>2, ElementType DEF BlocksInOrder
    <3> QED BY <1>3, <3>1 DEF BlockType
  <2> QED BY <1>1, <2>1, <2>2, <2>3 DEF SpliceInv
<1>6. BlocksInOrder'
  <2>1. BlockType' = BlockType
    BY <1>1, SameTypes
  <2> QED BY <1>1, <1>2, <2>1 DEF BlocksInOrder
<1>7. IsTokenList(tokens)' /\ IsTokenList(given)' /\ Placed' /\ OnlyCallsRenamed'
  BY <1>1, <1>2, SameTokens
<1> QED BY <1>1, <1>2, <1>5, <1>6, <1>7 DEF IInv, Scanning, Rewriting

LEMMA SpliceKeeps ==
  ASSUME IInv, SpliceFunc
  PROVE  IInv'
<1> DEFINE ix == First(todo)
           g == gen[ix]
           ts == <<nl, nl>> \o LineDir(g.start) \o g.code \o LineDir(g.end + 1)
           kept == out \o Kept(copied + 1, g.end)
<1>1. /\ phase = "splice" /\ phase' = "splice" /\ todo # {}
      /\ todo' = todo \ {ix} /\ out' = kept \o New(ts) /\ copied' = g.end
      /\ tokens' = tokens /\ funcs' = funcs /\ given' = given /\ gen' = gen
  BY DEF SpliceFunc, scan, history
<1>2. /\ IsTokenList(tokens) /\ IsTokenList(given) /\ Placed /\ OnlyCallsRenamed
      /\ BlocksInOrder /\ SpliceInv
  BY <1>1 DEF IInv, Rewriting
<1>3. /\ Len(tokens) \in Nat \ {0} /\ Len(gen) \in Nat /\ todo \subseteq 1 .. Len(gen)
      /\ copied \in 0 .. Len(tokens) - 1 /\ copied \in 0 .. Len(tokens)
  BY <1>2, TokenListType DEF BlocksInOrder, SpliceInv
<1>4. todo \in SUBSET Nat
  BY <1>3
<1>5. ix \in todo /\ ix \in 1 .. Len(gen) /\ \A j \in todo : ix <= j
  BY <1>1, <1>3, <1>4, FirstIn, FirstLeast
<1> HIDE DEF ix
<1>6. /\ g \in BlockType /\ copied <= g.end
      /\ g.start \in 1 .. Len(tokens) /\ g.end \in 1 .. Len(tokens) - 1
      /\ g.code \in Seq(PlainToken)
  <2>1. g \in BlockType
    BY <1>2, <1>5, ElementType DEF BlocksInOrder
  <2> QED BY <1>2, <1>5, <2>1 DEF BlockType, SpliceInv
<1>7. ts \in Seq(Generated)
  <2> HIDE DEF g
  <2>1. PlainToken \subseteq Generated
    BY DEF Generated
  <2>2. <<nl, nl>> \in Seq(Generated)
    BY <2>1, PlainTokens
  <2>3. g.code \in Seq(Generated)
    BY <1>6, <2>1
  <2>4. g.end + 1 \in 1 .. Len(tokens)
    BY <1>3, <1>6
  <2>5. LineDir(g.start) \in Seq(Generated) /\ LineDir(g.end + 1) \in Seq(Generated)
    BY <1>6, <2>4, LineDirType
  <2>6. <<nl, nl>> \o LineDir(g.start) \in Seq(Generated)
    BY <2>2, <2>5, Concat
  <2>7. <<nl, nl>> \o LineDir(g.start) \o g.code \in Seq(Generated)
    BY <2>3, <2>6, Concat
  <2> QED BY <2>5, <2>7, Concat
<1>8. HoldsUpto(kept, g.end)
  <2>1. g.end \in copied .. Len(tokens) /\ HoldsUpto(out, copied)
    BY <1>2, <1>3, <1>6 DEF SpliceInv
  <2> HIDE DEF g
  <2> QED BY <1>2, <1>3, <2>1, KeptHolds
<1>9. HoldsUpto(out', copied')
  <2>1. g.end \in Nat
    BY <1>3, <1>6
  <2> HIDE DEF kept, ts, g
  <2>2. HoldsUpto(kept \o New(ts), g.end)
    BY <1>3, <1>7, <1>8, <2>1, NewHolds
  <2> QED BY <1>1, <2>2
<1>10. SpliceInv'
  <2>1. HoldsUpto(out, copied)'
    BY <1>1, <1>9, SameHolds
  <2>2. \A j \in todo' : g.end <= gen[j].end
    <3> SUFFICES ASSUME NEW j \in todo' PROVE g.end <= gen[j].end
      OBVIOUS
    <3>1. j \in 1 .. Len(gen) /\ ix < j
      BY <1>1, <1>3, <1>4, <1>5
    <3> QED BY <1>2, <1>5, <3>1 DEF BlocksInOrder
  <2>3. todo' \subseteq 1 .. Len(gen') /\ copied' \in 0 .. Len(tokens') - 1
    <3>1. todo \ {ix} \subseteq 1 .. Len(gen)
      BY <1>3
    <3>2. copied' \in 1 .. Len(tokens) - 1
      BY <1>1, <1>6
    <3>3. copied' \in 0 .. Len(tokens) - 1
      BY <1>3, <3>2
    <3> QED BY <1>1, <3>1, <3>3
  <2> QED BY <1>1, <2>1, <2>2, <2>3 DEF SpliceInv
<1>11. BlocksInOrder'
  <2>1. BlockType' = BlockType
    BY <1>1, SameTypes
  <2> QED BY <1>1, <1>2, <2>1 DEF BlocksInOrder
<1>12. IsTokenList(tokens)' /\ IsTokenList(given)' /\ Placed' /\ OnlyCallsRenamed'
  BY <1>1, <1>2, SameTokens
<1> QED BY <1>1, <1>10, <1>11, <1>12 DEF IInv, Scanning, Rewriting

LEMMA RestKeeps ==
  ASSUME IInv, SpliceRest
  PROVE  IInv'
<1> DEFINE N == Len(tokens)
           s == Kept(copied + 1, N)
           u == out \o s
<1>1. /\ phase = "splice" /\ phase' = "done" /\ out' = u /\ copied' = N
      /\ tokens' = tokens /\ funcs' = funcs /\ given' = given
  BY DEF SpliceRest, scan, history
<1>2. /\ IsTokenList(tokens) /\ IsTokenList(given) /\ Placed /\ OnlyCallsRenamed
      /\ HoldsUpto(out, copied) /\ copied \in 0 .. N - 1
  BY <1>1 DEF IInv, Rewriting, SpliceInv
<1>3. N \in Nat \ {0} /\ copied \in 0 .. N /\ N \in copied .. N /\ copied < N
  BY <1>2, TokenListType
<1>4. HoldsUpto(u, N)
  <2> HIDE DEF s
  <2>1. N \in 0 .. N
    BY <1>3
  <2> QED BY <1>2, <1>3, <2>1, KeptHolds DEF s
<1>5. /\ s \in Seq(OutType) /\ Len(s) = N - copied
      /\ \A k \in 1 .. N - copied : s[k] = Label(copied + k, tokens[copied + k])
  BY <1>2, <1>3, KeptType
<1>6. out \in Seq(OutType) /\ Len(out) \in Nat
  BY <1>2 DEF HoldsUpto
<1>7. Len(u) > 0 /\ u[Len(u)].at = N
  <2> DEFINE j == N - copied
  <2>1. j \in 1 .. N - copied /\ copied + j = N
    BY <1>3
  <2> HIDE DEF j, s
  <2>2. s[j].at = N
    BY <1>5, <2>1 DEF Label
  <2>3. Len(s) = j
    BY <1>5 DEF j
  <2>4. j \in 1 .. Len(s) /\ Len(s) \in Nat
    BY <1>3, <2>1, <2>3
  <2>5. Len(u) = Len(out) + j /\ u[Len(out) + j] = s[j]
    BY <1>5, <1>6, <2>3, <2>4
  <2> HIDE DEF u
  <2> QED BY <1>3, <1>6, <2>1, <2>2, <2>5
<1> HIDE DEF u
<1>8. DoneInv'
  <2>1. HoldsUpto(out', copied')
    BY <1>1, <1>4
  <2>2. HoldsUpto(out, copied)'
    BY <1>1, <2>1, SameHolds
  <2>3. HoldsUpto(out, Len(tokens))'
    BY <1>1, <2>2 DEF HoldsUpto
  <2> QED BY <1>1, <1>7, <2>3 DEF DoneInv
<1>9. IsTokenList(tokens)' /\ IsTokenList(given)' /\ Placed' /\ OnlyCallsRenamed'
  BY <1>1, <1>2, SameTokens
<1> QED BY <1>1, <1>8, <1>9 DEF IInv, Scanning, Rewriting

(* The next run reads a token list, *)
LEMMA ResultList ==
  ASSUME IsTokenList(tokens), DoneInv
  PROVE  IsTokenList(Retokenized(out)) /\ Unmade(Retokenized(out))
<1>4. /\ out \in Seq(OutType) /\ Len(out) > 0 /\ Len(out) \in Nat
      /\ out[Len(out)].at = Len(tokens) /\ Len(tokens) \in Nat \ {0}
  BY TokenListType DEF DoneInv, HoldsUpto
<1>5. out[Len(out)].sym = "EOF"
  <2>1. out[Len(out)] = Label(Len(tokens), tokens[Len(tokens)])
    BY <1>4 DEF DoneInv, HoldsUpto
  <2>2. tokens[Len(tokens)].sym = "EOF"
    BY <1>4, TokenListType
  <2> QED BY <2>1, <2>2 DEF Label
<1>6. ASSUME NEW k \in 1 .. Len(out), out[k].sym = "EOF"
      PROVE  k = Len(out)
  <2>1. out[k].at = Len(tokens)
    BY <1>6 DEF DoneInv, HoldsUpto
  <2>2. ~(k < Len(out))
    <3> SUFFICES ASSUME k < Len(out) PROVE FALSE
      OBVIOUS
    <3>1. out[k].at < out[Len(out)].at
      BY <1>4, <2>1 DEF DoneInv, HoldsUpto
    <3> QED BY <1>4, <2>1, <3>1
  <2> QED BY <1>4, <2>2
<1>7. \A k \in 1 .. Len(out) : out[k].sym = "EOF" <=> k = Len(out)
  BY <1>5, <1>6
<1> QED BY <1>4, <1>7, RetokenizedList

(* with one more section perhaps. *)
LEMMA RerunKeeps ==
  ASSUME IInv, Rerun
  PROVE  IInv'
<1>1. PICK sec \in NewSection \cup {<<>>} : tokens' = WithSection(Retokenized(out), sec)
  BY DEF Rerun
<1>2. /\ phase = "done" /\ phase' = "scan" /\ given' = tokens' /\ pos' = 1
      /\ funcs' = <<>> /\ gen' = <<>> /\ copied' = 0
  BY DEF Rerun
<1>3. IsTokenList(tokens) /\ DoneInv
  BY <1>2 DEF IInv
<1>8. IsTokenList(Retokenized(out))
  BY <1>3, ResultList
<1>9. IsTokenList(WithSection(Retokenized(out), sec))
  BY <1>8, SectionList
<1>10. IsTokenList(tokens') /\ IsTokenList(given')
  BY <1>1, <1>2, <1>9
<1>11. ScanInv'
  <2>1. ScanInit'
    BY <1>2, <1>10 DEF ScanInit, IsTokenList
  <2>2. ScanInit' => ScanInv'
    BY ScanInitInv, PTL
  <2> QED BY <2>1, <2>2
<1> QED BY <1>2, <1>10, <1>11 DEF IInv, Scanning, Rewriting

LEMMA StutterKeeps ==
  ASSUME IInv, UNCHANGED vars
  PROVE  IInv'
<1>1. /\ tokens' = tokens /\ pos' = pos /\ funcs' = funcs /\ phase' = phase
      /\ sections' = sections /\ gen' = gen /\ todo' = todo /\ copied' = copied
      /\ out' = out /\ given' = given /\ used' = used
  BY DEF vars, scan, rewriting, history
<1>2. IsTokenList(tokens) /\ IsTokenList(given) /\ Len(tokens) \in Nat
  BY TokenListType DEF IInv
<1>3. ScanInv => ScanInv'
  BY <1>1, ScanStepInv DEF scan
<1>4. Placed => Placed'
  BY <1>1 DEF Placed, OrderInv, Sym
<1>5. SectionsFound => SectionsFound'
  <2> SUFFICES ASSUME SectionsFound, NEW p \in sections, p \in 1 .. Len(tokens)
               PROVE  Sym(p)' = "Ident" /\ InSection(p)'
    BY <1>1 DEF SectionsFound
  <2>1. Sym(p) = "Ident" /\ InSection(p)
    BY DEF SectionsFound
  <2>2. InSection(p)'
    BY <1>1, <1>2, <2>1, SectionKept
  <2> QED BY <1>1, <2>1, <2>2 DEF Sym
<1>6. Placed /\ OnlyCallsRenamed => OnlyCallsRenamed'
  BY <1>1, <1>2, SameTokens
<1>7. BlockType' = BlockType /\ \A f : WideEnd(f)' = WideEnd(f)
  BY <1>1, SameTypes, SamePlaces
<1>8. (BlocksInOrder => BlocksInOrder') /\ (BlocksAhead => BlocksAhead')
  BY <1>1, <1>7 DEF BlocksInOrder, BlocksAhead
<1>9. HoldsUpto(out, copied) => HoldsUpto(out, copied)'
  BY <1>1, SameHolds
<1>10. SpliceInv => SpliceInv'
  BY <1>1, <1>9 DEF SpliceInv
<1>11. DoneInv /\ copied = Len(tokens) => DoneInv'
  BY <1>1, <1>9 DEF DoneInv, HoldsUpto
<1> QED BY <1>1, <1>2, <1>3, <1>4, <1>5, <1>6, <1>8, <1>10, <1>11
        DEF IInv, Scanning, Rewriting

LEMMA StepInv == IInv /\ [Next]_vars => IInv'
<1> SUFFICES ASSUME IInv, [Next]_vars
             PROVE  IInv'
  OBVIOUS
<1>1. CASE Scan
  BY <1>1, ScanKeeps
<1>2. CASE Analyse
  BY <1>2, AnalyseKeeps
<1>3. CASE UpdateUnsafeSections
  BY <1>3, UpdateKeeps
<1>4. CASE GenUnsafeCode
  BY <1>4, GenerateKeeps
<1>5. CASE GenUnsafeCodeEnd
  BY <1>5, GenerateEndKeeps
<1>6. CASE SpliceFunc
  BY <1>6, SpliceKeeps
<1>7. CASE SpliceRest
  BY <1>7, RestKeeps
<1>8. CASE Rerun
  BY <1>8, RerunKeeps
<1>9. CASE UNCHANGED vars
  BY <1>9, StutterKeeps
<1> QED BY <1>1, <1>2, <1>3, <1>4, <1>5, <1>6, <1>7, <1>8, <1>9 DEF Next

(* Rewriting keeps IInv, for every header, section and set of roots        *)
(* (rewrite.cc 18-241, main.cc 122-163).                                   *)
THEOREM InvCorrect == Spec => []IInv
<1> QED BY InitInv, StepInv, PTL DEF Spec

(* Each run keeps the text of the header: nothing is lost, repeated or     *)
(* moved, and nothing is changed but names of calls in sections            *)
(* (RewriteSourceFile, rewrite.cc 208-240).                                *)
THEOREM TextKeptCorrect == Spec => []TextKept
<1>1. IInv => TextKept
  <2> SUFFICES ASSUME IInv, phase = "done"
               PROVE  /\ {out[k].at : k \in 1 .. Len(out)} \ {0} = 1 .. Len(given)
                      /\ \A k, l \in 1 .. Len(out) :
                            k < l /\ out[k].at # 0 /\ out[l].at # 0
                              => out[k].at < out[l].at
                      /\ \A k \in 1 .. Len(out) :
                            out[k].at # 0 => SameAs(out[k], out[k].at)
    BY DEF TextKept
  <2>1. /\ IsTokenList(tokens) /\ OnlyCallsRenamed /\ HoldsUpto(out, Len(tokens))
        /\ Len(tokens) \in Nat /\ Len(given) = Len(tokens)
    BY TokenListType DEF IInv, DoneInv, OnlyCallsRenamed
  <2>2. ASSUME NEW k \in 1 .. Len(out), out[k].at # 0
        PROVE  out[k].at \in 1 .. Len(given)
    <3>1. out[k] \in OutType
      BY <2>1, ElementType DEF HoldsUpto
    <3>2. out[k].at \in 0 .. Len(tokens)
      BY <2>1, <3>1 DEF OutType
    <3> QED BY <2>1, <2>2, <3>2
  <2>3. {out[k].at : k \in 1 .. Len(out)} \ {0} = 1 .. Len(given)
    <3>1. \A p \in 1 .. Len(given) : p # 0 /\ \E k \in 1 .. Len(out) : out[k].at = p
      BY <2>1 DEF HoldsUpto
    <3> QED BY <2>2, <3>1
  <2>4. ASSUME NEW k \in 1 .. Len(out), out[k].at # 0
        PROVE  SameAs(out[k], out[k].at)
    <3> DEFINE p == out[k].at
    <3>1. p \in 1 .. Len(given) /\ out[k] = Label(p, tokens[p])
      BY <2>1, <2>2, <2>4 DEF HoldsUpto
    <3>2. SameAs(tokens[p], p)
      BY <2>1, <3>1 DEF OnlyCallsRenamed
    <3>3. out[k].sym = tokens[p].sym /\ out[k].str = tokens[p].str
      BY <3>1 DEF Label
    <3> HIDE DEF p
    <3>4. SameAs(out[k], p)
      BY <3>2, <3>3 DEF SameAs
    <3> QED BY <3>4 DEF p
  <2> QED BY <2>1, <2>3, <2>4 DEF HoldsUpto
<1> QED BY <1>1, InvCorrect, PTL

-----------------------------------------------------------------------------
(* The lines that are put in begin lines: what comes behind each of ts. *)
EndsLine(token) == MadeLine(token) \/ token.sym = "EOL"
Opens(ts) == \A k \in 2 .. Len(ts) : MadeLine(ts[k]) => EndsLine(ts[k - 1])
Ended(ts) == Len(ts) > 0 /\ EndsLine(ts[Len(ts)])

LEMMA OpensConcat ==
  ASSUME NEW T, NEW ts \in Seq(T), NEW us \in Seq(T), Opens(ts), Opens(us),
         Ended(ts) \/ (Len(us) > 0 => ~MadeLine(us[1]))
  PROVE  Opens(ts \o us)
<1> DEFINE w == ts \o us
<1>1. /\ Len(w) = Len(ts) + Len(us) /\ Len(ts) \in Nat /\ Len(us) \in Nat
      /\ \A k \in 1 .. Len(ts) : w[k] = ts[k]
      /\ \A k \in 1 .. Len(us) : w[Len(ts) + k] = us[k]
  BY Concat
<1> HIDE DEF w
<1>2. ASSUME NEW k \in 2 .. Len(w), MadeLine(w[k])
      PROVE  EndsLine(w[k - 1])
  <2>1. CASE k <= Len(ts)
    <3>1. k \in 2 .. Len(ts) /\ w[k] = ts[k] /\ w[k - 1] = ts[k - 1]
      BY <1>1, <2>1
    <3> QED BY <1>2, <3>1 DEF Opens
  <2>2. CASE k = Len(ts) + 1
    <3>1. w[k] = us[1] /\ w[k - 1] = ts[Len(ts)] /\ Len(us) > 0
      BY <1>1, <2>2
    <3> QED BY <1>2, <3>1 DEF Ended
  <2>3. CASE k > Len(ts) + 1
    <3> DEFINE j == k - Len(ts)
    <3>1. j \in 2 .. Len(us) /\ w[k] = us[j] /\ w[k - 1] = us[j - 1]
      <4>1. j \in 2 .. Len(us) /\ j - 1 \in 1 .. Len(us) /\ j \in 1 .. Len(us)
            /\ Len(ts) + j = k /\ Len(ts) + (j - 1) = k - 1
        BY <1>1, <2>3
      <4> HIDE DEF j
      <4> QED BY <1>1, <4>1
    <3> QED BY <1>2, <3>1 DEF Opens
  <2> QED BY <1>1, <2>1, <2>2, <2>3
<1> QED BY <1>2 DEF w, Opens

LEMMA EndedConcat ==
  ASSUME NEW T, NEW ts \in Seq(T), NEW us \in Seq(T),
         Ended(us) \/ (Ended(ts) /\ Len(us) = 0)
  PROVE  Ended(ts \o us)
<1> DEFINE w == ts \o us
<1>1. /\ Len(w) = Len(ts) + Len(us) /\ Len(ts) \in Nat /\ Len(us) \in Nat
      /\ \A k \in 1 .. Len(ts) : w[k] = ts[k]
      /\ \A k \in 1 .. Len(us) : w[Len(ts) + k] = us[k]
  BY Concat
<1> HIDE DEF w
<1>2. CASE Ended(us)
  <2>1. w[Len(w)] = us[Len(us)] /\ Len(w) > 0
    BY <1>1, <1>2 DEF Ended
  <2> QED BY <1>2, <2>1 DEF Ended, w
<1>3. CASE Ended(ts) /\ Len(us) = 0
  <2>1. w[Len(w)] = ts[Len(ts)] /\ Len(w) > 0
    BY <1>1, <1>3 DEF Ended
  <2> QED BY <1>3, <2>1 DEF Ended, w
<1> QED BY <1>2, <1>3

(* A new line, *)
LEMMA NlCloses ==
  /\ ~MadeLine(nl) /\ Ended(<<nl>>) /\ Opens(<<nl>>)
  /\ Ended(<<nl, nl>>) /\ Opens(<<nl, nl>>)
<1>1. nl.sym = "EOL"
  BY DEF nl, Token
<1>2. ~MadeLine(nl) /\ EndsLine(nl)
  BY <1>1 DEF MadeLine, EndsLine
<1> HIDE DEF nl
<1> QED BY <1>2 DEF Ended, Opens

(* a #line directive, *)
LEMMA DirCloses ==
  ASSUME NEW p
  PROVE  /\ (Opens(LineDir(p)) /\ Ended(LineDir(p))) \/ LineDir(p) = <<>>
         /\ linedirs => /\ Len(LineDir(p)) > 0
                        /\ LineDir(p)[Len(LineDir(p))] = LineDirective(p)
<1> DEFINE d == LineDirective(p)
<1>1. d.sym = "PPOther" /\ d.str[1] = "#line"
  BY DEF LineDirective, Token
<1>2. MadeLine(d)
  BY <1>1 DEF MadeLine, Made
<1> HIDE DEF d
<1>3. EndsLine(d) /\ EndsLine(nl)
  BY <1>2, NlCloses DEF EndsLine, Ended
<1>4. /\ Opens(<<d>>) /\ Ended(<<d>>) /\ Opens(<<nl, d>>) /\ Ended(<<nl, d>>)
      /\ Opens(<<>>) /\ Len(<<d>>) = 1 /\ Len(<<nl, d>>) = 2
      /\ <<d>>[1] = d /\ <<nl, d>>[2] = d
  BY <1>3 DEF Opens, Ended
<1>5. LineDir(p) \in {<<>>, <<d>>, <<nl, d>>} /\ (linedirs => LineDir(p) # <<>>)
  BY DEF LineDir, d
<1> QED BY <1>4, <1>5 DEF d

(* and the code of an unsafe version. *)
LEMMA UnmadeOpens ==
  ASSUME NEW ts, Unmade(ts), Len(ts) \in Nat
  PROVE  Opens(ts) /\ (Len(ts) > 0 => ~MadeLine(ts[1]))
BY DEF Unmade, Opens

LEMMA RenamedUnmade ==
  ASSUME NEW ts \in Seq(TokenType), Unmade(ts), NEW S
  PROVE  Unmade(Renamed(ts, S))
<1> SUFFICES ASSUME NEW p \in 1 .. Len(Renamed(ts, S))
             PROVE  ~MadeLine(Renamed(ts, S)[p])
  BY DEF Unmade
<1>1. /\ Len(Renamed(ts, S)) = Len(ts) /\ p \in 1 .. Len(ts) /\ ts[p].str \in Spelling
      /\ Renamed(ts, S)[p] = IF p \in S /\ ts[p].str \in used
                             THEN Token(ts[p].sym, UnsafeName(ts[p].str)) ELSE ts[p]
  <2>1. Len(Renamed(ts, S)) = Len(ts)
    BY RenamedType
  <2>2. p \in 1 .. Len(ts) /\ ts[p] \in TokenType
    BY <2>1, ElementType
  <2> QED BY <2>1, <2>2 DEF Renamed, TokenType
<1> DEFINE n == ts[p].str
           prefix == IF Mixed(n) THEN "Unsafe" ELSE "UNSAFE_"
<1>2. UnsafeName(n)[1] = prefix
  <2>1. UnsafeName(n) = IF n[1] = prefix THEN n ELSE <<prefix>> \o n
    BY DEF UnsafeName
  <2> HIDE DEF prefix
  <2>2. n \in Seq(STRING \cup {"UNSAFE_", "Unsafe", "#ifdef", "#else", "#define",
                                "#endif", "line", "U"})
    BY <1>1 DEF Spelling
  <2> HIDE DEF n
  <2>3. (<<prefix>> \o n)[1] = prefix
    BY <2>2
  <2> QED BY <2>1, <2>3
<1>3. prefix \notin Made
  BY DEF Made
<1> HIDE DEF n, prefix
<1>4. ~MadeLine(Token(ts[p].sym, UnsafeName(n)))
  BY <1>2, <1>3 DEF MadeLine, Token
<1>5. ~MadeLine(ts[p])
  BY <1>1 DEF Unmade
<1> QED BY <1>1, <1>4, <1>5 DEF n

LEMMA PartUnmade ==
  ASSUME NEW ts \in Seq(TokenType), Unmade(ts), NEW m \in 1 .. Len(ts),
         NEW n \in m .. Len(ts)
  PROVE  Unmade(SubSeq(ts, m, n))
<1>1. /\ Len(ts) \in Nat /\ SubSeq(ts, m, n) = [k \in 1 .. n - m + 1 |-> ts[m + k - 1]]
      /\ n - m + 1 \in Nat
  OBVIOUS
<1>2. Len(SubSeq(ts, m, n)) = n - m + 1
  BY <1>1
<1>3. \A k \in 1 .. n - m + 1 : m + k - 1 \in 1 .. Len(ts)
  BY <1>1
<1> QED BY <1>1, <1>2, <1>3 DEF Unmade

LEMMA CodeCloses ==
  ASSUME IsTokenList(tokens), Unmade(tokens), NEW f, f.start \in 1 .. Len(tokens),
         f.end \in 1 .. Len(tokens), f.start < f.end, Sym(f.end) # "EOF",
         f.name \in Spelling
  PROVE  Opens(unsafe_code(f)) /\ Ended(unsafe_code(f))
<1> DEFINE ts == Renamed(tokens, CallPositions(f))
           copy == SubSeq(ts, WideStart(f), WideEnd(f))
           head == Token("PPOther", <<"#ifdef">>)
           mid == Token("PPOther", <<"#else">>)
           define == Token("PPOther", <<"#define">> \o UnsafeName(f.name))
           last == Token("PPOther", <<"#endif">>)
           rest == IF copy[Len(copy)].sym = "EOL" THEN <<>> ELSE <<nl>>
           T == {head, mid, define, last, nl} \cup PlainToken
<1>1. Len(tokens) \in Nat /\ tokens \in Seq(TokenType)
  BY TokenListType
<1>2. WideStart(f) \in 1 .. f.start /\ WideEnd(f) \in f.end .. Len(tokens) - 1
  BY <1>1, WideStartInside, WideEndInside
<1>3. IsTokenList(ts) /\ Len(ts) = Len(tokens) /\ Unmade(ts) /\ ts \in Seq(TokenType)
  BY <1>1, RenamedList, RenamedUnmade, TokenListType
<1>4. copy \in Seq(PlainToken) /\ Unmade(copy) /\ Len(copy) \in Nat /\ Len(copy) > 0
  <2> HIDE DEF ts
  <2>1. /\ WideStart(f) \in 1 .. Len(ts) /\ WideEnd(f) \in WideStart(f) .. Len(ts) - 1
        /\ WideEnd(f) \in WideStart(f) .. Len(ts)
    BY <1>1, <1>2, <1>3
  <2>2. copy \in Seq(PlainToken) /\ Len(copy) = WideEnd(f) - WideStart(f) + 1
    BY <1>3, <2>1, PlainPart
  <2>3. Unmade(copy)
    BY <1>3, <2>1, PartUnmade
  <2>4. WideEnd(f) - WideStart(f) + 1 \in Nat \ {0}
    BY <1>1, <1>3, <2>1
  <2> HIDE DEF copy
  <2> QED BY <2>2, <2>3, <2>4
<1>5. MadeLine(head) /\ MadeLine(mid) /\ MadeLine(last)
  BY DEF MadeLine, Made, Token
<1>6. MadeLine(define)
  <2>1. UnsafeName(f.name) \in Seq(STRING \cup {"UNSAFE_", "Unsafe", "#ifdef", "#else",
                                              "#define", "#endif", "line", "U"})
    BY UnsafeNameType DEF Spelling
  <2>2. (<<"#define">> \o UnsafeName(f.name))[1] = "#define"
    BY <2>1
  <2> QED BY <2>2 DEF MadeLine, Made, Token
<1>7. unsafe_code(f) = <<head>> \o copy \o rest \o <<mid, define, last>>
  BY DEF unsafe_code
<1>8. rest = IF copy[Len(copy)].sym = "EOL" THEN <<>> ELSE <<nl>>
  OBVIOUS
<1>9. {head, mid, define, last, nl} \subseteq T /\ copy \in Seq(T)
  BY <1>4
<1> HIDE DEF copy, head, mid, define, last, rest, T
<1>10. <<head>> \in Seq(T) /\ rest \in Seq(T) /\ <<mid, define, last>> \in Seq(T)
  BY <1>8, <1>9
<1>11. Opens(<<head>>) /\ Ended(<<head>>)
       /\ Opens(<<mid, define, last>>) /\ Ended(<<mid, define, last>>)
  <2>1. EndsLine(head) /\ EndsLine(mid) /\ EndsLine(define) /\ EndsLine(last)
    BY <1>5, <1>6 DEF EndsLine
  <2> QED BY <2>1 DEF Opens, Ended
<1>12. Opens(<<head>> \o copy) /\ <<head>> \o copy \in Seq(T)
  <2>1. Opens(copy)
    BY <1>4, UnmadeOpens
  <2> QED BY <1>9, <1>10, <1>11, <2>1, OpensConcat, Concat
<1> DEFINE body == <<head>> \o copy
<1>13. Opens(body \o rest) /\ Ended(body \o rest) /\ body \o rest \in Seq(T)
  <2>1. CASE copy[Len(copy)].sym = "EOL"
    <3>1. rest = <<>> /\ Ended(copy)
      BY <1>4, <1>8, <2>1 DEF Ended, EndsLine
    <3>2. Ended(body)
      BY <1>9, <1>10, <3>1, EndedConcat
    <3> HIDE DEF body
    <3>3. body \o rest = body
      BY <1>12, <3>1 DEF body
    <3> QED BY <1>12, <3>2, <3>3 DEF body
  <2>2. CASE copy[Len(copy)].sym # "EOL"
    <3>1. rest = <<nl>> /\ Len(rest) = 1 /\ rest[1] = nl
      BY <1>8, <2>2
    <3>2. Opens(rest) /\ Ended(rest) /\ ~MadeLine(rest[1])
      BY <3>1, NlCloses
    <3> QED BY <1>10, <1>12, <3>2, OpensConcat, EndedConcat, Concat
  <2> QED BY <2>1, <2>2
<1> DEFINE all == body \o rest
<1>14. Opens(all \o <<mid, define, last>>) /\ Ended(all \o <<mid, define, last>>)
  <2> HIDE DEF all
  <2> QED BY <1>10, <1>11, <1>13, OpensConcat, EndedConcat DEF all
<1> QED BY <1>7, <1>14

(* What is put into the text begins lines there as well. *)
LEMMA NewBegins ==
  ASSUME NEW o \in Seq(OutType), BeginLines(o), NEW ts \in Seq(Generated), Opens(ts),
         Len(o) > 0 /\ Len(ts) > 0 => ~MadeLine(ts[1]), Len(tokens) \in Nat
  PROVE  BeginLines(o \o New(ts))
<1> DEFINE s == New(ts)
           w == o \o s
<1>1. /\ s \in Seq(OutType) /\ Len(s) = Len(ts) /\ Len(ts) \in Nat
      /\ \A k \in 1 .. Len(ts) : s[k] = Label(0, ts[k])
  BY NewType DEF New
<1>2. \A k \in 1 .. Len(ts) : /\ GeneratedLine(s[k]) <=> MadeLine(ts[k])
                              /\ s[k].sym = ts[k].sym
  <2> HIDE DEF s
  <2> SUFFICES ASSUME NEW k \in 1 .. Len(ts)
               PROVE  /\ GeneratedLine(s[k]) <=> MadeLine(ts[k])
                      /\ s[k].sym = ts[k].sym
    OBVIOUS
  <2>2. s[k] = Label(0, ts[k])
    BY <1>1
  <2>1. s[k].at = 0 /\ s[k].sym = ts[k].sym /\ s[k].str = ts[k].str
    BY ONLY <2>2 DEF Label
  <2> QED BY <2>1 DEF GeneratedLine, MadeLine
<1> HIDE DEF s
<1>5. s \in Seq(OutType)
  BY <1>1
<1>3. /\ Len(w) = Len(o) + Len(s) /\ Len(o) \in Nat /\ Len(s) \in Nat
      /\ \A k \in 1 .. Len(o) : w[k] = o[k]
      /\ \A k \in 1 .. Len(s) : w[Len(o) + k] = s[k]
  BY <1>5, Concat
<1> HIDE DEF w
<1>4. ASSUME NEW k \in 2 .. Len(w), GeneratedLine(w[k])
      PROVE  GeneratedLine(w[k - 1]) \/ w[k - 1].sym = "EOL"
  <2>1. CASE k <= Len(o)
    <3>1. k \in 2 .. Len(o) /\ w[k] = o[k] /\ w[k - 1] = o[k - 1]
      BY <1>3, <2>1
    <3> QED BY <1>4, <3>1 DEF BeginLines
  <2>2. CASE k = Len(o) + 1
    <3>1. w[k] = s[1] /\ 1 \in 1 .. Len(ts) /\ Len(o) > 0 /\ Len(ts) > 0
      BY <1>1, <1>3, <2>2
    <3> QED BY <1>2, <1>4, <3>1
  <2>3. CASE k > Len(o) + 1
    <3> DEFINE j == k - Len(o)
    <3>1. /\ j \in 2 .. Len(ts) /\ j - 1 \in 1 .. Len(s) /\ j \in 1 .. Len(s)
          /\ Len(o) + j = k /\ Len(o) + (j - 1) = k - 1
      BY <1>1, <1>3, <2>3
    <3> HIDE DEF j
    <3>2. w[k] = s[j] /\ w[k - 1] = s[j - 1] /\ j \in 1 .. Len(ts) /\ j - 1 \in 1 .. Len(ts)
      BY <1>1, <1>3, <3>1
    <3>3. EndsLine(ts[j - 1])
      BY <1>2, <1>4, <3>1, <3>2 DEF Opens
    <3> QED BY <1>2, <3>2, <3>3 DEF EndsLine
  <2> QED BY <1>3, <2>1, <2>2, <2>3
<1> QED BY <1>4 DEF BeginLines, w, s

LEMMA KeptBegins ==
  ASSUME IsTokenList(tokens), NEW n \in 0 .. Len(tokens), NEW m \in n .. Len(tokens),
         NEW o \in Seq(OutType), BeginLines(o)
  PROVE  BeginLines(o \o Kept(n + 1, m))
<1> DEFINE s == Kept(n + 1, m)
           w == o \o s
<1>1. /\ s \in Seq(OutType) /\ Len(s) = m - n /\ n \in Nat /\ m \in Nat
      /\ \A k \in 1 .. m - n : s[k] = Label(n + k, tokens[n + k])
  BY KeptType, ListEnds
<1>2. \A k \in 1 .. Len(s) : ~GeneratedLine(s[k])
  <2> HIDE DEF s
  <2> SUFFICES ASSUME NEW k \in 1 .. Len(s) PROVE ~GeneratedLine(s[k])
    OBVIOUS
  <2>1. k \in 1 .. m - n /\ n + k # 0
    BY <1>1
  <2>3. s[k] = Label(n + k, tokens[n + k])
    BY <1>1, <2>1
  <2>2. s[k].at = n + k
    BY ONLY <2>3 DEF Label
  <2> QED BY <2>1, <2>2 DEF GeneratedLine
<1> HIDE DEF s
<1>3. /\ Len(w) = Len(o) + Len(s) /\ Len(o) \in Nat /\ Len(s) \in Nat
      /\ \A k \in 1 .. Len(o) : w[k] = o[k]
      /\ \A k \in 1 .. Len(s) : w[Len(o) + k] = s[k]
  BY <1>1, Concat
<1> HIDE DEF w
<1>4. ASSUME NEW k \in 2 .. Len(w), GeneratedLine(w[k])
      PROVE  GeneratedLine(w[k - 1]) \/ w[k - 1].sym = "EOL"
  <2>1. CASE k <= Len(o)
    <3>1. k \in 2 .. Len(o) /\ w[k] = o[k] /\ w[k - 1] = o[k - 1]
      BY <1>3, <2>1
    <3> QED BY <1>4, <3>1 DEF BeginLines
  <2>2. CASE k > Len(o)
    <3> DEFINE j == k - Len(o)
    <3>1. j \in 1 .. Len(s) /\ Len(o) + j = k
      BY <1>3, <2>2
    <3> HIDE DEF j
    <3> QED BY <1>2, <1>3, <1>4, <3>1
  <2> QED BY <1>3, <2>1, <2>2
<1> QED BY <1>4 DEF BeginLines, w, s

-----------------------------------------------------------------------------
(* The lines of a text, one after another; *)
LEMMA LinesAre ==
  ASSUME NEW T, NEW ts \in Seq(T)
  PROVE  /\ LinesOf(ts)[1] = 1
         /\ \A k \in 1 .. Len(ts) : LinesOf(ts)[k + 1] = LineAfter(ts[k], LinesOf(ts)[k])
<1> DEFINE N == Len(ts) + 1
           Step(v, k) == LineAfter(ts[k - 1], v)
           Is(f, n) == f = [k \in 1 .. n |-> IF k = 1 THEN 1 ELSE Step(f[k - 1], k)]
<1>1. Len(ts) \in Nat /\ N \in Nat
  OBVIOUS
<1>2. \A n \in Nat : \E f : Is(f, n)
  <2> HIDE DEF Step
  <2> DEFINE S == {n \in Nat : \E f : Is(f, n)}
  <2>1. 0 \in S
    <3>1. Is([k \in 1 .. 0 |-> 1], 0)
      OBVIOUS
    <3> QED BY <3>1
  <2>2. ASSUME NEW n \in Nat, n \in S PROVE n + 1 \in S
    <3>1. PICK f : Is(f, n)
      BY <2>2
    <3> DEFINE g == [k \in 1 .. n + 1 |-> IF k <= n THEN f[k]
                                          ELSE IF k = 1 THEN 1 ELSE Step(f[k - 1], k)]
    <3>2. Is(g, n + 1)
      BY <3>1
    <3> HIDE DEF Is
    <3> QED BY <3>2
  <2> HIDE DEF S
  <2>3. \A n \in Nat : n \in S
    BY <2>1, <2>2, NatInd
  <2> QED BY <2>3 DEF S
<1>3. PICK line : Is(line, N) /\ LinesOf(ts) = line
  <2> DEFINE line == CHOOSE f : Is(f, N)
  <2>1. LinesOf(ts) = line
    BY DEF LinesOf
  <2> HIDE DEF Is
  <2>2. Is(line, N)
    BY <1>1, <1>2
  <2> QED BY <2>1, <2>2
<1>4. line[1] = 1
  BY <1>1, <1>3
<1>5. ASSUME NEW k \in 1 .. Len(ts)
      PROVE  line[k + 1] = LineAfter(ts[k], line[k])
  <2>1. k + 1 \in 1 .. N /\ k + 1 # 1 /\ k + 1 - 1 = k
    BY <1>1
  <2>3. \A x \in 1 .. N : line[x] = IF x = 1 THEN 1 ELSE Step(line[x - 1], x)
    <3> HIDE DEF Step, N
    <3> QED BY <1>3
  <2>2. line[k + 1] = Step(line[k + 1 - 1], k + 1)
    <3> HIDE DEF Step, N
    <3> QED BY <2>1, <2>3
  <2> QED BY <2>1, <2>2
<1> QED BY <1>3, <1>4, <1>5

(* and those of the header. *)
LEMMA LinenosAre ==
  ASSUME Len(tokens) \in Nat \ {0}
  PROVE  /\ Lineno(1) = 1
         /\ \A p \in 1 .. Len(tokens) - 1 :
               Lineno(p + 1) = Lineno(p) + Newlines(tokens[p])
<1> DEFINE N == Len(tokens)
           Step(v, k) == v + Newlines(tokens[k - 1])
           Is(f, n) == f = [k \in 1 .. n |-> IF k = 1 THEN 1 ELSE Step(f[k - 1], k)]
<1>2. \A n \in Nat : \E f : Is(f, n)
  <2> HIDE DEF Step
  <2> DEFINE S == {n \in Nat : \E f : Is(f, n)}
  <2>1. 0 \in S
    <3>1. Is([k \in 1 .. 0 |-> 1], 0)
      OBVIOUS
    <3> QED BY <3>1
  <2>2. ASSUME NEW n \in Nat, n \in S PROVE n + 1 \in S
    <3>1. PICK f : Is(f, n)
      BY <2>2
    <3> DEFINE g == [k \in 1 .. n + 1 |-> IF k <= n THEN f[k]
                                          ELSE IF k = 1 THEN 1 ELSE Step(f[k - 1], k)]
    <3>2. Is(g, n + 1)
      BY <3>1
    <3> HIDE DEF Is
    <3> QED BY <3>2
  <2> HIDE DEF S
  <2>3. \A n \in Nat : n \in S
    BY <2>1, <2>2, NatInd
  <2> QED BY <2>3 DEF S
<1>3. PICK line : Is(line, N) /\ linenos = line
  <2> DEFINE line == CHOOSE f : Is(f, N)
  <2>1. linenos = line
    BY DEF linenos
  <2> HIDE DEF Is
  <2>2. Is(line, N)
    BY <1>2
  <2> QED BY <2>1, <2>2
<1>4. line[1] = 1
  BY <1>3
<1>5. ASSUME NEW p \in 1 .. N - 1
      PROVE  line[p + 1] = line[p] + Newlines(tokens[p])
  <2>1. p + 1 \in 1 .. N /\ p + 1 # 1 /\ p + 1 - 1 = p
    OBVIOUS
  <2>3. \A x \in 1 .. N : line[x] = IF x = 1 THEN 1 ELSE Step(line[x - 1], x)
    <3> HIDE DEF Step, N
    <3> QED BY <1>3
  <2>2. line[p + 1] = Step(line[p + 1 - 1], p + 1)
    <3> HIDE DEF Step, N
    <3> QED BY <2>1, <2>3
  <2> QED BY <2>1, <2>2
<1> QED BY <1>3, <1>4, <1>5 DEF Lineno

(* What is added at the end changes no line before it. *)
LEMMA LinesBefore ==
  ASSUME NEW T, NEW o \in Seq(T), NEW s \in Seq(T)
  PROVE  \A k \in 1 .. Len(o) + 1 : LinesOf(o \o s)[k] = LinesOf(o)[k]
<1> DEFINE w == o \o s
           l == LinesOf(w)
           m == LinesOf(o)
           S == {k \in Nat : k <= Len(o) => l[k + 1] = m[k + 1]}
<1>1. /\ w \in Seq(T) /\ Len(w) = Len(o) + Len(s) /\ Len(o) \in Nat /\ Len(s) \in Nat
      /\ \A k \in 1 .. Len(o) : w[k] = o[k]
  BY Concat
<1> HIDE DEF w
<1>2. /\ l[1] = 1 /\ m[1] = 1
      /\ \A k \in 1 .. Len(w) : l[k + 1] = LineAfter(w[k], l[k])
      /\ \A k \in 1 .. Len(o) : m[k + 1] = LineAfter(o[k], m[k])
  BY <1>1, LinesAre
<1> HIDE DEF l, m
<1>3. 0 \in S
  BY <1>2
<1>4. ASSUME NEW k \in Nat, k \in S PROVE k + 1 \in S
  <2> SUFFICES ASSUME k + 1 <= Len(o) PROVE l[k + 1 + 1] = m[k + 1 + 1]
    OBVIOUS
  <2>1. k + 1 \in 1 .. Len(o) /\ k + 1 \in 1 .. Len(w) /\ l[k + 1] = m[k + 1]
    BY <1>1, <1>4
  <2> QED BY <1>1, <1>2, <2>1
<1> HIDE DEF S
<1>5. \A k \in Nat : k \in S
  BY <1>3, <1>4, NatInd
<1>6. ASSUME NEW k \in 1 .. Len(o) + 1 PROVE l[k] = m[k]
  <2>1. k - 1 \in Nat /\ k - 1 <= Len(o) /\ k - 1 + 1 = k
    BY <1>1
  <2>2. k - 1 \in S
    BY <1>5, <2>1
  <2> QED BY <2>1, <2>2 DEF S
<1> QED BY <1>6 DEF l, m, w

(* The part of the text that is the header's has the header's lines, *)
LEMMA KeptLines ==
  ASSUME IsTokenList(tokens), NEW n \in 0 .. Len(tokens) - 1, NEW m \in n .. Len(tokens),
         NEW o \in Seq(OutType), LinesKept(o), LinesOf(o)[Len(o) + 1] = Lineno(n + 1)
  PROVE  /\ LinesKept(o \o Kept(n + 1, m))
         /\ m < Len(tokens) =>
              LinesOf(o \o Kept(n + 1, m))[Len(o \o Kept(n + 1, m)) + 1] = Lineno(m + 1)
<1> DEFINE s == Kept(n + 1, m)
           w == o \o s
           l == LinesOf(w)
           N == Len(tokens)
           S == {j \in Nat : j <= m - n /\ n + j < N => l[Len(o) + j + 1] = Lineno(n + j + 1)}
<1>1. /\ s \in Seq(OutType) /\ Len(s) = m - n /\ n \in Nat /\ m \in Nat /\ n < N
      /\ N \in Nat \ {0} /\ n <= m /\ m <= N
      /\ \A k \in 1 .. m - n : s[k] = Label(n + k, tokens[n + k])
  <2>1. N \in Nat \ {0} /\ n \in 0 .. N /\ n \in Nat /\ m \in Nat /\ n < N /\ n <= m /\ m <= N
    BY TokenListType
  <2> HIDE DEF s, N
  <2> QED BY <2>1, KeptType DEF s, N
<1> HIDE DEF s
<1>2. /\ w \in Seq(OutType) /\ Len(w) = Len(o) + Len(s) /\ Len(o) \in Nat
      /\ \A k \in 1 .. Len(o) : w[k] = o[k]
      /\ \A k \in 1 .. Len(s) : w[Len(o) + k] = s[k]
  BY <1>1, Concat
<1>3. \A k \in 1 .. Len(o) + 1 : l[k] = LinesOf(o)[k]
  BY <1>1, LinesBefore
<1> HIDE DEF w
<1>4. \A k \in 1 .. Len(w) : l[k + 1] = LineAfter(w[k], l[k])
  BY <1>2, LinesAre
<1> HIDE DEF l
<1>5. \A p \in 1 .. N - 1 : Lineno(p + 1) = Lineno(p) + Newlines(tokens[p])
  BY <1>1, LinenosAre
<1> HIDE DEF N
<1>6. 0 \in S
  <2>1. l[Len(o) + 1] = Lineno(n + 1)
    BY <1>2, <1>3
  <2>2. Len(o) + 0 + 1 = Len(o) + 1 /\ n + 0 + 1 = n + 1
    BY <1>1, <1>2
  <2> QED BY <2>1, <2>2
<1>7. ASSUME NEW j \in Nat, j \in S PROVE j + 1 \in S
  <2> SUFFICES ASSUME j + 1 <= m - n, n + (j + 1) < N
               PROVE  l[Len(o) + (j + 1) + 1] = Lineno(n + (j + 1) + 1)
    OBVIOUS
  <2> DEFINE k == Len(o) + (j + 1)
             p == n + (j + 1)
  <2>1. /\ k \in 1 .. Len(w) /\ p \in 1 .. N - 1 /\ j + 1 \in 1 .. Len(s)
        /\ j + 1 \in 1 .. m - n /\ p # 0
        /\ k = Len(o) + j + 1 /\ p = n + j + 1 /\ j <= m - n /\ n + j < N
    BY <1>1, <1>2
  <2>2. l[k] = Lineno(p)
    BY <1>7, <2>1
  <2>3. w[k] = Label(p, tokens[p])
    <3>1. w[k] = s[j + 1]
      BY <1>2, <2>1
    <3> QED BY <1>1, <2>1, <3>1
  <2> HIDE DEF k, p
  <2>4. w[k].at = p /\ w[k].sym = tokens[p].sym /\ w[k].str = tokens[p].str
    BY ONLY <2>3 DEF Label
  <2>5. Newlines(w[k]) = Newlines(tokens[p])
    BY <2>4 DEF Newlines
  <2>6. LineAfter(w[k], l[k]) = l[k] + Newlines(w[k])
    BY <2>1, <2>4 DEF LineAfter, GeneratedLine
  <2>7. l[k + 1] = Lineno(p + 1)
    BY <1>4, <1>5, <2>1, <2>2, <2>5, <2>6
  <2> QED BY <2>7 DEF k, p
<1> HIDE DEF S
<1>8. \A j \in Nat : j \in S
  BY <1>6, <1>7, NatInd
<1>9. ASSUME NEW j \in Nat, j <= m - n, n + j < N
      PROVE  l[Len(o) + j + 1] = Lineno(n + j + 1)
  BY <1>8, <1>9 DEF S
<1>10. ASSUME NEW k \in 1 .. Len(w), w[k].at # 0
       PROVE  l[k] = Lineno(w[k].at)
  <2>1. CASE k <= Len(o)
    <3>1. k \in 1 .. Len(o) /\ k \in 1 .. Len(o) + 1 /\ w[k] = o[k] /\ l[k] = LinesOf(o)[k]
      BY <1>2, <1>3, <2>1
    <3> QED BY <1>10, <3>1 DEF LinesKept
  <2>2. CASE k > Len(o)
    <3> DEFINE j == k - Len(o) - 1
    <3>1. /\ j \in Nat /\ j <= m - n /\ n + j < N /\ j + 1 \in 1 .. Len(s)
          /\ j + 1 \in 1 .. m - n /\ Len(o) + (j + 1) = k /\ Len(o) + j + 1 = k
          /\ n + (j + 1) = n + j + 1
      BY <1>1, <1>2, <2>2
    <3> HIDE DEF j
    <3>2. w[k] = s[j + 1]
      BY <1>2, <3>1
    <3>3. w[k] = Label(n + j + 1, tokens[n + j + 1])
      BY <1>1, <3>1, <3>2
    <3>4. w[k].at = n + j + 1
      BY ONLY <3>3 DEF Label
    <3> QED BY <1>9, <3>1, <3>4
  <2> QED BY <1>2, <2>1, <2>2
<1>11. LinesKept(w)
  BY <1>10 DEF LinesKept, l
<1>12. m < N => l[Len(w) + 1] = Lineno(m + 1)
  <2> SUFFICES ASSUME m < N PROVE l[Len(w) + 1] = Lineno(m + 1)
    OBVIOUS
  <2> DEFINE j == m - n
  <2>1. j \in Nat /\ j <= m - n /\ n + j < N /\ n + j = m /\ Len(w) = Len(o) + j
    BY <1>1, <1>2
  <2>2. l[Len(o) + j + 1] = Lineno(n + j + 1)
    BY <1>9, <2>1
  <2> HIDE DEF j
  <2> QED BY <2>1, <2>2
<1> QED BY <1>11, <1>12 DEF l, w, s, N

(* and a #line directive says what the next line is. *)
LEMMA NewLines ==
  ASSUME NEW o \in Seq(OutType), LinesKept(o), NEW ts \in Seq(Generated), Len(ts) > 0,
         NEW p, ts[Len(ts)] = LineDirective(p), Lineno(p) \in Line, Len(tokens) \in Nat
  PROVE  /\ LinesKept(o \o New(ts))
         /\ LinesOf(o \o New(ts))[Len(o \o New(ts)) + 1] = Lineno(p)
<1> DEFINE s == New(ts)
           w == o \o s
           l == LinesOf(w)
<1>1. /\ s \in Seq(OutType) /\ Len(s) = Len(ts) /\ Len(ts) \in Nat
      /\ \A k \in 1 .. Len(ts) : s[k].at = 0
  BY NewType
<1>2. s[Len(s)] = Label(0, LineDirective(p))
  <2>1. s = [k \in 1 .. Len(ts) |-> Label(0, ts[k])] /\ Len(ts) \in 1 .. Len(ts)
    BY <1>1 DEF New
  <2> HIDE DEF s
  <2> QED BY <1>1, <2>1
<1> HIDE DEF s
<1>3. s \in Seq(OutType)
  BY <1>1
<1>4. /\ w \in Seq(OutType) /\ Len(w) = Len(o) + Len(s) /\ Len(o) \in Nat
      /\ \A k \in 1 .. Len(o) : w[k] = o[k]
      /\ \A k \in 1 .. Len(s) : w[Len(o) + k] = s[k]
  BY <1>3, Concat
<1>5. \A k \in 1 .. Len(o) + 1 : l[k] = LinesOf(o)[k]
  BY <1>3, LinesBefore
<1> HIDE DEF w
<1>6. \A k \in 1 .. Len(w) : l[k + 1] = LineAfter(w[k], l[k])
  BY <1>4, LinesAre
<1> HIDE DEF l
<1>7. ASSUME NEW k \in 1 .. Len(w), w[k].at # 0
      PROVE  l[k] = Lineno(w[k].at)
  <2>1. CASE k <= Len(o)
    <3>1. k \in 1 .. Len(o) /\ k \in 1 .. Len(o) + 1 /\ w[k] = o[k] /\ l[k] = LinesOf(o)[k]
      BY <1>4, <1>5, <2>1
    <3> QED BY <1>7, <3>1 DEF LinesKept
  <2>2. CASE k > Len(o)
    <3> DEFINE j == k - Len(o)
    <3>1. j \in 1 .. Len(s) /\ Len(o) + j = k
      BY <1>1, <1>4, <2>2
    <3> HIDE DEF j
    <3> QED BY <1>1, <1>4, <1>7, <3>1
  <2> QED BY <1>4, <2>1, <2>2
<1>8. LinesKept(w)
  BY <1>7 DEF LinesKept, l
<1>9. l[Len(w) + 1] = Lineno(p)
  <2> DEFINE d == w[Len(w)]
             n == Lineno(p)
  <2>1. Len(w) \in 1 .. Len(w) /\ Len(s) \in 1 .. Len(s) /\ d = s[Len(s)]
    BY <1>1, <1>4
  <2>2. d = Label(0, Token("PPOther", <<"#line", Numeral(n)>>))
    BY <1>2, <2>1 DEF LineDirective
  <2> HIDE DEF d
  <2>3. d.at = 0 /\ d.sym = "PPOther" /\ d.str = <<"#line", Numeral(n)>>
    BY ONLY <2>2 DEF Label, Token
  <2>4. d.str[1] = "#line" /\ d.str[2] = Numeral(n)
    BY <2>3
  <2>5. GeneratedLine(d)
    BY <2>3, <2>4 DEF GeneratedLine, MadeLine, Made
  <2>6. LineAfter(d, l[Len(w)]) = CHOOSE x \in Line : Numeral(x) = Numeral(n)
    BY <2>4, <2>5 DEF LineAfter
  <2>7. (CHOOSE x \in Line : Numeral(x) = Numeral(n)) = n
    <3> HIDE DEF n
    <3>1. n \in Line
      BY DEF n
    <3> QED BY <3>1, NumeralAssumption
  <2> QED BY <1>6, <2>1, <2>6, <2>7 DEF d, n
<1> QED BY <1>8, <1>9 DEF l, w, s

(* What is added to a header is not made by the program. *)
LEMMA SectionUnmade ==
  ASSUME NEW ts, IsTokenList(ts), Unmade(ts), NEW sec \in NewSection \cup {<<>>}
  PROVE  Unmade(WithSection(ts, sec))
<1> DEFINE eof == Token("EOF", <<>>)
           a == SubSeq(ts, 1, Len(ts) - 1)
           b == a \o sec
           T == {eof} \cup TokenType
<1>1. ts \in Seq(TokenType) /\ Len(ts) \in Nat \ {0}
  BY TokenListType
<1>2. a \in Seq(TokenType) /\ Unmade(a)
  <2>1. CASE Len(ts) = 1
    <3>1. a = <<>>
      BY <1>1, <2>1
    <3> QED BY <3>1 DEF Unmade
  <2>2. CASE Len(ts) # 1
    <3>1. 1 \in 1 .. Len(ts) /\ Len(ts) - 1 \in 1 .. Len(ts)
      <4> DEFINE N == Len(ts)
      <4>1. N \in Nat \ {0} /\ N # 1
        BY <1>1, <2>2
      <4> HIDE DEF N
      <4>2. 1 \in 1 .. N /\ N - 1 \in 1 .. N
        BY <4>1
      <4> QED BY <4>2 DEF N
    <3>2. Unmade(a)
      BY <1>1, <3>1, PartUnmade
    <3> QED BY <1>1, <3>1, <3>2
  <2> QED BY <2>1, <2>2
<1>3. sec \in Seq(TokenType) /\ Unmade(sec)
  <2>1. CASE sec = <<>>
    BY <2>1 DEF Unmade
  <2>2. CASE sec \in NewSection
    <3>1. Unmade(sec)
      BY <2>2, DirectiveAssumption DEF Unmade
    <3>2. sec \in Seq(PlainToken)
      BY <2>2, SectionAssumption DEF PlainToken
    <3>3. PlainToken \subseteq TokenType
      BY DEF PlainToken, TokenType
    <3> QED BY <3>1, <3>2, <3>3
  <2> QED BY <2>1, <2>2
<1>4. ~MadeLine(eof)
  BY DEF MadeLine, Token
<1>5. WithSection(ts, sec) = b \o <<eof>>
  BY DEF WithSection
<1>6. eof \in T /\ TokenType \subseteq T
  OBVIOUS
<1> HIDE DEF a, eof, T
<1>7. /\ Len(b) = Len(a) + Len(sec) /\ Len(a) \in Nat /\ Len(sec) \in Nat
      /\ b \in Seq(TokenType)
      /\ \A k \in 1 .. Len(a) : b[k] = a[k]
      /\ \A k \in 1 .. Len(sec) : b[Len(a) + k] = sec[k]
  BY <1>2, <1>3, Concat
<1> HIDE DEF b
<1>8. ASSUME NEW k \in 1 .. Len(b) PROVE ~MadeLine(b[k])
  <2>1. CASE k <= Len(a)
    BY <1>2, <1>7, <2>1 DEF Unmade
  <2>2. CASE k > Len(a)
    <3> DEFINE j == k - Len(a)
    <3>1. j \in 1 .. Len(sec) /\ Len(a) + j = k
      BY <1>7, <2>2
    <3> HIDE DEF j
    <3> QED BY <1>3, <1>7, <3>1 DEF Unmade
  <2> QED BY <1>7, <2>1, <2>2
<1> DEFINE w == b \o <<eof>>
<1>9. /\ Len(w) = Len(b) + 1 /\ Len(b) \in Nat /\ w[Len(b) + 1] = eof
      /\ \A k \in 1 .. Len(b) : w[k] = b[k]
  <2>1. b \in Seq(T) /\ <<eof>> \in Seq(T) /\ Len(<<eof>>) = 1 /\ <<eof>>[1] = eof
    BY <1>6, <1>7
  <2>2. /\ Len(w) = Len(b) + Len(<<eof>>) /\ Len(b) \in Nat
        /\ \A k \in 1 .. Len(b) : w[k] = b[k]
        /\ \A k \in 1 .. Len(<<eof>>) : w[Len(b) + k] = <<eof>>[k]
    BY <2>1, Concat
  <2> HIDE DEF w
  <2> QED BY <2>1, <2>2
<1> HIDE DEF w
<1>10. ASSUME NEW k \in 1 .. Len(w) PROVE ~MadeLine(w[k])
  <2>1. CASE k \in 1 .. Len(b)
    BY <1>8, <1>9, <2>1
  <2>2. CASE k = Len(b) + 1
    BY <1>4, <1>9, <2>2
  <2> QED BY <1>9, <2>1, <2>2
<1> QED BY <1>5, <1>10 DEF Unmade, w

-----------------------------------------------------------------------------
(* What is known of the lines in each phase: *)
Numbered == \A p \in 1 .. Len(tokens) : Lineno(p) \in Line

BlocksClose ==
    \A ix \in 1 .. Len(gen) : Opens(gen[ix].code) /\ Ended(gen[ix].code)

(* the text so far has the header's lines, and goes on with the line of    *)
(* the next token.                                                         *)
LinesGo(o, n) ==
    linedirs /\ Numbered =>
      /\ LinesKept(o)
      /\ n < Len(tokens) => LinesOf(o)[Len(o) + 1] = Lineno(n + 1)

LineInv ==
    /\ Unmade(tokens)
    /\ phase \in {"generate", "splice"} => BlocksClose
    /\ phase \in {"splice", "done"} => BeginLines(out) /\ LinesGo(out, copied)

(* It depends on the tokens only. *)
LEMMA SameLines ==
  ASSUME tokens' = tokens, linedirs' = linedirs, BeginLines(out'), LinesGo(out', copied')
  PROVE  BeginLines(out)' /\ LinesGo(out, copied)'
<1>1. ASSUME NEW p PROVE Lineno(p)' = Lineno(p)
  BY DEF Lineno, linenos
<1>2. Numbered' = Numbered
  BY <1>1 DEF Numbered
<1>3. LinesKept(out') = LinesKept(out)'
  BY <1>1 DEF LinesKept
<1>4. LinesGo(out, copied)'
  BY <1>1, <1>2, <1>3 DEF LinesGo
<1> QED BY <1>4 DEF BeginLines

LEMMA LineInitInv == Init => LineInv
<1> SUFFICES ASSUME Init PROVE LineInv
  OBVIOUS
<1>1. PICK ts \in Header, sec \in NewSection : tokens = WithSection(ts, sec)
  BY DEF Init
<1>2. IsTokenList(ts) /\ Unmade(ts)
  BY HeaderAssumption, DirectiveAssumption DEF Unmade
<1>3. Unmade(tokens) /\ phase = "scan"
  BY <1>1, <1>2, SectionUnmade DEF Init
<1> QED BY <1>3 DEF LineInv

LEMMA GenerateLines ==
  ASSUME IInv, LineInv, GenUnsafeCode
  PROVE  LineInv'
<1> DEFINE ix == First(todo)
           f == funcs[ix]
           g == [start |-> WideStart(f), end |-> WideEnd(f), code |-> unsafe_code(f)]
<1>1. /\ phase = "generate" /\ phase' = "generate" /\ todo # {}
      /\ gen' = IF Generates(f) THEN Append(gen, g) ELSE gen
      /\ tokens' = tokens
  BY DEF GenUnsafeCode
<1>2. /\ IsTokenList(tokens) /\ Placed /\ BlocksInOrder /\ BlocksAhead
      /\ Unmade(tokens) /\ BlocksClose
  BY <1>1 DEF IInv, Rewriting, LineInv
<1>3. ix \in 1 .. Len(funcs)
  <2>1. todo \subseteq 1 .. Len(funcs) /\ funcs \in Seq(FuncType)
    BY <1>2 DEF BlocksAhead, Placed
  <2>2. todo \in SUBSET Nat
    BY <2>1
  <2>3. ix \in todo
    BY <1>1, <2>2, FirstIn
  <2> QED BY <2>1, <2>3
<1> HIDE DEF ix
<1>4. Opens(g.code) /\ Ended(g.code)
  <2>1. /\ f.start \in 1 .. Len(tokens) /\ f.end \in 1 .. Len(tokens)
        /\ f.start < f.end /\ Sym(f.end) # "EOF" /\ f.name \in Spelling
    BY <1>2, <1>3, PlacedFunc
  <2> HIDE DEF f
  <2> QED BY <1>2, <2>1, CodeCloses
<1> HIDE DEF g, f
<1>5. BlocksClose'
  <2>1. gen \in Seq(BlockType)
    BY <1>2 DEF BlocksInOrder
  <2> SUFFICES ASSUME NEW k \in 1 .. Len(gen')
               PROVE  Opens(gen'[k].code) /\ Ended(gen'[k].code)
    BY DEF BlocksClose, Opens, Ended, EndsLine, MadeLine
  <2>2. \/ k \in 1 .. Len(gen) /\ gen'[k] = gen[k]
        \/ gen'[k] = g
    BY <1>1, <2>1
  <2> QED BY <1>2, <1>4, <2>2 DEF BlocksClose
<1> QED BY <1>1, <1>2, <1>5 DEF LineInv, Unmade

LEMMA GenerateEndLines ==
  ASSUME IInv, LineInv, GenUnsafeCodeEnd
  PROVE  LineInv'
<1>1. /\ phase = "generate" /\ phase' = "splice" /\ tokens' = tokens /\ gen' = gen
      /\ out' = (IF Listed THEN New(LineDir(1)) ELSE <<>>) /\ copied' = copied
      /\ linedirs' = linedirs
  BY DEF GenUnsafeCodeEnd, history
<1>2. /\ IsTokenList(tokens) /\ copied = 0 /\ Unmade(tokens) /\ BlocksClose
  BY <1>1 DEF IInv, LineInv
<1>3. Len(tokens) \in Nat \ {0}
  BY <1>2, TokenListType
<1>4. Lineno(1) = 1
  BY <1>3, LinenosAre
<1>5. <<>> \in Seq(OutType) /\ BeginLines(<<>>) /\ LinesKept(<<>>)
      /\ LinesOf(<<>>)[Len(<<>>) + 1] = 1
  <2>1. LinesOf(<<>>)[1] = 1
    <3>1. <<>> \in Seq(OutType)
      OBVIOUS
    <3> QED BY <3>1, LinesAre
  <2> QED BY <2>1 DEF BeginLines, LinesKept
<1>6. BeginLines(out') /\ LinesGo(out', 0)
  <2>1. CASE ~Listed
    BY <1>1, <1>4, <1>5, <2>1 DEF LinesGo
  <2>2. CASE Listed
    <3> DEFINE ts == LineDir(1)
    <3>1. ts \in Seq(Generated) /\ (Opens(ts) \/ ts = <<>>)
      BY <1>3, LineDirType, DirCloses
    <3>2. Opens(ts) /\ (linedirs => Len(ts) > 0 /\ ts[Len(ts)] = LineDirective(1))
      BY <3>1, DirCloses DEF Opens
    <3>3. <<>> \o New(ts) = out'
      <4> DEFINE s == New(ts)
      <4>1. s \in Seq(OutType)
        BY <1>3, <3>1, NewType
      <4> HIDE DEF s
      <4>2. <<>> \o s = s
        BY <4>1
      <4> QED BY <1>1, <2>2, <4>2 DEF s
    <3> HIDE DEF ts
    <3>4. BeginLines(<<>> \o New(ts))
      <4> DEFINE e == <<>>
      <4>1. Len(e) = 0 /\ e \in Seq(OutType) /\ BeginLines(e)
        BY <1>5
      <4> HIDE DEF e
      <4>3. Len(e) > 0 /\ Len(ts) > 0 => ~MadeLine(ts[1])
        BY <4>1
      <4>4. Len(tokens) \in Nat /\ ts \in Seq(Generated) /\ Opens(ts)
        BY <1>3, <3>1, <3>2
      <4>2. BeginLines(e \o New(ts))
        BY ONLY <4>1, <4>3, <4>4, NewBegins
      <4> QED BY <4>2 DEF e
    <3>5. ASSUME linedirs, Numbered
          PROVE  /\ LinesKept(<<>> \o New(ts))
                 /\ LinesOf(<<>> \o New(ts))[Len(<<>> \o New(ts)) + 1] = Lineno(1)
      <4>1. Lineno(1) \in Line
        BY <1>3, <3>5 DEF Numbered
      <4> QED BY <1>3, <1>5, <3>1, <3>2, <3>5, <4>1, NewLines
    <3> QED BY <3>3, <3>4, <3>5 DEF LinesGo
  <2> QED BY <2>1, <2>2
<1>7. copied' = 0
  BY <1>1, <1>2
<1>8. BeginLines(out)' /\ LinesGo(out, copied)'
  BY <1>1, <1>6, <1>7, SameLines
<1> QED BY <1>1, <1>2, <1>8 DEF LineInv, BlocksClose, Unmade, Opens, Ended, EndsLine, MadeLine

LEMMA SpliceLines ==
  ASSUME IInv, LineInv, SpliceFunc
  PROVE  LineInv'
<1> DEFINE ix == First(todo)
           g == gen[ix]
           first == <<nl, nl>> \o LineDir(g.start)
           block == first \o g.code
           ts == block \o LineDir(g.end + 1)
           kept == out \o Kept(copied + 1, g.end)
<1>1. /\ phase = "splice" /\ phase' = "splice" /\ todo # {} /\ tokens' = tokens
      /\ out' = kept \o New(ts) /\ copied' = g.end /\ gen' = gen /\ linedirs' = linedirs
  BY DEF SpliceFunc, history
<1>2. /\ IsTokenList(tokens) /\ BlocksInOrder /\ SpliceInv /\ Unmade(tokens)
      /\ BlocksClose /\ BeginLines(out) /\ LinesGo(out, copied)
  BY <1>1 DEF IInv, LineInv
<1>3. /\ Len(tokens) \in Nat \ {0} /\ Len(gen) \in Nat /\ todo \subseteq 1 .. Len(gen)
      /\ copied \in 0 .. Len(tokens) - 1 /\ copied \in 0 .. Len(tokens)
      /\ out \in Seq(OutType)
  BY <1>2, TokenListType DEF BlocksInOrder, SpliceInv, HoldsUpto
<1>4. ix \in todo /\ ix \in 1 .. Len(gen)
  <2>1. todo \in SUBSET Nat
    BY <1>3
  <2> QED BY <1>1, <1>3, <2>1, FirstIn
<1> HIDE DEF ix
<1>5. /\ g \in BlockType /\ copied <= g.end
      /\ g.start \in 1 .. Len(tokens) /\ g.end \in 1 .. Len(tokens) - 1
      /\ g.code \in Seq(PlainToken) /\ Opens(g.code) /\ Ended(g.code)
      /\ g.end + 1 \in 1 .. Len(tokens) /\ g.end \in copied .. Len(tokens)
  <2>1. g \in BlockType
    BY <1>2, <1>4, ElementType DEF BlocksInOrder
  <2>2. copied <= g.end /\ Opens(g.code) /\ Ended(g.code)
    BY <1>2, <1>4 DEF SpliceInv, BlocksClose
  <2>3. g.start \in 1 .. Len(tokens) /\ g.end \in 1 .. Len(tokens) - 1
        /\ g.code \in Seq(PlainToken)
    BY <2>1 DEF BlockType
  <2> HIDE DEF g
  <2>4. g.end + 1 \in 1 .. Len(tokens) /\ g.end \in copied .. Len(tokens)
    BY <1>3, <2>2, <2>3
  <2> QED BY <2>1, <2>2, <2>3, <2>4
<1> HIDE DEF g
<1>6. /\ <<nl, nl>> \in Seq(Generated) /\ g.code \in Seq(Generated)
      /\ LineDir(g.start) \in Seq(Generated) /\ LineDir(g.end + 1) \in Seq(Generated)
  <2>1. PlainToken \subseteq Generated
    BY DEF Generated
  <2> QED BY <1>5, <2>1, PlainTokens, LineDirType
<1>7. \A d \in {LineDir(g.start), LineDir(g.end + 1)} :
         /\ Opens(d) /\ (Ended(d) \/ Len(d) = 0)
         /\ d \in Seq(Generated)
  <2> SUFFICES ASSUME NEW p \in {g.start, g.end + 1}
               PROVE  Opens(LineDir(p)) /\ (Ended(LineDir(p)) \/ Len(LineDir(p)) = 0)
    BY <1>6
  <2>1. (Opens(LineDir(p)) /\ Ended(LineDir(p))) \/ LineDir(p) = <<>>
    BY DirCloses
  <2>2. Opens(<<>>) /\ Len(<<>>) = 0
    BY DEF Opens
  <2> QED BY <2>1, <2>2
<1>8. first \in Seq(Generated) /\ Opens(first) /\ Ended(first) /\ first[1] = nl
  <2> DEFINE two == <<nl, nl>>
             d == LineDir(g.start)
  <2>1. two \in Seq(Generated) /\ Opens(two) /\ Ended(two) /\ Len(two) = 2 /\ two[1] = nl
    BY <1>6, NlCloses
  <2>2. d \in Seq(Generated) /\ Opens(d) /\ (Ended(d) \/ Len(d) = 0)
    BY <1>7
  <2> HIDE DEF two, d
  <2>3. two \o d \in Seq(Generated) /\ Opens(two \o d) /\ Ended(two \o d)
    BY <2>1, <2>2, OpensConcat, EndedConcat, Concat
  <2>4. (two \o d)[1] = nl
    <3>1. 1 \in 1 .. Len(two)
      BY <2>1
    <3> QED BY <2>1, <2>2, <3>1, Concat
  <2> QED BY <2>3, <2>4 DEF two, d
<1> HIDE DEF first
<1>9. block \in Seq(Generated) /\ Opens(block) /\ Ended(block) /\ block[1] = nl
  <2>1. block \in Seq(Generated) /\ Opens(block) /\ Ended(block)
    BY <1>5, <1>6, <1>8, OpensConcat, EndedConcat, Concat
  <2>2. Len(first) > 0 /\ Len(first) \in Nat
    BY <1>8 DEF Ended
  <2>3. block[1] = first[1]
    BY <1>6, <1>8, <2>2
  <2> QED BY <1>8, <2>1, <2>3
<1> HIDE DEF block
<1>10. /\ ts \in Seq(Generated) /\ Opens(ts) /\ ts[1] = nl /\ Len(ts) > 0
       /\ linedirs => ts[Len(ts)] = LineDirective(g.end + 1)
  <2> DEFINE d == LineDir(g.end + 1)
  <2>1. d \in Seq(Generated) /\ Opens(d)
    BY <1>7
  <2>2. linedirs => Len(d) > 0 /\ d[Len(d)] = LineDirective(g.end + 1)
    BY DirCloses
  <2> HIDE DEF d
  <2>3. block \o d \in Seq(Generated) /\ Opens(block \o d)
    BY <1>9, <2>1, OpensConcat, Concat
  <2>4. Len(block) > 0 /\ Len(block) \in Nat /\ Len(d) \in Nat
    BY <1>9, <2>1 DEF Ended
  <2>5. /\ (block \o d)[1] = nl /\ Len(block \o d) = Len(block) + Len(d)
        /\ Len(d) > 0 => (block \o d)[Len(block) + Len(d)] = d[Len(d)]
    BY <1>9, <2>1, <2>4
  <2> QED BY <2>2, <2>3, <2>4, <2>5 DEF d
<1> HIDE DEF ts
<1>11. kept \in Seq(OutType) /\ BeginLines(kept)
  <2>1. Kept(copied + 1, g.end) \in Seq(OutType)
    BY <1>2, <1>3, <1>5, KeptType
  <2> QED BY <1>2, <1>3, <1>5, <2>1, KeptBegins, Concat
<1>12. linedirs /\ Numbered => LinesKept(kept)
  <2> SUFFICES ASSUME linedirs, Numbered PROVE LinesKept(kept)
    OBVIOUS
  <2>1. LinesKept(out) /\ LinesOf(out)[Len(out) + 1] = Lineno(copied + 1)
    BY <1>2, <1>3 DEF LinesGo
  <2> QED BY <1>2, <1>3, <1>5, <2>1, KeptLines
<1> HIDE DEF kept
<1>13. BeginLines(out')
  <2>1. ~MadeLine(ts[1])
    BY <1>10, NlCloses
  <2>2. BeginLines(kept \o New(ts))
    BY <1>3, <1>10, <1>11, <2>1, NewBegins
  <2> QED BY <1>1, <2>2
<1>14. LinesGo(out', copied')
  <2> SUFFICES ASSUME linedirs, Numbered
               PROVE  LinesKept(out') /\ LinesOf(out')[Len(out') + 1] = Lineno(copied' + 1)
    BY DEF LinesGo
  <2>1. Lineno(g.end + 1) \in Line
    BY <1>5 DEF Numbered
  <2> DEFINE p == g.end + 1
  <2>2. LinesKept(kept) /\ ts[Len(ts)] = LineDirective(p) /\ Lineno(p) \in Line
    BY <1>10, <1>12, <2>1
  <2> HIDE DEF p
  <2>3. /\ LinesKept(kept \o New(ts))
        /\ LinesOf(kept \o New(ts))[Len(kept \o New(ts)) + 1] = Lineno(p)
    BY <1>3, <1>10, <1>11, <2>2, NewLines
  <2> QED BY <1>1, <2>3 DEF p
<1>15. BeginLines(out)' /\ LinesGo(out, copied)'
  BY <1>1, <1>13, <1>14, SameLines
<1> QED BY <1>1, <1>2, <1>15 DEF LineInv, BlocksClose, Unmade, Opens, Ended, EndsLine, MadeLine

LEMMA RestLines ==
  ASSUME IInv, LineInv, SpliceRest
  PROVE  LineInv'
<1> DEFINE N == Len(tokens)
           kept == out \o Kept(copied + 1, N)
<1>1. /\ phase = "splice" /\ phase' = "done" /\ tokens' = tokens
      /\ out' = kept /\ copied' = N /\ linedirs' = linedirs
  BY DEF SpliceRest, history
<1>2. /\ IsTokenList(tokens) /\ SpliceInv /\ Unmade(tokens)
      /\ BeginLines(out) /\ LinesGo(out, copied)
  BY <1>1 DEF IInv, LineInv
<1>3. /\ N \in Nat \ {0} /\ copied \in 0 .. N - 1 /\ copied \in 0 .. N
      /\ N \in copied .. N /\ out \in Seq(OutType)
  BY <1>2, TokenListType DEF SpliceInv, HoldsUpto
<1>4. BeginLines(out')
  BY <1>1, <1>2, <1>3, KeptBegins
<1>5. LinesGo(out', copied')
  <2> SUFFICES ASSUME linedirs, Numbered PROVE LinesKept(out')
    BY <1>1, <1>3 DEF LinesGo
  <2>1. LinesKept(out) /\ LinesOf(out)[Len(out) + 1] = Lineno(copied + 1)
    BY <1>2, <1>3 DEF LinesGo
  <2> QED BY <1>1, <1>2, <1>3, <2>1, KeptLines
<1>6. BeginLines(out)' /\ LinesGo(out, copied)'
  BY <1>1, <1>4, <1>5, SameLines
<1> QED BY <1>1, <1>2, <1>6 DEF LineInv, Unmade, MadeLine

LEMMA RerunLines ==
  ASSUME IInv, LineInv, Rerun
  PROVE  LineInv'
<1>1. PICK sec \in NewSection \cup {<<>>} : tokens' = WithSection(Retokenized(out), sec)
  BY DEF Rerun
<1>2. phase = "done" /\ phase' = "scan"
  BY DEF Rerun
<1>3. IsTokenList(Retokenized(out)) /\ Unmade(Retokenized(out))
  BY <1>2, ResultList DEF IInv
<1>4. Unmade(tokens')
  BY <1>1, <1>3, SectionUnmade
<1> QED BY <1>2, <1>4 DEF LineInv, Unmade, MadeLine

LEMMA UpdateLines ==
  ASSUME IInv, LineInv, UpdateUnsafeSections
  PROVE  LineInv'
<1>1. /\ phase = "update" /\ phase' = "generate" /\ gen' = gen
      /\ tokens' = Renamed(tokens, sections)
  BY DEF UpdateUnsafeSections
<1>2. gen = <<>> /\ tokens \in Seq(TokenType) /\ Unmade(tokens)
  BY <1>1, TokenListType DEF IInv, LineInv
<1>3. Unmade(tokens')
  BY <1>1, <1>2, RenamedUnmade
<1>4. BlocksClose'
  BY <1>1, <1>2 DEF BlocksClose
<1> QED BY <1>1, <1>3, <1>4 DEF LineInv, Unmade, MadeLine

LEMMA LineStepInv == IInv /\ LineInv /\ [Next]_vars => LineInv'
<1> SUFFICES ASSUME IInv, LineInv, [Next]_vars
             PROVE  LineInv'
  OBVIOUS
<1>1. CASE Scan
  <2>1. tokens' = tokens /\ phase' \in {"scan", "overrun", "scanned", "called"}
    <3>1. FindInlineFunctions \/ FindCalls
      BY <1>1 DEF Scan, ScanNext
    <3> QED BY <3>1 DEF FindInlineFunctions, FindCalls, StepOn, NoName, Function, EndOfFile
  <2> QED BY <2>1 DEF LineInv, Unmade, MadeLine
<1>2. CASE Analyse
  <2>1. tokens' = tokens /\ phase' = "update"
    BY <1>2 DEF Analyse
  <2> QED BY <2>1 DEF LineInv, Unmade, MadeLine
<1>3. CASE UpdateUnsafeSections
  BY <1>3, UpdateLines
<1>4. CASE GenUnsafeCode
  BY <1>4, GenerateLines
<1>5. CASE GenUnsafeCodeEnd
  BY <1>5, GenerateEndLines
<1>6. CASE SpliceFunc
  BY <1>6, SpliceLines
<1>7. CASE SpliceRest
  BY <1>7, RestLines
<1>8. CASE Rerun
  BY <1>8, RerunLines
<1>9. CASE UNCHANGED vars
  <2>1. /\ tokens' = tokens /\ phase' = phase /\ gen' = gen /\ out' = out
        /\ copied' = copied /\ linedirs' = linedirs
    BY <1>9 DEF vars, rewriting, history
  <2>2. phase \in {"splice", "done"} => BeginLines(out)' /\ LinesGo(out, copied)'
    <3> SUFFICES ASSUME phase \in {"splice", "done"}
                 PROVE  BeginLines(out)' /\ LinesGo(out, copied)'
      OBVIOUS
    <3>1. BeginLines(out') /\ LinesGo(out', copied')
      BY <2>1 DEF LineInv
    <3> QED BY <2>1, <3>1, SameLines
  <2> QED BY <2>1, <2>2 DEF LineInv, BlocksClose, Unmade, Opens, Ended, EndsLine, MadeLine
<1> QED BY <1>1, <1>2, <1>3, <1>4, <1>5, <1>6, <1>7, <1>8, <1>9 DEF Next

(* Lines that are put in begin lines, and with -l every token of a header  *)
(* is in the line that the directives say, however long the header is and  *)
(* however often it is rewritten (RewriteSourceFile, ADD_LINE_DIR).        *)
THEOREM LinesRightCorrect == Spec => []LinesRight
<1>1. Init => IInv /\ LineInv
  BY InitInv, LineInitInv
<1>2. IInv /\ LineInv /\ [Next]_vars => (IInv /\ LineInv)'
  BY StepInv, LineStepInv
<1>3. IInv /\ LineInv => LinesRight
  <2> SUFFICES ASSUME IInv, LineInv, phase = "done"
               PROVE  /\ BeginLines(out)
                      /\ linedirs /\ (\A p \in 1 .. Len(given) : Lineno(p) \in Line)
                         => LinesKept(out)
    BY DEF LinesRight
  <2>1. Len(given) = Len(tokens)
    BY DEF IInv, OnlyCallsRenamed
  <2> QED BY <2>1 DEF LineInv, LinesGo, Numbered
<1> QED BY <1>1, <1>2, <1>3, PTL DEF Spec

-----------------------------------------------------------------------------
(* What a rule of the scanner may take: characters of the text, and no NUL *)
(* among them.                                                             *)

(* From p up to e, which is not taken. *)
Span(t, p, e) == /\ p \in 1 .. Len(t) /\ e \in p .. Len(t)
                 /\ \A q \in p .. e - 1 : t[q] # "NUL"

LEMMA NoNul ==
  /\ "NUL" \notin any /\ "NUL" \notin Alnum /\ "NUL" \notin Alpha
  /\ "NUL" \notin Digit /\ "NUL" \notin Hex
  /\ "NUL" \notin IntSuffix /\ "NUL" \notin FloatSuffix
  /\ "NUL" \notin OpChars /\ "NUL" \notin EOLs
BY DEF any, Alnum, Alpha, Digit, Hex, IntSuffix, FloatSuffix, OpChars, EOLs, Others

LEMMA SpanNone ==
  ASSUME NEW t, IsText(t), NEW p \in 1 .. Len(t)
  PROVE  Span(t, p, p)
BY DEF Span, IsText

LEMMA SpanOne ==
  ASSUME NEW t, IsText(t), NEW p \in 1 .. Len(t), t[p] # "NUL"
  PROVE  Span(t, p, p + 1) /\ p + 1 \in 1 .. Len(t)
BY DEF Span, IsText

LEMMA SpanTwo ==
  ASSUME NEW t, IsText(t), NEW p, NEW q, NEW r, Span(t, p, q), Span(t, q, r)
  PROVE  Span(t, p, r)
BY DEF Span, IsText

LEMMA SpanRun ==
  ASSUME NEW t, IsText(t), NEW p \in 1 .. Len(t), NEW S, "NUL" \notin S
  PROVE  /\ Span(t, p, Run(t, S, p)) /\ t[Run(t, S, p)] \notin S
         /\ t[p] \in S => p < Run(t, S, p)
<1> DEFINE T == {q \in p .. Len(t) : t[q] \notin S}
           e == Run(t, S, p)
<1>1. Len(t) \in T /\ T \in SUBSET Nat
  BY DEF IsText
<1>2. First(T) \in T /\ \A q \in T : First(T) <= q
  BY <1>1, LeastExists DEF First
<1>3. e = First(T)
  BY DEF Run
<1> HIDE DEF e
<1>4. e \in p .. Len(t) /\ t[e] \notin S /\ \A q \in p .. e - 1 : t[q] \in S
  <2>1. e \in p .. Len(t) /\ t[e] \notin S
    BY <1>2, <1>3
  <2>2. ASSUME NEW q \in p .. e - 1 PROVE t[q] \in S
    <3>1. q \in p .. Len(t) /\ ~(e <= q)
      BY <2>1 DEF IsText
    <3> QED BY <1>2, <1>3, <3>1
  <2> QED BY <2>1, <2>2
<1>5. \A q \in p .. e - 1 : t[q] # "NUL"
  BY <1>4
<1> QED BY <1>4, <1>5 DEF Span, e

LEMMA SpanOpt ==
  ASSUME NEW t, IsText(t), NEW p \in 1 .. Len(t), NEW S, "NUL" \notin S
  PROVE  Span(t, p, Opt(t, S, p))
<1>1. CASE t[p] \in S
  BY <1>1, SpanOne DEF Opt
<1>2. CASE t[p] \notin S
  BY <1>2, SpanNone DEF Opt
<1> QED BY <1>1, <1>2

LEMMA AtInside ==
  ASSUME NEW t, IsText(t), NEW p \in Nat \ {0}, At(t, p) # "NUL"
  PROVE  /\ p \in 1 .. Len(t) /\ t[p] = At(t, p)
         /\ Span(t, p, p + 1) /\ p + 1 \in 1 .. Len(t)
<1>1. p \in 1 .. Len(t) /\ t[p] = At(t, p)
  BY DEF At, IsText
<1> QED BY <1>1, SpanOne

-----------------------------------------------------------------------------
(* A rule takes one character at least. *)
Takes(t, p, e) == Span(t, p, e) /\ p < e

LEMMA TakesFirst ==
  ASSUME NEW t, IsText(t), NEW p, NEW q, NEW r, Takes(t, p, q), Span(t, q, r)
  PROVE  Takes(t, p, r)
<1>1. Span(t, p, r)
  BY SpanTwo DEF Takes
<1> QED BY <1>1 DEF Takes, Span

LEMMA TakesLast ==
  ASSUME NEW t, IsText(t), NEW p, NEW q, NEW r, Span(t, p, q), Takes(t, q, r)
  PROVE  Takes(t, p, r)
<1>1. Span(t, p, r)
  BY SpanTwo DEF Takes
<1> QED BY <1>1 DEF Takes, Span

LEMMA TakesOne ==
  ASSUME NEW t, IsText(t), NEW p \in 1 .. Len(t), t[p] # "NUL"
  PROVE  Takes(t, p, p + 1)
<1>1. Span(t, p, p + 1) /\ p < p + 1
  BY SpanOne
<1> QED BY <1>1 DEF Takes

LEMMA SpanPlace ==
  ASSUME NEW t, IsText(t), NEW p, NEW e, Span(t, p, e)
  PROVE  e \in 1 .. Len(t) /\ e \in Nat \ {0} /\ p <= e
BY DEF Span, IsText

LEMMA ExpTakes ==
  ASSUME NEW t, IsText(t), NEW p \in 1 .. Len(t), NEW e \in ExpEnds(t, p)
  PROVE  Span(t, p, e)
<1>1. CASE e = p
  BY <1>1, SpanNone
<1>2. CASE e # p
  <2> DEFINE digits == Opt(t, {"-"}, p + 1)
  <2>1. At(t, p) = "e" /\ e = Run(t, Digit, digits)
    BY <1>2 DEF ExpEnds
  <2> HIDE DEF digits
  <2>2. Span(t, p, p + 1) /\ p + 1 \in 1 .. Len(t)
    <3>1. p \in Nat \ {0} /\ At(t, p) # "NUL"
      BY <2>1
    <3> QED BY <3>1, AtInside
  <2>3. Span(t, p + 1, digits)
    BY <2>2, SpanOpt DEF digits
  <2>4. digits \in 1 .. Len(t)
    BY <2>3, SpanPlace
  <2>5. Span(t, digits, e)
    BY <2>1, <2>4, NoNul, SpanRun
  <2>6. Span(t, p, digits)
    BY <2>2, <2>3, SpanTwo
  <2> QED BY <2>5, <2>6, SpanTwo
<1> QED BY <1>1, <1>2

LEMMA NumberTakes ==
  ASSUME NEW t, IsText(t), NEW p \in 1 .. Len(t), NEW e \in NumberEnds(t, p)
  PROVE  Takes(t, p, e)
<1> DEFINE d == Run(t, Digit, p)
           hex == /\ t[p] = "0" /\ At(t, p + 1) = "x" /\ At(t, p + 2) \in Hex
           point == t[d] = "." /\ (d > p \/ At(t, d + 1) \in Digit)
<1>1. Span(t, p, d) /\ d \in 1 .. Len(t) /\ d \in Nat
  <2>1. Span(t, p, d)
    BY NoNul, SpanRun
  <2> HIDE DEF d
  <2> QED BY <2>1, SpanPlace
<1>2. \/ hex /\ e = Run(t, IntSuffix, Run(t, Hex, p + 2))
      \/ d > p /\ e = Run(t, IntSuffix, d)
      \/ d > p /\ \E x \in ExpEnds(t, d) : e = Opt(t, FloatSuffix, x)
      \/ point /\ \E x \in ExpEnds(t, Run(t, Digit, d + 1)) : e = Opt(t, FloatSuffix, x)
  BY DEF NumberEnds
<1> HIDE DEF d
<1>3. ASSUME d > p PROVE Takes(t, p, d)
  BY <1>1, <1>3 DEF Takes
<1>4. CASE hex /\ e = Run(t, IntSuffix, Run(t, Hex, p + 2))
  <2>1. Takes(t, p, p + 1) /\ p + 1 \in Nat \ {0}
    <3>1. t[p] # "NUL" /\ p + 1 \in Nat \ {0}
      BY <1>4
    <3> QED BY <3>1, TakesOne
  <2>2. Span(t, p + 1, p + 2)
    <3>1. At(t, p + 1) # "NUL" /\ (p + 1) + 1 = p + 2
      BY <1>4
    <3> QED BY <2>1, <3>1, AtInside
  <2>3. p + 2 \in 1 .. Len(t)
    BY <2>2, SpanPlace
  <2> DEFINE h == Run(t, Hex, p + 2)
  <2>4. Span(t, p + 2, h)
    BY <2>3, NoNul, SpanRun
  <2>5. h \in 1 .. Len(t)
    <3> HIDE DEF h
    <3> QED BY <2>4, SpanPlace
  <2>6. Span(t, h, e)
    <3> HIDE DEF h
    <3>1. e = Run(t, IntSuffix, h)
      BY <1>4 DEF h
    <3> QED BY <2>5, <3>1, NoNul, SpanRun
  <2> HIDE DEF h
  <2>7. Takes(t, p, p + 2)
    BY <2>1, <2>2, TakesFirst
  <2>8. Takes(t, p, h)
    BY <2>4, <2>7, TakesFirst
  <2> QED BY <2>6, <2>8, TakesFirst
<1>5. CASE d > p /\ e = Run(t, IntSuffix, d)
  <2>1. Span(t, d, e)
    BY <1>1, <1>5, NoNul, SpanRun
  <2> QED BY <1>3, <1>5, <2>1, TakesFirst
<1>6. ASSUME NEW s \in 1 .. Len(t), NEW x \in ExpEnds(t, s), e = Opt(t, FloatSuffix, x),
             Takes(t, p, s)
      PROVE  Takes(t, p, e)
  <2>1. Span(t, s, x)
    BY <1>6, ExpTakes
  <2>2. x \in 1 .. Len(t)
    BY <2>1, SpanPlace
  <2>3. Span(t, x, e)
    BY <1>6, <2>2, NoNul, SpanOpt
  <2>4. Takes(t, p, x)
    BY <1>6, <2>1, TakesFirst
  <2> QED BY <2>3, <2>4, TakesFirst
<1>7. CASE d > p /\ \E x \in ExpEnds(t, d) : e = Opt(t, FloatSuffix, x)
  BY <1>1, <1>3, <1>6, <1>7
<1>8. CASE point /\ \E x \in ExpEnds(t, Run(t, Digit, d + 1)) : e = Opt(t, FloatSuffix, x)
  <2>1. Takes(t, d, d + 1)
    BY <1>1, <1>8, TakesOne
  <2>2. d + 1 \in 1 .. Len(t)
    BY <2>1, SpanPlace DEF Takes
  <2> DEFINE s == Run(t, Digit, d + 1)
  <2>3. Span(t, d + 1, s)
    BY <2>2, NoNul, SpanRun
  <2>4. \E x \in ExpEnds(t, s) : e = Opt(t, FloatSuffix, x)
    BY <1>8
  <2> HIDE DEF s
  <2>5. s \in 1 .. Len(t)
    BY <2>3, SpanPlace
  <2>6. Takes(t, p, d + 1)
    BY <1>1, <2>1, TakesLast
  <2>7. Takes(t, p, s)
    BY <2>3, <2>6, TakesFirst
  <2> QED BY <1>6, <2>4, <2>5, <2>7
<1> QED BY <1>2, <1>4, <1>5, <1>7, <1>8

LEMMA CharTakes ==
  ASSUME NEW t, IsText(t), NEW o \in 1 .. Len(t), NEW e \in CharEnds(t, o)
  PROVE  Takes(t, o, e)
<1> DEFINE anych == any \ {"'", "\\"}
           escaped == At(t, o + 1) = "\\" /\ At(t, o + 2) \in any
           last == IF escaped THEN Run(t, anych, o + 3)
                   ELSE IF At(t, o + 1) \in anych THEN o + 2 ELSE o
<1>1. t[o] = "'" /\ last > o /\ t[last] = "'" /\ e = last + 1
  BY DEF CharEnds
<1>2. "NUL" \notin anych
  BY NoNul
<1>3. o + 1 \in Nat \ {0} /\ (o + 1) + 1 = o + 2 /\ Takes(t, o, o + 1)
  <2>1. t[o] # "NUL" /\ o + 1 \in Nat \ {0} /\ (o + 1) + 1 = o + 2
    BY <1>1
  <2> QED BY <2>1, TakesOne
<1> HIDE DEF anych
<1>4. Takes(t, o, last)
  <2>1. CASE escaped
    <3>1. At(t, o + 1) # "NUL" /\ At(t, o + 2) # "NUL" /\ o + 2 \in Nat \ {0}
          /\ (o + 2) + 1 = o + 3
      BY <2>1, NoNul
    <3>2. Span(t, o + 1, o + 2)
      BY <1>3, <3>1, AtInside
    <3>3. Span(t, o + 2, o + 3)
      BY <3>1, AtInside
    <3>4. o + 3 \in 1 .. Len(t)
      BY <3>3, SpanPlace
    <3>5. Span(t, o + 3, Run(t, anych, o + 3))
      BY <1>2, <3>4, SpanRun
    <3>6. Takes(t, o, o + 2)
      BY <1>3, <3>2, TakesFirst
    <3>7. Takes(t, o, o + 3)
      BY <3>3, <3>6, TakesFirst
    <3>8. Takes(t, o, Run(t, anych, o + 3))
      BY <3>5, <3>7, TakesFirst
    <3> QED BY <2>1, <3>8
  <2>2. CASE ~escaped
    <3>1. At(t, o + 1) \in anych /\ last = o + 2
      BY <1>1, <2>2
    <3>2. At(t, o + 1) # "NUL"
      BY <1>2, <3>1
    <3>3. Span(t, o + 1, o + 2)
      BY <1>3, <3>2, AtInside
    <3>4. Takes(t, o, o + 2)
      BY <1>3, <3>3, TakesFirst
    <3> QED BY <3>1, <3>4
  <2> QED BY <2>1, <2>2
<1> HIDE DEF last
<1>5. last \in 1 .. Len(t)
  BY <1>4, SpanPlace DEF Takes
<1>6. Span(t, last, last + 1)
  BY <1>1, <1>5, SpanOne
<1> QED BY <1>1, <1>4, <1>6, TakesFirst

(* The ends of a string are a recursion from the end of the text. *)
StringBody(t, f, q) ==
    IF t[q] = "\"" THEN {q + 1}
    ELSE IF t[q] = "\\"
         THEN IF At(t, q + 1) \in any THEN f[q + 2] ELSE {}
    ELSE IF t[q] \in any THEN f[q + 1] ELSE {}

LEMMA StringBodyLocal ==
  ASSUME NEW t, IsText(t), NEW q \in 1 .. Len(t), NEW f, NEW g,
         \A r \in q + 1 .. Len(t) : f[r] = g[r]
  PROVE  StringBody(t, f, q) = StringBody(t, g, q)
<1>1. CASE t[q] # "\"" /\ t[q] = "\\" /\ At(t, q + 1) \in any
  <2>1. At(t, q + 1) # "NUL" /\ q + 1 \in Nat \ {0}
    BY <1>1, NoNul
  <2>2. (q + 1) + 1 \in 1 .. Len(t)
    BY <2>1, AtInside
  <2>3. q + 2 \in q + 1 .. Len(t)
    BY <2>2 DEF IsText
  <2>4. f[q + 2] = g[q + 2]
    BY <2>3
  <2> QED BY <1>1, <2>4 DEF StringBody
<1>2. CASE t[q] # "\"" /\ t[q] # "\\" /\ t[q] \in any
  <2>1. q + 1 \in 1 .. Len(t)
    BY <1>2, NoNul, SpanOne
  <2>2. q + 1 \in q + 1 .. Len(t)
    BY <2>1 DEF IsText
  <2>3. f[q + 1] = g[q + 1]
    BY <2>2
  <2> QED BY <1>2, <2>3 DEF StringBody
<1>3. CASE ~(t[q] # "\"" /\ t[q] = "\\" /\ At(t, q + 1) \in any)
           /\ ~(t[q] # "\"" /\ t[q] # "\\" /\ t[q] \in any)
  BY <1>3 DEF StringBody
<1> QED BY <1>1, <1>2, <1>3

LEMMA StringRecursion ==
  ASSUME NEW t, IsText(t), NEW o \in 1 .. Len(t)
  PROVE  \E f : f = [q \in o + 1 .. Len(t) |-> StringBody(t, f, q)]
<1> DEFINE N == Len(t)
           Is(f, a) == f = [q \in a .. N |-> StringBody(t, f, q)]
           S == {m \in Nat : m < N => \E f : Is(f, N + 1 - m)}
<1>1. N \in Nat /\ o \in Nat /\ o <= N /\ o >= 1
  BY DEF IsText
<1>2. 0 \in S
  <2>1. Is([q \in N + 1 .. N |-> {}], N + 1)
    BY <1>1
  <2>2. N + 1 - 0 = N + 1
    BY <1>1
  <2> HIDE DEF Is
  <2> QED BY <2>1, <2>2
<1>3. ASSUME NEW m \in Nat, m \in S PROVE m + 1 \in S
  <2> SUFFICES ASSUME m + 1 < N PROVE \E f : Is(f, N + 1 - (m + 1))
    OBVIOUS
  <2> HIDE DEF N
  <2>1. PICK a \in Nat : a = N + 1 - (m + 1) /\ N + 1 - m = a + 1 /\ a \in 1 .. N
    BY <1>1
  <2>2. PICK f : Is(f, a + 1)
    <3>1. m < N
      BY <1>1
    <3> QED BY <1>3, <2>1, <3>1
  <2> DEFINE g == [q \in a .. N |-> StringBody(t, f, q)]
  <2>3. \A q \in a + 1 .. N : g[q] = f[q]
    <3>1. \A q \in a + 1 .. N : f[q] = StringBody(t, f, q)
      BY <2>2
    <3>2. \A q \in a + 1 .. N : q \in a .. N
      BY <1>1
    <3> QED BY <3>1, <3>2
  <2> HIDE DEF g
  <2>4. ASSUME NEW q \in a .. N PROVE StringBody(t, f, q) = StringBody(t, g, q)
    <3>1. q \in 1 .. N /\ \A r \in q + 1 .. N : r \in a + 1 .. N
      BY <1>1, <2>1
    <3>2. \A r \in q + 1 .. N : f[r] = g[r]
      BY <2>3, <3>1
    <3> QED BY <3>1, <3>2, StringBodyLocal DEF N
  <2>5. Is(g, a)
    <3>1. [q \in a .. N |-> StringBody(t, f, q)] = [q \in a .. N |-> StringBody(t, g, q)]
      BY <2>4
    <3> QED BY <3>1 DEF g
  <2> HIDE DEF Is
  <2> QED BY <2>1, <2>5
<1> HIDE DEF S
<1>4. \A m \in Nat : m \in S
  BY <1>2, <1>3, NatInd
<1>5. N - o \in S /\ N - o < N /\ N + 1 - (N - o) = o + 1
  BY <1>1, <1>4
<1>6. \E f : Is(f, o + 1)
  <2> HIDE DEF Is, N
  <2> QED BY <1>5 DEF S
<1> QED BY <1>6

LEMMA StringTakes ==
  ASSUME NEW t, IsText(t), NEW o \in 1 .. Len(t), NEW e \in StringEnds(t, o)
  PROVE  Takes(t, o, e)
<1> DEFINE N == Len(t)
           Is(f) == f = [q \in o + 1 .. N |-> StringBody(t, f, q)]
           ends == CHOOSE f : Is(f)
<1>0. N \in Nat /\ o \in Nat /\ o <= N
  BY DEF IsText
<1>1. t[o] = "\"" /\ e \in ends[o + 1]
  BY DEF StringEnds, StringBody
<1>2. Is(ends)
  <2>1. \E f : Is(f)
    BY StringRecursion
  <2> HIDE DEF Is
  <2> QED BY <2>1
<1> HIDE DEF ends
<1>3. \A q \in o + 1 .. N : ends[q] = StringBody(t, ends, q)
  BY <1>2
<1> DEFINE S == {m \in Nat : \A q \in o + 1 .. N : q >= N - m =>
                                \A x \in ends[q] : Takes(t, q, x)}
<1>4. ASSUME NEW q \in o + 1 .. N, NEW x \in ends[q],
             \A r \in o + 1 .. N : r > q => \A y \in ends[r] : Takes(t, r, y)
      PROVE  Takes(t, q, x)
  <2>1. x \in StringBody(t, ends, q) /\ q \in 1 .. Len(t)
    BY <1>0, <1>3
  <2>2. CASE t[q] = "\""
    <3>1. x = q + 1 /\ t[q] # "NUL"
      BY <2>1, <2>2 DEF StringBody
    <3> QED BY <2>1, <3>1, TakesOne
  <2>3. CASE t[q] = "\\" /\ t[q] # "\""
    <3>1. At(t, q + 1) \in any /\ x \in ends[q + 2]
      BY <2>1, <2>3 DEF StringBody
    <3>2. At(t, q + 1) # "NUL" /\ t[q] # "NUL" /\ q + 1 \in Nat \ {0} /\ (q + 1) + 1 = q + 2
      BY <2>3, <3>1, NoNul
    <3>3. Span(t, q + 1, q + 2)
      BY <3>2, AtInside
    <3>4. Takes(t, q, q + 1)
      BY <2>1, <3>2, TakesOne
    <3>5. Takes(t, q, q + 2)
      BY <3>3, <3>4, TakesFirst
    <3>6. q + 2 \in o + 1 .. N /\ q + 2 > q
      <4>1. q + 2 \in 1 .. Len(t)
        BY <3>3, SpanPlace
      <4> QED BY <1>0, <4>1
    <3>7. Span(t, q + 2, x)
      BY <1>4, <3>1, <3>6 DEF Takes
    <3> QED BY <3>5, <3>7, TakesFirst
  <2>4. CASE t[q] # "\\" /\ t[q] # "\""
    <3>1. t[q] \in any /\ x \in ends[q + 1]
      BY <2>1, <2>4 DEF StringBody
    <3>2. Takes(t, q, q + 1)
      BY <2>1, <3>1, NoNul, TakesOne
    <3>3. q + 1 \in o + 1 .. N /\ q + 1 > q
      <4>1. q + 1 \in 1 .. Len(t)
        BY <3>2, SpanPlace DEF Takes
      <4> QED BY <1>0, <4>1
    <3>4. Span(t, q + 1, x)
      BY <1>4, <3>1, <3>3 DEF Takes
    <3> QED BY <3>2, <3>4, TakesFirst
  <2> QED BY <2>2, <2>3, <2>4
<1>5. 0 \in S
  <2> SUFFICES ASSUME NEW q \in o + 1 .. N, q >= N - 0, NEW x \in ends[q]
               PROVE  Takes(t, q, x)
    OBVIOUS
  <2>1. \A r \in o + 1 .. N : ~(r > q)
    BY <1>0
  <2> QED BY <1>4, <2>1
<1>6. ASSUME NEW m \in Nat, m \in S PROVE m + 1 \in S
  <2> SUFFICES ASSUME NEW q \in o + 1 .. N, q >= N - (m + 1), NEW x \in ends[q]
               PROVE  Takes(t, q, x)
    OBVIOUS
  <2>1. \A r \in o + 1 .. N : r > q => r >= N - m
    BY <1>0
  <2>2. \A r \in o + 1 .. N : r > q => \A y \in ends[r] : Takes(t, r, y)
    BY <1>6, <2>1
  <2> QED BY <1>4, <2>2
<1>7. \A q \in o + 1 .. N : \A x \in ends[q] : Takes(t, q, x)
  <2> HIDE DEF S
  <2>1. \A m \in Nat : m \in S
    BY <1>5, <1>6, NatInd
  <2>2. N \in S /\ \A q \in o + 1 .. N : q >= N - N
    BY <1>0, <2>1
  <2> QED BY <2>2 DEF S
<1>8. Takes(t, o, o + 1)
  <2>1. t[o] # "NUL"
    BY <1>1
  <2> QED BY <2>1, TakesOne
<1>9. o + 1 \in o + 1 .. N
  <2>1. o + 1 \in 1 .. Len(t)
    BY <1>8, SpanPlace DEF Takes
  <2> QED BY <1>0, <2>1
<1>10. Span(t, o + 1, e)
  BY <1>1, <1>7, <1>9 DEF Takes
<1> QED BY <1>8, <1>10, TakesFirst

LEMMA LiteralTakes ==
  ASSUME NEW t, IsText(t), NEW p \in 1 .. Len(t), NEW e \in LiteralEnds(t, p)
  PROVE  Takes(t, p, e)
<1>1. \/ e \in NumberEnds(t, p)
      \/ \E o \in {p, Opt(t, {"L"}, p)} : e \in CharEnds(t, o) \cup StringEnds(t, o)
  BY DEF LiteralEnds
<1>2. ASSUME NEW o \in {p, Opt(t, {"L"}, p)}, e \in CharEnds(t, o) \cup StringEnds(t, o)
      PROVE  Takes(t, p, e)
  <2>1. Span(t, p, o)
    <3>1. "NUL" \notin {"L"}
      OBVIOUS
    <3>2. Span(t, p, p) /\ Span(t, p, Opt(t, {"L"}, p))
      BY <3>1, SpanNone, SpanOpt
    <3> QED BY <3>2
  <2>2. o \in 1 .. Len(t)
    BY <2>1, SpanPlace
  <2>3. Takes(t, o, e)
    BY <1>2, <2>2, CharTakes, StringTakes
  <2> QED BY <2>1, <2>3, TakesLast
<1> QED BY <1>1, <1>2, NumberTakes

LEMMA OpTakes ==
  ASSUME NEW t, IsText(t), NEW p \in 1 .. Len(t), NEW e \in OpEnds(t, p)
  PROVE  Takes(t, p, e)
<1>1. CASE t[p] \in OpChars /\ e = p + 1
  BY <1>1, NoNul, TakesOne
<1>2. ASSUME NEW op \in LongOps, \A k \in 1 .. Len(op) : At(t, p + k - 1) = op[k],
             e = p + Len(op)
      PROVE  Takes(t, p, e)
  <2>1. /\ Len(op) \in 2 .. 3 /\ (Len(op) = 3 => op[3] # "NUL")
        /\ op[1] # "NUL" /\ op[2] # "NUL"
    BY DEF LongOps
  <2>2. /\ At(t, p) = op[1] /\ At(t, p + 1) = op[2]
        /\ Len(op) = 3 => At(t, p + 2) = op[3]
    <3>1. 1 \in 1 .. Len(op) /\ 2 \in 1 .. Len(op) /\ (Len(op) = 3 => 3 \in 1 .. Len(op))
      BY <2>1
    <3>2. p + 1 - 1 = p /\ p + 2 - 1 = p + 1 /\ p + 3 - 1 = p + 2
      OBVIOUS
    <3> QED BY <1>2, <3>1, <3>2
  <2>3. p + 1 \in Nat \ {0} /\ p + 2 \in Nat \ {0} /\ p \in Nat \ {0}
        /\ (p + 1) + 1 = p + 2 /\ (p + 2) + 1 = p + 3
    OBVIOUS
  <2>4. Takes(t, p, p + 1)
    <3>1. t[p] # "NUL"
      BY <2>1, <2>2, <2>3, AtInside
    <3> QED BY <3>1, TakesOne
  <2>5. Span(t, p + 1, p + 2)
    BY <2>1, <2>2, <2>3, AtInside
  <2>6. Takes(t, p, p + 2)
    BY <2>4, <2>5, TakesFirst
  <2>7. CASE Len(op) = 2
    BY <1>2, <2>6, <2>7
  <2>8. CASE Len(op) = 3
    <3>1. Span(t, p + 2, p + 3)
      BY <2>1, <2>2, <2>3, <2>8, AtInside
    <3>2. Takes(t, p, p + 3)
      BY <2>6, <3>1, TakesFirst
    <3> QED BY <1>2, <2>8, <3>2
  <2> QED BY <2>1, <2>7, <2>8
<1>3. \/ t[p] \in OpChars /\ e = p + 1
      \/ \E op \in LongOps : (\A k \in 1 .. Len(op) : At(t, p + k - 1) = op[k])
                               /\ e = p + Len(op)
  BY DEF OpEnds
<1> QED BY <1>1, <1>2, <1>3

(* A comment may take the NUL that ends it, and nothing behind it. *)
Reaches(t, p, e) == /\ p \in 1 .. Len(t) /\ e \in p + 1 .. Len(t) + 1
                    /\ \A q \in p .. e - 2 : t[q] # "NUL"

LEMMA TakesReaches ==
  ASSUME NEW t, IsText(t), NEW p, NEW e, Takes(t, p, e)
  PROVE  Reaches(t, p, e) /\ t[e - 1] # "NUL"
BY DEF Takes, Span, Reaches, IsText

LEMMA BlockReaches ==
  ASSUME NEW t, IsText(t), NEW p \in 1 .. Len(t), t[p] = "/"
  PROVE  Reaches(t, p, BlockComment(t, p))
<1> DEFINE closed == {q \in p + 2 .. Len(t) - 1 : t[q] = "*" /\ t[q + 1] = "/"}
           stops == {q \in p .. Len(t) : q \in closed \/ t[q] = "NUL"}
<1>1. Len(t) \in stops /\ stops \in SUBSET Nat /\ Len(t) \in Nat
  BY DEF IsText
<1>2. PICK q \in stops : q = First(stops) /\ \A r \in stops : q <= r
  BY <1>1, LeastExists DEF First
<1>3. \A r \in p .. q - 1 : t[r] # "NUL"
  <2>1. \A r \in p .. q - 1 : r \in p .. Len(t) /\ ~(q <= r)
    BY <1>1, <1>2
  <2> QED BY <1>2, <2>1
<1>4. CASE q \in closed
  <2>1. BlockComment(t, p) = q + 2
    BY <1>2, <1>4 DEF BlockComment
  <2>2. t[q] # "NUL" /\ q \in p + 2 .. Len(t) - 1
    BY <1>4
  <2>3. \A r \in p .. (q + 2) - 2 : t[r] # "NUL"
    <3>1. \A r \in p .. (q + 2) - 2 : r \in p .. q - 1 \/ r = q
      BY <1>1, <1>2
    <3> QED BY <1>3, <2>2, <3>1
  <2>4. q + 2 \in p + 1 .. Len(t) + 1
    BY <1>1, <2>2
  <2> QED BY <2>1, <2>3, <2>4 DEF Reaches
<1>5. CASE q \notin closed
  <2>1. BlockComment(t, p) = q + 1 /\ t[q] = "NUL"
    BY <1>2, <1>5 DEF BlockComment
  <2>2. \A r \in p .. (q + 1) - 2 : t[r] # "NUL"
    BY <1>1, <1>2, <1>3
  <2>3. q + 1 \in p + 1 .. Len(t) + 1
    BY <1>1, <1>2
  <2> QED BY <2>1, <2>2, <2>3 DEF Reaches
<1> QED BY <1>4, <1>5

LEMMA CommentReaches ==
  ASSUME NEW t, IsText(t), NEW p \in 1 .. Len(t), NEW e \in CommentEnds(t, p)
  PROVE  Reaches(t, p, e)
<1>1. CASE t[p] = "/" /\ At(t, p + 1) = "*"
  BY <1>1, BlockReaches DEF CommentEnds
<1>2. CASE ~(t[p] = "/" /\ At(t, p + 1) = "*")
  <2>1. /\ t[p] = "/" /\ At(t, p + 1) = "/" /\ At(t, p + 2) \in any
        /\ e = Run(t, any, p + 2)
    BY <1>2 DEF CommentEnds
  <2>2. /\ t[p] # "NUL" /\ At(t, p + 1) # "NUL"
        /\ p + 1 \in Nat \ {0} /\ (p + 1) + 1 = p + 2
    BY <2>1
  <2>3. Takes(t, p, p + 1)
    BY <2>2, TakesOne
  <2>4. Span(t, p + 1, p + 2)
    BY <2>2, AtInside
  <2>5. p + 2 \in 1 .. Len(t)
    BY <2>4, SpanPlace
  <2>6. Span(t, p + 2, e)
    BY <2>1, <2>5, NoNul, SpanRun
  <2>7. Takes(t, p, p + 2)
    BY <2>3, <2>4, TakesFirst
  <2>8. Takes(t, p, e)
    BY <2>6, <2>7, TakesFirst
  <2> QED BY <2>8, TakesReaches
<1> QED BY <1>1, <1>2

LEMMA EOLTakes ==
  ASSUME NEW t, IsText(t), NEW p \in 1 .. Len(t), NEW e \in EOLEnds(t, p)
  PROVE  Takes(t, p, e)
<1>1. /\ t[p] \in EOLs
      /\ e = IF t[p] = "CR" THEN Opt(t, {"LF"}, p + 1) ELSE p + 1
  BY DEF EOLEnds
<1>2. Takes(t, p, p + 1)
  BY <1>1, NoNul, TakesOne
<1>3. p + 1 \in 1 .. Len(t)
  BY <1>2, SpanPlace DEF Takes
<1>4. "NUL" \notin {"LF"}
  OBVIOUS
<1>5. Span(t, p + 1, Opt(t, {"LF"}, p + 1))
  BY <1>3, <1>4, SpanOpt
<1>6. Takes(t, p, Opt(t, {"LF"}, p + 1))
  BY <1>2, <1>5, TakesFirst
<1> QED BY <1>1, <1>2, <1>6

LEMMA BlankTakes ==
  ASSUME NEW t, IsText(t), NEW p \in 1 .. Len(t), NEW e \in BlankEnds(t, p)
  PROVE  Takes(t, p, e)
<1>1. t[p] # "NUL" /\ e = Run(t, {" "}, p + 1)
  BY DEF BlankEnds
<1>2. Takes(t, p, p + 1)
  BY <1>1, TakesOne
<1>3. p + 1 \in 1 .. Len(t)
  BY <1>2, SpanPlace DEF Takes
<1>4. "NUL" \notin {" "}
  OBVIOUS
<1>5. Span(t, p + 1, e)
  BY <1>1, <1>3, <1>4, SpanRun
<1> QED BY <1>2, <1>5, TakesFirst

LEMMA RunTakes ==
  ASSUME NEW t, IsText(t), NEW p \in 1 .. Len(t), NEW S, "NUL" \notin S, t[p] \in S
  PROVE  Takes(t, p, Run(t, S, p))
BY SpanRun DEF Takes

-----------------------------------------------------------------------------
(* What Tokenize takes in one turn: a character at least, and a NUL only   *)
(* at the end of a comment.                                                *)
IsMatch(t, p, c) == /\ c = [end |-> c.end, sym |-> c.sym]
                    /\ Reaches(t, p, c.end) /\ c.sym \in Symbol \ {"EOF"}
                    /\ t[c.end - 1] = "NUL" => c.sym = "Comment"

LEMMA Symbols ==
  ASSUME NEW t, NEW p
  PROVE  /\ WordSym(t, p) \in Symbol \ {"EOF", "BAD"}
         /\ DirectiveSym(t, p) \in Symbol \ {"EOF", "BAD"}
         /\ t[p] \in DOMAIN Bracket => Bracket[t[p]] \in Symbol \ {"EOF", "BAD"}
<1>1. WordSym(t, p) \in Symbol \ {"EOF", "BAD"}
  BY DEF WordSym, Keyword, Symbol
<1>2. DirectiveSym(t, p) \in Symbol \ {"EOF", "BAD"}
  <2>1. \A w \in DOMAIN Directive : Directive[w] \in {"PPIf", "PPEndif"}
    BY DEF Directive
  <2>2. DirectiveSym(t, p) \in {"PPIf", "PPEndif", "PPOther"}
    BY <2>1 DEF DirectiveSym
  <2> QED BY <2>2 DEF Symbol
<1>3. ASSUME t[p] \in DOMAIN Bracket PROVE Bracket[t[p]] \in Symbol \ {"EOF", "BAD"}
  BY <1>3 DEF Bracket, Symbol
<1> QED BY <1>1, <1>2, <1>3

LEMMA CandidateMatches ==
  ASSUME NEW t, IsText(t), NEW p \in 1 .. Len(t), NEW c \in Candidates(t, p)
  PROVE  IsMatch(t, p, c) /\ c.sym # "BAD"
<1> DEFINE is(ends, sym) == c.end \in ends /\ c.sym = sym
<1>1. /\ c = [end |-> c.end, sym |-> c.sym]
      /\ \/ t[p] \in Alpha /\ is({Run(t, Alnum, p)}, WordSym(t, p))
         \/ is(LiteralEnds(t, p), "Other")
         \/ is(OpEnds(t, p), "Other")
         \/ is(CommentEnds(t, p), "Comment")
         \/ is(EOLEnds(t, p), "EOL")
         \/ is(BlankEnds(t, p), "WS")
         \/ t[p] = "#" /\ is({Run(t, any, p)}, DirectiveSym(t, p))
         \/ t[p] \in DOMAIN Bracket /\ is({p + 1}, Bracket[t[p]])
  BY DEF Candidates
<1>2. CASE Takes(t, p, c.end) /\ c.sym \in Symbol \ {"EOF", "BAD"}
  BY <1>1, <1>2, TakesReaches DEF IsMatch
<1>3. CASE is(CommentEnds(t, p), "Comment")
  <2>1. Reaches(t, p, c.end) /\ c.sym = "Comment"
    BY <1>3, CommentReaches
  <2> QED BY <1>1, <2>1 DEF IsMatch, Symbol
<1>4. CASE t[p] \in Alpha /\ is({Run(t, Alnum, p)}, WordSym(t, p))
  <2>1. t[p] \in Alnum
    BY <1>4 DEF Alnum
  <2> QED BY <1>2, <1>4, <2>1, NoNul, RunTakes, Symbols
<1>5. {"Other", "EOL", "WS"} \subseteq Symbol \ {"EOF", "BAD"}
  BY DEF Symbol
<1>6. CASE is(LiteralEnds(t, p), "Other")
  BY <1>2, <1>5, <1>6, LiteralTakes
<1>7. CASE is(OpEnds(t, p), "Other")
  BY <1>2, <1>5, <1>7, OpTakes
<1>8. CASE is(EOLEnds(t, p), "EOL")
  BY <1>2, <1>5, <1>8, EOLTakes
<1>9. CASE is(BlankEnds(t, p), "WS")
  BY <1>2, <1>5, <1>9, BlankTakes
<1>10. CASE t[p] = "#" /\ is({Run(t, any, p)}, DirectiveSym(t, p))
  <2>1. t[p] \in any
    BY <1>10 DEF any, Others
  <2> QED BY <1>2, <1>10, <2>1, NoNul, RunTakes, Symbols
<1>11. CASE t[p] \in DOMAIN Bracket /\ is({p + 1}, Bracket[t[p]])
  <2>1. t[p] # "NUL"
    BY <1>11 DEF Bracket
  <2> QED BY <1>2, <1>11, <2>1, TakesOne, Symbols
<1> QED BY <1>1, <1>3, <1>4, <1>6, <1>7, <1>8, <1>9, <1>10, <1>11

LEMMA Matched ==
  ASSUME NEW t, IsText(t), NEW p \in 1 .. Len(t), t[p] # "NUL"
  PROVE  /\ IsMatch(t, p, Match(t, p))
         /\ Match(t, p) = BAD(p) <=> Match(t, p).sym = "BAD"
<1>1. CASE Candidates(t, p) = {}
  <2>1. Match(t, p) = BAD(p)
    BY <1>1 DEF Match
  <2>2. Reaches(t, p, p + 1) /\ t[(p + 1) - 1] # "NUL"
    BY TakesOne, TakesReaches
  <2>3. BAD(p) = [end |-> p + 1, sym |-> "BAD"]
    BY DEF BAD
  <2> QED BY <2>1, <2>2, <2>3 DEF IsMatch, Symbol
<1>2. CASE Candidates(t, p) # {}
  <2> DEFINE C == Candidates(t, p)
             left == {Len(t) + 1 - c.end : c \in C}
  <2>1. \A c \in C : IsMatch(t, p, c) /\ c.sym # "BAD"
    BY CandidateMatches
  <2>2. \A c \in C : c.end \in Nat /\ c.end <= Len(t) + 1
    BY <2>1 DEF IsMatch, Reaches
  <2>3. Len(t) \in Nat
    BY DEF IsText
  <2> HIDE DEF C
  <2>4. left \in SUBSET Nat /\ left # {}
    BY <1>2, <2>2, <2>3 DEF C
  <2>5. PICK m \in left : \A n \in left : m <= n
    BY <2>4, LeastExists
  <2>6. PICK c \in C : m = Len(t) + 1 - c.end
    BY <2>5
  <2>7. \A d \in C : d.end <= c.end
    <3> SUFFICES ASSUME NEW d \in C PROVE d.end <= c.end
      OBVIOUS
    <3>1. m <= Len(t) + 1 - d.end
      BY <2>5
    <3> QED BY <2>2, <2>3, <2>6, <3>1
  <2>8. Match(t, p) \in C
    <3>1. Match(t, p) = CHOOSE x \in C : \A d \in C : d.end <= x.end
      BY <1>2 DEF Match, C
    <3> QED BY <2>7, <3>1
  <2>9. IsMatch(t, p, Match(t, p)) /\ Match(t, p).sym # "BAD"
    BY <2>1, <2>8
  <2>10. BAD(p).sym = "BAD"
    BY DEF BAD
  <2> QED BY <2>9, <2>10
<1> QED BY <1>1, <1>2

-----------------------------------------------------------------------------
(* What Text promises: it is made token by token. *)
TextUpto(f, ts) ==
    f = [n \in 0 .. Len(ts) |-> IF n = 0 THEN <<>> ELSE f[n - 1] \o ts[n].str]

LEMMA TextMade ==
  ASSUME NEW ts, Len(ts) \in Nat
  PROVE  \E f : TextUpto(f, ts) /\ Text(ts) = f[Len(ts)]
<1> DEFINE Step(v, ix) == v \o ts[ix].str
           E == <<>>
           Is(f, n) == f = [ix \in 0 .. n |-> IF ix = 0 THEN E ELSE Step(f[ix - 1], ix)]
<1>1. \A n \in Nat : \E f : Is(f, n)
  <2> HIDE DEF Step, E
  <2> DEFINE S == {n \in Nat : \E f : Is(f, n)}
  <2>1. 0 \in S
    <3>1. Is([ix \in 0 .. 0 |-> E], 0)
      OBVIOUS
    <3> QED BY <3>1
  <2>2. ASSUME NEW n \in Nat, n \in S PROVE n + 1 \in S
    <3>1. PICK f : Is(f, n)
      BY <2>2
    <3> DEFINE g == [ix \in 0 .. n + 1 |-> IF ix <= n THEN f[ix] ELSE Step(f[n], ix)]
    <3>2. Is(g, n + 1)
      BY <3>1
    <3> HIDE DEF Is
    <3> QED BY <3>2
  <2> HIDE DEF S
  <2>3. \A n \in Nat : n \in S
    BY <2>1, <2>2, NatInd
  <2> QED BY <2>3 DEF S
<1> DEFINE new == CHOOSE f : Is(f, Len(ts))
<1>2. Text(ts) = new[Len(ts)]
  BY DEF Text
<1>3. Is(new, Len(ts))
  <2> HIDE DEF Is
  <2> QED BY <1>1
<1> HIDE DEF new
<1> QED BY <1>2, <1>3 DEF TextUpto

LEMMA TextOfNone == Text(<<>>) = <<>>
<1>1. PICK f : TextUpto(f, <<>>) /\ Text(<<>>) = f[0]
  BY TextMade
<1> QED BY <1>1 DEF TextUpto

LEMMA TextOfMore ==
  ASSUME NEW ts \in Seq(TokenType), NEW x
  PROVE  Text(Append(ts, x)) = Text(ts) \o x.str
<1> DEFINE ns == Append(ts, x)
           N == Len(ts)
<1>1. N \in Nat /\ Len(ns) = N + 1 /\ ns[N + 1] = x
      /\ \A n \in 1 .. N : ns[n] = ts[n]
  OBVIOUS
<1> HIDE DEF ns, N
<1>2. PICK f : TextUpto(f, ts) /\ Text(ts) = f[N]
  BY <1>1, TextMade DEF N
<1>3. PICK g : TextUpto(g, ns) /\ Text(ns) = g[N + 1]
  BY <1>1, TextMade
<1>4. f[0] = <<>> /\ \A n \in Nat : n < N => f[n + 1] = f[n] \o ts[n + 1].str
  <2>1. f = [n \in 0 .. N |-> IF n = 0 THEN <<>> ELSE f[n - 1] \o ts[n].str]
    BY <1>2 DEF TextUpto, N
  <2> QED BY <1>1, <2>1
<1>5. g[0] = <<>> /\ \A n \in Nat : n < N + 1 => g[n + 1] = g[n] \o ns[n + 1].str
  <2>1. g = [n \in 0 .. N + 1 |-> IF n = 0 THEN <<>> ELSE g[n - 1] \o ns[n].str]
    <3> DEFINE m == N + 1
    <3>1. Len(ns) = m
      BY <1>1
    <3> HIDE DEF m
    <3>2. g = [n \in 0 .. m |-> IF n = 0 THEN <<>> ELSE g[n - 1] \o ns[n].str]
      BY <1>3, <3>1 DEF TextUpto
    <3> QED BY <3>2 DEF m
  <2> QED BY <1>1, <2>1
<1> DEFINE S == {n \in Nat : n <= N => f[n] = g[n]}
<1>6. 0 \in S
  BY <1>4, <1>5
<1>7. ASSUME NEW n \in Nat, n \in S PROVE n + 1 \in S
  <2> SUFFICES ASSUME n + 1 <= N PROVE f[n + 1] = g[n + 1]
    OBVIOUS
  <2>1. n < N /\ n < N + 1 /\ ns[n + 1] = ts[n + 1] /\ f[n] = g[n]
    BY <1>1, <1>7
  <2>2. f[n + 1] = f[n] \o ts[n + 1].str
    BY <1>4, <2>1
  <2>3. g[n + 1] = g[n] \o ts[n + 1].str
    BY <1>5, <2>1
  <2> QED BY <2>1, <2>2, <2>3
<1> HIDE DEF S
<1>8. \A n \in Nat : n \in S
  BY <1>6, <1>7, NatInd
<1>9. f[N] = g[N]
  BY <1>1, <1>8 DEF S
<1>10. g[N + 1] = g[N] \o x.str
  <2>1. N < N + 1
    BY <1>1
  <2> QED BY <1>1, <1>5, <2>1
<1> QED BY <1>2, <1>3, <1>9, <1>10 DEF ns

-----------------------------------------------------------------------------
(* Two pieces of a text, one behind the other, are one piece of it. *)
LEMMA Joined ==
  ASSUME NEW T, NEW s \in Seq(T), NEW p \in 1 .. Len(s),
         NEW e \in p .. Len(s)
  PROVE  SubSeq(s, 1, p - 1) \o SubSeq(s, p, e) = SubSeq(s, 1, e)
<1> DEFINE a == SubSeq(s, 1, p - 1)
           b == SubSeq(s, p, e)
           c == SubSeq(s, 1, e)
<1>1. Len(s) \in Nat /\ p \in Nat /\ e \in Nat
  OBVIOUS
<1>2. /\ a \in Seq(T) /\ Len(a) = p - 1 /\ \A k \in 1 .. p - 1 : a[k] = s[k]
  BY <1>1
<1>3. /\ b \in Seq(T) /\ Len(b) = e - p + 1
      /\ \A k \in 1 .. e - p + 1 : b[k] = s[p + k - 1]
  BY <1>1
<1>4. /\ c \in Seq(T) /\ Len(c) = e /\ \A k \in 1 .. e : c[k] = s[k]
  BY <1>1
<1> HIDE DEF a, b, c
<1>5. /\ a \o b \in Seq(T) /\ Len(a \o b) = e
      /\ \A k \in 1 .. p - 1 : (a \o b)[k] = a[k]
      /\ \A k \in 1 .. e - p + 1 : (a \o b)[p - 1 + k] = b[k]
  <2>1. /\ a \o b \in Seq(T) /\ Len(a \o b) = Len(a) + Len(b)
        /\ \A k \in 1 .. Len(a) : (a \o b)[k] = a[k]
        /\ \A k \in 1 .. Len(b) : (a \o b)[Len(a) + k] = b[k]
    <3>1. a \in Seq(T) /\ b \in Seq(T)
      BY <1>2, <1>3
    <3> QED BY <3>1, Concat
  <2>2. \A k \in 1 .. p - 1 : (a \o b)[k] = a[k]
    BY <1>2, <2>1
  <2>3. \A k \in 1 .. e - p + 1 : (a \o b)[p - 1 + k] = b[k]
    BY <1>2, <1>3, <2>1
  <2>4. p - 1 + (e - p + 1) = e
    BY <1>1
  <2> QED BY <1>2, <1>3, <2>1, <2>2, <2>3, <2>4
<1>6. ASSUME NEW k \in 1 .. e PROVE (a \o b)[k] = c[k]
  <2>1. CASE k \in 1 .. p - 1
    BY <1>2, <1>4, <1>5, <2>1
  <2>2. CASE k \notin 1 .. p - 1
    <3> DEFINE j == k - (p - 1)
    <3>1. j \in 1 .. e - p + 1 /\ p - 1 + j = k /\ p + j - 1 = k
      BY <1>1, <2>2
    <3> HIDE DEF j
    <3>2. (a \o b)[p - 1 + j] = b[j] /\ b[j] = s[p + j - 1]
      BY <1>3, <1>5, <3>1
    <3> QED BY <1>4, <3>1, <3>2
  <2> QED BY <2>1, <2>2
<1>7. a \o b = c
  BY <1>4, <1>5, <1>6
<1> QED BY <1>7 DEF a, b, c

LEMMA PlainIsToken ==
  ASSUME NEW ts \in Seq(PlainToken)
  PROVE  ts \in Seq(TokenType) /\ \A k \in 1 .. Len(ts) : ts[k].sym # "EOF"
<1>1. PlainToken \subseteq TokenType /\ \A x \in PlainToken : x.sym # "EOF"
  BY DEF PlainToken, TokenType
<1>2. \A k \in 1 .. Len(ts) : ts[k] \in PlainToken
  OBVIOUS
<1>3. ts \in Seq(TokenType)
  BY <1>1
<1> QED BY <1>1, <1>2, <1>3

(* The token pushed is a piece of the text. *)
LEMMA TokenAtPart ==
  ASSUME NEW t, IsText(t), NEW p \in 1 .. Len(t), NEW e \in p + 1 .. Len(t) + 1
  PROVE  SubSeq(t, p, e - 1) \in Spelling
<1> DEFINE T == STRING \cup {"UNSAFE_", "Unsafe", "#ifdef", "#else", "#define",
                             "#endif", "line", "U"}
<1>1. t \in Seq(T) /\ Len(t) \in Nat
  BY DEF IsText, Spelling
<1> HIDE DEF T
<1>2. p \in 1 .. Len(t) /\ e - 1 \in 1 .. Len(t)
  BY <1>1
<1>3. SubSeq(t, p, e - 1) \in Seq(T)
  BY <1>1, <1>2
<1> QED BY <1>3 DEF Spelling, T

(* A turn of the loop of Tokenize. *)
LEMMA PushTokenInv ==
  ASSUME LexInv, PushToken
  PROVE  LexInv'
<1> DEFINE t == text
           p == cursor
           m == Match(text, cursor)
           e == m.end
           new == TokenAt(text, cursor)
           T == STRING \cup {"UNSAFE_", "Unsafe", "#ifdef", "#else", "#define",
                             "#endif", "line", "U"}
<1>1. /\ IsText(t) /\ Len(t) \in Nat \ {0} /\ p \in 1 .. Len(t) + 1
      /\ result \in Seq(PlainToken)
  BY DEF LexInv, IsText, PlainToken
<1>2. /\ p \in 1 .. Len(t) /\ t[p] # "NUL"
      /\ p > 1 => t[p - 1] # "NUL"
  BY <1>1 DEF PushToken, Done, At
<1>3. /\ result' = Append(result, new) /\ cursor' = e /\ text' = t
      /\ error' = (error \/ m = BAD(p))
      /\ tokens' = tokens /\ pos' = pos /\ funcs' = funcs /\ phase' = phase
      /\ phase = "lex"
  BY DEF PushToken, scan
<1>4. IsMatch(t, p, m) /\ (m = BAD(p) <=> m.sym = "BAD")
  BY <1>1, <1>2, Matched
<1>5. new = [sym |-> m.sym, str |-> SubSeq(t, p, e - 1)]
  BY DEF TokenAt
<1>6. /\ e \in p + 1 .. Len(t) + 1 /\ \A q \in p .. e - 2 : t[q] # "NUL"
      /\ m.sym \in Symbol \ {"EOF"}
      /\ t[e - 1] = "NUL" => m.sym = "Comment"
  BY <1>4 DEF IsMatch, Reaches
<1>7. IsText(t) /\ t \in Seq(T)
  BY <1>1 DEF IsText, Spelling
<1>8. Text(result) = SubSeq(t, 1, p - 1) /\ \A q \in 1 .. p - 2 : t[q] # "NUL"
  BY DEF LexInv
<1>9. /\ error \in BOOLEAN
      /\ error <=> \E k \in 1 .. Len(result) : result[k].sym = "BAD"
  BY DEF LexInv
<1> HIDE DEF t, p, m, e, new, T
<1>10. SubSeq(t, p, e - 1) \in Spelling
  BY <1>1, <1>2, <1>6, TokenAtPart
<1>11. new \in PlainToken /\ new.sym = m.sym /\ new.str = SubSeq(t, p, e - 1)
  <2> DEFINE S == Symbol \ {"EOF"}
             str == SubSeq(t, p, e - 1)
  <2>1. m.sym \in S /\ str \in Spelling /\ new = [sym |-> m.sym, str |-> str]
    BY <1>5, <1>6, <1>10
  <2> HIDE DEF S, str
  <2>2. new \in [sym : S, str : Spelling] /\ new.sym = m.sym /\ new.str = str
    BY <2>1
  <2> QED BY <2>2 DEF S, str, PlainToken
<1>12. /\ result' \in Seq(PlainToken) /\ Len(result) \in Nat
       /\ Len(result') = Len(result) + 1 /\ result'[Len(result) + 1] = new
       /\ \A k \in 1 .. Len(result) : result'[k] = result[k]
  BY <1>1, <1>3, <1>11
<1>13. Text(result') = SubSeq(t, 1, e - 1)
  <2>1. result \in Seq(TokenType)
    BY <1>1, PlainIsToken
  <2>2. Text(result') = Text(result) \o new.str
    BY <1>3, <2>1, TextOfMore
  <2>3. e - 1 \in p .. Len(t)
    BY <1>1, <1>2, <1>6
  <2>4. SubSeq(t, 1, p - 1) \o SubSeq(t, p, e - 1) = SubSeq(t, 1, e - 1)
    BY <1>2, <1>7, <2>3, Joined
  <2> QED BY <1>8, <1>11, <2>2, <2>4
<1>14. ASSUME NEW q \in 1 .. e - 2 PROVE t[q] # "NUL"
  <2>1. q \in 1 .. p - 2 \/ q = p - 1 \/ q \in p .. e - 2
    BY <1>1, <1>2, <1>6
  <2>2. q = p - 1 => p > 1
    BY <1>2
  <2> QED BY <1>2, <1>6, <1>8, <2>1, <2>2
<1>15. error' \in BOOLEAN
  BY <1>3, <1>9
<1>16. error' <=> \E k \in 1 .. Len(result') : result'[k].sym = "BAD"
  <2>1. error' <=> error \/ m.sym = "BAD"
    BY <1>3, <1>4
  <2>2. (\E k \in 1 .. Len(result') : result'[k].sym = "BAD")
          <=> \/ \E k \in 1 .. Len(result) : result[k].sym = "BAD"
              \/ m.sym = "BAD"
    <3>1. ASSUME NEW k \in 1 .. Len(result'), result'[k].sym = "BAD"
          PROVE  \/ \E j \in 1 .. Len(result) : result[j].sym = "BAD"
                 \/ m.sym = "BAD"
      <4>1. k \in 1 .. Len(result) \/ k = Len(result) + 1
        BY <1>12
      <4> QED BY <1>11, <1>12, <3>1, <4>1
    <3>2. ASSUME NEW k \in 1 .. Len(result), result[k].sym = "BAD"
          PROVE  \E j \in 1 .. Len(result') : result'[j].sym = "BAD"
      BY <1>12, <3>2
    <3>3. ASSUME m.sym = "BAD"
          PROVE  \E j \in 1 .. Len(result') : result'[j].sym = "BAD"
      <4>1. Len(result) + 1 \in 1 .. Len(result')
        BY <1>12
      <4> QED BY <1>11, <1>12, <3>3, <4>1
    <3> QED BY <3>1, <3>2, <3>3
  <2> QED BY <1>9, <2>1, <2>2
<1>17. t[e - 1] = "NUL" => Len(result') > 0 /\ result'[Len(result')].sym = "Comment"
  <2>1. Len(result') > 0 /\ result'[Len(result')] = new
    BY <1>12
  <2> QED BY <1>6, <1>11, <2>1
<1>18. ScanInv' /\ (phase' = "lex" => pos' = 1 /\ funcs' = <<>>)
  <2>1. ScanInv /\ pos = 1 /\ funcs = <<>>
    BY <1>3 DEF LexInv
  <2>2. [ScanNext]_<<tokens, scan, phase>>
    BY <1>3 DEF scan
  <2> QED BY <1>3, <2>1, <2>2, ScanStepInv
<1>19. text' = text /\ cursor' = e /\ cursor' \in 1 .. Len(t) + 1 /\ t = text
  BY <1>2, <1>3, <1>6 DEF t
<1> QED
  BY <1>1, <1>12, <1>13, <1>14, <1>15, <1>16, <1>17, <1>18, <1>19
     DEF LexInv, PlainToken

(* Its end. *)
LEMMA PushEOFInv ==
  ASSUME LexInv, PushEOF
  PROVE  LexInv'
<1>1. /\ tokens' = Append(result, EOFToken) /\ phase' = "scan" /\ phase = "lex"
      /\ text' = text /\ cursor' = cursor /\ result' = result /\ error' = error
      /\ pos' = pos /\ funcs' = funcs
  BY DEF PushEOF, lexer, scan
<1>2. result \in Seq(PlainToken) /\ pos = 1 /\ funcs = <<>>
  BY <1>1 DEF LexInv, PlainToken
<1>3. EOFToken \in TokenType /\ EOFToken.sym = "EOF"
  <2>1. <<>> \in Spelling
    BY DEF Spelling
  <2> QED BY <2>1 DEF EOFToken, TokenType, Symbol
<1>4. /\ tokens' \in Seq(TokenType) /\ Len(result) \in Nat
      /\ Len(tokens') = Len(result) + 1 /\ tokens'[Len(result) + 1] = EOFToken
      /\ \A k \in 1 .. Len(result) : tokens'[k] = result[k]
  <2>1. result \in Seq(TokenType)
    BY <1>2, PlainIsToken
  <2> QED BY <1>1, <1>3, <2>1
<1>5. \A k \in 1 .. Len(result) : result[k].sym # "EOF"
  BY <1>2, PlainIsToken
<1>6. IsTokenList(tokens)'
  <2>1. ASSUME NEW k \in 1 .. Len(tokens')
        PROVE  tokens'[k].sym = "EOF" <=> k = Len(tokens')
    <3>1. k \in 1 .. Len(result) \/ k = Len(result) + 1
      BY <1>4
    <3> QED BY <1>3, <1>4, <1>5, <3>1
  <2> QED BY <1>4, <2>1 DEF IsTokenList, TokenType
<1>7. ScanInv'
  <2>1. (ScanInit => ScanInv)'
    BY ScanInitInv, PTL
  <2>2. ScanInit'
    BY <1>1, <1>2, <1>6 DEF ScanInit
  <2> QED BY <2>1, <2>2
<1> QED BY <1>1, <1>2, <1>7 DEF LexInv, IsText

(* The steps of the scan, which touch nothing of the lexer. *)
LEMMA LexScanInv ==
  ASSUME LexInv, ScanNext, UNCHANGED lexer
  PROVE  LexInv'
<1>1. text' = text /\ cursor' = cursor /\ result' = result /\ error' = error
  BY DEF lexer
<1>2. ScanInv'
  BY ScanStepInv DEF LexInv
<1>3. phase' # "lex"
  BY DEF ScanNext, FindInlineFunctions, StepOn, NoName, Function, EndOfFile,
         FindCalls
<1> QED BY <1>1, <1>2, <1>3 DEF LexInv, IsText

LEMMA LexStepInv ==
  LexInv /\ [LexNext]_<<lexer, tokens, scan, phase>> => LexInv'
<1> SUFFICES ASSUME LexInv, [LexNext]_<<lexer, tokens, scan, phase>>
             PROVE  LexInv'
  OBVIOUS
<1>1. CASE UNCHANGED <<lexer, tokens, scan, phase>>
  <2>1. text' = text /\ cursor' = cursor /\ result' = result /\ error' = error
        /\ pos' = pos /\ funcs' = funcs /\ phase' = phase
    BY <1>1 DEF lexer, scan
  <2>2. ScanInv'
    BY <1>1, ScanStepInv DEF LexInv
  <2> QED BY <2>1, <2>2 DEF LexInv, IsText
<1> QED
  BY <1>1, PushTokenInv, PushEOFInv, LexScanInv DEF LexNext, Tokenize

LEMMA LexInitInv == LexInit => LexInv
<1> SUFFICES ASSUME LexInit PROVE LexInv
  OBVIOUS
<1>1. /\ IsText(text) /\ Len(text) \in Nat \ {0} /\ cursor = 1 /\ result = <<>>
      /\ error = FALSE /\ tokens = <<EOFToken>> /\ pos = 1 /\ funcs = <<>>
      /\ phase = "lex"
  BY DEF LexInit, IsText
<1>2. IsTokenList(tokens) /\ Len(tokens) = 1
  <2>1. <<>> \in Spelling
    BY DEF Spelling
  <2>2. EOFToken \in TokenType /\ EOFToken.sym = "EOF"
    BY <2>1 DEF EOFToken, TokenType, Symbol
  <2>3. tokens \in Seq(TokenType) /\ Len(tokens) = 1 /\ tokens[1] = EOFToken
    BY <1>1, <2>2
  <2> QED BY <2>2, <2>3 DEF IsTokenList, TokenType
<1>3. ScanInv
  BY <1>1, <1>2 DEF ScanInv, PosInv, FuncInv, OrderInv
<1>4. Text(result) = SubSeq(text, 1, cursor - 1)
  <2>1. SubSeq(text, 1, 0) = <<>>
    BY <1>1 DEF IsText, Spelling
  <2>2. cursor - 1 = 0
    BY <1>1
  <2> QED BY <1>1, <2>1, <2>2, TextOfNone
<1>5. /\ cursor \in 1 .. Len(text) + 1 /\ ~(cursor > 1)
      /\ \A p \in 1 .. cursor - 2 : text[p] # "NUL"
  BY <1>1
<1>6. /\ result \in Seq([sym : Symbol \ {"EOF"}, str : Spelling])
      /\ Len(result) = 0 /\ error = FALSE
      /\ ~\E k \in 1 .. Len(result) : result[k].sym = "BAD"
  BY <1>1
<1> QED BY <1>1, <1>3, <1>4, <1>5, <1>6 DEF LexInv

(* Every text is cut as LexInv says, and what is found in it keeps ScanInv *)
(* (Tokenize, lexer.re 125-280).                                           *)
THEOREM LexInvCorrect == LexSpec => []LexInv
<1>1. LexInit => LexInv
  BY LexInitInv
<1>2. LexInv /\ [LexNext]_<<lexer, tokens, scan, phase>> => LexInv'
  BY LexStepInv
<1> QED BY <1>1, <1>2, PTL DEF LexSpec

(* No character is lost between tokens, up to the first NUL, whatever the  *)
(* text is; the list ends with its one EOF, and an error is reported       *)
(* exactly if a token is BAD (Tokenize).                                   *)
THEOREM TokensHoldTextCorrect == LexSpec => []TokensHoldText
<1>1. LexInv => TokensHoldText
  BY DEF LexInv, TokensHoldText, ScanInv
<1> QED BY <1>1, LexInvCorrect, PTL

(* So the functions found in any text, not only in a list of tokens that   *)
(* is assumed to end, are in order and apart, each up to its match.        *)
THEOREM FunctionsApartInText == LexSpec => []FunctionsApart
<1>1. LexInv => ScanInv
  BY DEF LexInv
<1> QED BY <1>1, LexInvCorrect, InvApart, PTL

-----------------------------------------------------------------------------
(* From p up to the NUL at z, u has d places further on what t has.        *)
Moved(t, u, p, z, d) ==
    /\ p \in 1 .. z /\ z \in 1 .. Len(t) /\ t[z] = "NUL"
    /\ d \in Int /\ p + d \in 1 .. Len(u) /\ z + d \in 1 .. Len(u)
    /\ \A r \in p .. z : u[r + d] = t[r]

LEMMA MovedBack ==
  ASSUME NEW t, NEW u, NEW p, NEW z, NEW d, IsText(t), IsText(u),
         Moved(t, u, p, z, d)
  PROVE  Moved(u, t, p + d, z + d, -d) /\ p + d + (-d) = p
<1>1. /\ p \in 1 .. z /\ z \in 1 .. Len(t) /\ t[z] = "NUL" /\ d \in Int
      /\ p + d \in 1 .. Len(u) /\ z + d \in 1 .. Len(u) /\ Len(t) \in Nat
      /\ Len(u) \in Nat /\ \A r \in p .. z : u[r + d] = t[r]
  BY DEF Moved, IsText
<1>2. p + d + (-d) = p /\ z + d + (-d) = z /\ -d \in Int /\ p + d \in 1 .. z + d
      /\ p \in 1 .. Len(t)
  BY <1>1
<1>3. ASSUME NEW r \in p + d .. z + d PROVE t[r + (-d)] = u[r]
  <2>1. r + (-d) \in p .. z /\ (r + (-d)) + d = r
    BY <1>1
  <2> QED BY <1>1, <2>1
<1>4. u[z + d] = "NUL"
  BY <1>1
<1> QED BY <1>1, <1>2, <1>3, <1>4 DEF Moved

LEMMA MovedOn ==
  ASSUME NEW t, NEW u, NEW p, NEW z, NEW d, IsText(t), IsText(u),
         Moved(t, u, p, z, d), NEW x \in p .. z
  PROVE  Moved(t, u, x, z, d)
BY DEF Moved, IsText

(* The character there, *)
LEMMA MovedChar ==
  ASSUME NEW t, NEW u, NEW p, NEW z, NEW d, IsText(t), IsText(u),
         Moved(t, u, p, z, d)
  PROVE  /\ p \in 1 .. Len(t) /\ p + d \in 1 .. Len(u) /\ d \in Int
         /\ u[p + d] = t[p] /\ At(t, p) = t[p] /\ At(u, p + d) = t[p]
BY DEF Moved, IsText, At

(* the one behind it, *)
LEMMA MovedNext ==
  ASSUME NEW t, NEW u, NEW p, NEW z, NEW d, IsText(t), IsText(u),
         Moved(t, u, p, z, d), t[p] # "NUL"
  PROVE  /\ Moved(t, u, p + 1, z, d) /\ (p + 1) + d = (p + d) + 1
         /\ At(t, p + 1) = t[p + 1] /\ At(u, (p + d) + 1) = t[p + 1]
<1>1. p \in 1 .. z /\ z \in Nat /\ d \in Int /\ p # z
  BY DEF Moved, IsText
<1>2. p + 1 \in p .. z /\ (p + 1) + d = (p + d) + 1
  BY <1>1
<1>3. Moved(t, u, p + 1, z, d)
  BY <1>2, MovedOn
<1> QED BY <1>2, <1>3, MovedChar

(* What a run is. *)
LEMMA RunIs ==
  ASSUME NEW t, IsText(t), NEW p \in 1 .. Len(t), NEW S, "NUL" \notin S,
         NEW e \in p .. Len(t), t[e] \notin S, \A q \in p .. e - 1 : t[q] \in S
  PROVE  Run(t, S, p) = e
<1> DEFINE T == {q \in p .. Len(t) : t[q] \notin S}
<1>1. T \in SUBSET Nat /\ e \in T /\ Len(t) \in Nat
  BY DEF IsText
<1>2. First(T) \in T /\ \A q \in T : First(T) <= q
  BY <1>1, LeastExists DEF First
<1>3. First(T) <= e
  BY <1>1, <1>2
<1>4. First(T) \notin p .. e - 1
  BY <1>2
<1>5. First(T) = e
  BY <1>1, <1>2, <1>3, <1>4
<1> QED BY <1>5 DEF Run

LEMMA RunStops ==
  ASSUME NEW t, IsText(t), NEW p \in 1 .. Len(t), NEW S, "NUL" \notin S
  PROVE  /\ Run(t, S, p) \in p .. Len(t) /\ t[Run(t, S, p)] \notin S
         /\ \A q \in p .. Run(t, S, p) - 1 : t[q] \in S
<1> DEFINE T == {q \in p .. Len(t) : t[q] \notin S}
           e == Run(t, S, p)
<1>1. Len(t) \in T /\ T \in SUBSET Nat /\ Len(t) \in Nat
  BY DEF IsText
<1>2. First(T) \in T /\ \A q \in T : First(T) <= q
  BY <1>1, LeastExists DEF First
<1>3. e = First(T)
  BY DEF Run
<1> HIDE DEF e
<1>4. ASSUME NEW q \in p .. e - 1 PROVE t[q] \in S
  <2>1. q \in p .. Len(t) /\ ~(e <= q)
    BY <1>1, <1>2, <1>3
  <2> QED BY <1>2, <1>3, <2>1
<1>5. e \in p .. Len(t) /\ t[e] \notin S
  BY <1>2, <1>3
<1> QED BY <1>4, <1>5 DEF e

(* a run, *)
LEMMA MovedRun ==
  ASSUME NEW t, NEW u, NEW p, NEW z, NEW d, IsText(t), IsText(u),
         Moved(t, u, p, z, d), NEW S, "NUL" \notin S
  PROVE  Run(u, S, p + d) = Run(t, S, p) + d /\ Moved(t, u, Run(t, S, p), z, d)
<1>1. /\ p \in 1 .. z /\ z \in 1 .. Len(t) /\ t[z] = "NUL" /\ d \in Int
      /\ p + d \in 1 .. Len(u) /\ z + d \in 1 .. Len(u) /\ Len(t) \in Nat
      /\ Len(u) \in Nat /\ \A r \in p .. z : u[r + d] = t[r]
  BY DEF Moved, IsText
<1>2. PICK e : e = Run(t, S, p)
  OBVIOUS
<1>3. p \in 1 .. Len(t)
  BY <1>1
<1>4. e \in p .. Len(t) /\ t[e] \notin S /\ \A q \in p .. e - 1 : t[q] \in S
  BY <1>2, <1>3, RunStops
<1>5. e \in p .. z
  <2>1. z \notin p .. e - 1
    BY <1>1, <1>4
  <2> QED BY <1>1, <1>4, <2>1
<1>6. e + d \in p + d .. Len(u) /\ u[e + d] \notin S
  BY <1>1, <1>4, <1>5
<1>7. ASSUME NEW q \in p + d .. (e + d) - 1 PROVE u[q] \in S
  <2>1. q - d \in p .. e - 1 /\ (q - d) + d = q /\ q - d \in p .. z
    BY <1>1, <1>5
  <2> QED BY <1>1, <1>4, <2>1
<1>8. Run(u, S, p + d) = e + d
  BY <1>1, <1>6, <1>7, RunIs
<1>9. Moved(t, u, e, z, d)
  BY <1>5, MovedOn
<1> QED BY <1>2, <1>8, <1>9

(* and a character that may be missing. *)
LEMMA MovedOpt ==
  ASSUME NEW t, NEW u, NEW p, NEW z, NEW d, IsText(t), IsText(u),
         Moved(t, u, p, z, d), NEW S, "NUL" \notin S
  PROVE  Opt(u, S, p + d) = Opt(t, S, p) + d /\ Moved(t, u, Opt(t, S, p), z, d)
<1>1. u[p + d] = t[p] /\ p \in Int /\ d \in Int
  BY MovedChar
<1>2. CASE t[p] \in S
  <2>1. t[p] # "NUL"
    BY <1>2
  <2>2. Moved(t, u, p + 1, z, d) /\ (p + 1) + d = (p + d) + 1
    BY <2>1, MovedNext
  <2> QED BY <1>1, <1>2, <2>2 DEF Opt
<1>3. CASE t[p] \notin S
  BY <1>1, <1>3 DEF Opt
<1> QED BY <1>2, <1>3

LEMMA MovedExp ==
  ASSUME NEW t, NEW u, NEW p, NEW z, NEW d, IsText(t), IsText(u),
         Moved(t, u, p, z, d), NEW e \in ExpEnds(t, p)
  PROVE  e + d \in ExpEnds(u, p + d) /\ Moved(t, u, e, z, d)
<1> DEFINE digits == Opt(t, {"-"}, p + 1)
           moved == Opt(u, {"-"}, (p + d) + 1)
<1>1. e = p \/ (At(t, p) = "e" /\ At(t, digits) \in Digit /\ e = Run(t, Digit, digits))
  BY DEF ExpEnds
<1>2. /\ p + d \in ExpEnds(u, p + d)
      /\ At(u, p + d) = "e" /\ At(u, moved) \in Digit =>
            Run(u, Digit, moved) \in ExpEnds(u, p + d)
  BY DEF ExpEnds
<1> HIDE DEF digits, moved
<1>3. CASE e = p
  BY <1>2, <1>3
<1>4. CASE At(t, p) = "e" /\ At(t, digits) \in Digit /\ e = Run(t, Digit, digits)
  <2>1. At(t, p) = t[p] /\ At(u, p + d) = "e" /\ t[p] # "NUL"
    BY <1>4, MovedChar
  <2>2. Moved(t, u, p + 1, z, d) /\ (p + 1) + d = (p + d) + 1
    BY <2>1, MovedNext
  <2>3. moved = digits + d /\ Moved(t, u, digits, z, d)
    <3>1. "NUL" \notin {"-"}
      OBVIOUS
    <3> QED BY <2>2, <3>1, MovedOpt DEF digits, moved
  <2>4. At(u, moved) = At(t, digits)
    BY <2>3, MovedChar
  <2>5. Run(u, Digit, moved) = e + d /\ Moved(t, u, e, z, d)
    BY <1>4, <2>3, NoNul, MovedRun
  <2> QED BY <1>2, <1>4, <2>1, <2>4, <2>5
<1> QED BY <1>1, <1>3, <1>4

LEMMA NumberIs ==
  ASSUME NEW t, NEW p, NEW e
  PROVE  e \in NumberEnds(t, p) <=>
           \/ /\ t[p] = "0" /\ At(t, p + 1) = "x" /\ At(t, p + 2) \in Hex
              /\ e = Run(t, IntSuffix, Run(t, Hex, p + 2))
           \/ Run(t, Digit, p) > p /\ e = Run(t, IntSuffix, Run(t, Digit, p))
           \/ /\ Run(t, Digit, p) > p
              /\ \E x \in ExpEnds(t, Run(t, Digit, p)) \ {Run(t, Digit, p)} :
                    e = Opt(t, FloatSuffix, x)
           \/ /\ t[Run(t, Digit, p)] = "."
              /\ Run(t, Digit, p) > p \/ At(t, Run(t, Digit, p) + 1) \in Digit
              /\ \E x \in ExpEnds(t, Run(t, Digit, Run(t, Digit, p) + 1)) :
                    e = Opt(t, FloatSuffix, x)
<1> DEFINE d == Run(t, Digit, p)
           hex == /\ t[p] = "0" /\ At(t, p + 1) = "x" /\ At(t, p + 2) \in Hex
           point == t[d] = "." /\ (d > p \/ At(t, d + 1) \in Digit)
<1>1. NumberEnds(t, p) =
       (IF hex THEN {Run(t, IntSuffix, Run(t, Hex, p + 2))} ELSE {})
        \cup (IF d > p THEN {Run(t, IntSuffix, d)} ELSE {})
        \cup (IF d > p THEN {Opt(t, FloatSuffix, x) : x \in ExpEnds(t, d) \ {d}}
                       ELSE {})
        \cup (IF point THEN {Opt(t, FloatSuffix, x) :
                               x \in ExpEnds(t, Run(t, Digit, d + 1))} ELSE {})
  BY DEF NumberEnds
<1> HIDE DEF d, hex, point
<1>2. e \in NumberEnds(t, p) <=>
           \/ hex /\ e = Run(t, IntSuffix, Run(t, Hex, p + 2))
           \/ d > p /\ e = Run(t, IntSuffix, d)
           \/ d > p /\ \E x \in ExpEnds(t, d) \ {d} : e = Opt(t, FloatSuffix, x)
           \/ point /\ \E x \in ExpEnds(t, Run(t, Digit, d + 1)) : e = Opt(t, FloatSuffix, x)
  BY <1>1
<1> QED BY <1>2 DEF d, hex, point

LEMMA MovedNumber ==
  ASSUME NEW t, NEW u, NEW p, NEW z, NEW d, IsText(t), IsText(u),
         Moved(t, u, p, z, d), NEW e \in NumberEnds(t, p)
  PROVE  e + d \in NumberEnds(u, p + d) /\ Moved(t, u, e, z, d)
<1> DEFINE a == Run(t, Digit, p)
           b == Run(u, Digit, p + d)
<1>1. b = a + d /\ Moved(t, u, a, z, d)
  BY NoNul, MovedRun
<1> HIDE DEF a, b
<1>2. u[p + d] = t[p] /\ u[b] = t[a] /\ p \in Int /\ d \in Int /\ a \in Int
      /\ (b > p + d <=> a > p)
  <2>1. u[p + d] = t[p] /\ p \in Int /\ d \in Int
    BY MovedChar
  <2>2. u[b] = t[a] /\ a \in Int
    BY <1>1, MovedChar
  <2> QED BY <1>1, <2>1, <2>2
<1>3. CASE t[p] = "0" /\ At(t, p + 1) = "x" /\ At(t, p + 2) \in Hex
           /\ e = Run(t, IntSuffix, Run(t, Hex, p + 2))
  <2>1. Moved(t, u, p + 1, z, d) /\ (p + 1) + d = (p + d) + 1
        /\ t[p + 1] = "x" /\ At(u, (p + d) + 1) = "x"
    BY <1>3, MovedNext
  <2>2. /\ Moved(t, u, (p + 1) + 1, z, d) /\ ((p + 1) + 1) + d = ((p + 1) + d) + 1
        /\ At(u, ((p + 1) + d) + 1) = At(t, (p + 1) + 1)
    BY <2>1, MovedNext
  <2>3. (p + 1) + 1 = p + 2 /\ ((p + 1) + d) + 1 = (p + d) + 2
    BY <1>2
  <2>4. Moved(t, u, p + 2, z, d) /\ (p + 2) + d = (p + d) + 2
        /\ At(u, (p + d) + 2) \in Hex
    BY <1>2, <1>3, <2>2, <2>3
  <2>5. /\ Run(u, Hex, (p + d) + 2) = Run(t, Hex, p + 2) + d
        /\ Moved(t, u, Run(t, Hex, p + 2), z, d)
    BY <2>4, NoNul, MovedRun
  <2>6. /\ Run(u, IntSuffix, Run(u, Hex, (p + d) + 2)) = e + d
        /\ Moved(t, u, e, z, d)
    BY <1>3, <2>5, NoNul, MovedRun
  <2> QED BY <1>2, <1>3, <2>1, <2>4, <2>6, NumberIs
<1>4. CASE a > p /\ e = Run(t, IntSuffix, a)
  <2>1. Run(u, IntSuffix, b) = e + d /\ Moved(t, u, e, z, d)
    BY <1>1, <1>4, NoNul, MovedRun
  <2>2. b > p + d
    BY <1>2, <1>4
  <2> QED BY <2>1, <2>2, NumberIs DEF b
<1>5. ASSUME NEW s, Moved(t, u, s, z, d), NEW x \in ExpEnds(t, s),
             e = Opt(t, FloatSuffix, x)
      PROVE  /\ x + d \in ExpEnds(u, s + d) /\ e + d = Opt(u, FloatSuffix, x + d)
             /\ Moved(t, u, e, z, d) /\ x \in Int
  <2>1. x + d \in ExpEnds(u, s + d) /\ Moved(t, u, x, z, d)
    BY <1>5, MovedExp
  <2>2. e + d = Opt(u, FloatSuffix, x + d) /\ Moved(t, u, e, z, d)
    BY <1>5, <2>1, NoNul, MovedOpt
  <2>3. x \in Int
    BY <2>1, MovedChar
  <2> QED BY <2>1, <2>2, <2>3
<1>6. CASE a > p /\ \E x \in ExpEnds(t, a) \ {a} : e = Opt(t, FloatSuffix, x)
  <2>1. PICK x \in ExpEnds(t, a) \ {a} : e = Opt(t, FloatSuffix, x)
    BY <1>6
  <2>2. /\ x + d \in ExpEnds(u, b) /\ e + d = Opt(u, FloatSuffix, x + d)
        /\ Moved(t, u, e, z, d) /\ x \in Int
    BY <1>1, <1>5, <2>1
  <2>3. x + d # b
    BY <1>1, <1>2, <2>1, <2>2
  <2>4. b > p + d
    BY <1>2, <1>6
  <2> QED BY <2>2, <2>3, <2>4, NumberIs DEF b
<1>7. CASE t[a] = "." /\ (a > p \/ At(t, a + 1) \in Digit)
           /\ \E x \in ExpEnds(t, Run(t, Digit, a + 1)) : e = Opt(t, FloatSuffix, x)
  <2> DEFINE f == Run(t, Digit, a + 1)
             g == Run(u, Digit, b + 1)
  <2>1. Moved(t, u, a + 1, z, d) /\ (a + 1) + d = b + 1
        /\ At(u, b + 1) = At(t, a + 1)
    BY <1>1, <1>7, MovedNext
  <2>2. g = f + d /\ Moved(t, u, f, z, d)
    BY <2>1, NoNul, MovedRun
  <2>3. PICK x \in ExpEnds(t, f) : e = Opt(t, FloatSuffix, x)
    BY <1>7
  <2> HIDE DEF f
  <2>4. /\ x + d \in ExpEnds(u, g) /\ e + d = Opt(u, FloatSuffix, x + d)
        /\ Moved(t, u, e, z, d)
    <3> HIDE DEF g
    <3> QED BY <1>5, <2>2, <2>3
  <2>5. u[b] = "." /\ (b > p + d \/ At(u, b + 1) \in Digit)
    BY <1>2, <1>7, <2>1
  <2> QED BY <2>4, <2>5, NumberIs DEF b
<1> QED BY <1>3, <1>4, <1>6, <1>7, NumberIs DEF a

LEMMA MovedCharLiteral ==
  ASSUME NEW t, NEW u, NEW p, NEW z, NEW d, IsText(t), IsText(u),
         Moved(t, u, p, z, d), NEW e \in CharEnds(t, p)
  PROVE  e + d \in CharEnds(u, p + d)
<1> DEFINE anych == any \ {"'", "\\"}
           escaped == At(t, p + 1) = "\\" /\ At(t, p + 2) \in any
           last == IF escaped THEN Run(t, anych, p + 3)
                   ELSE IF At(t, p + 1) \in anych THEN p + 2 ELSE p
           p2 == p + d
           escaped2 == At(u, p2 + 1) = "\\" /\ At(u, p2 + 2) \in any
           last2 == IF escaped2 THEN Run(u, anych, p2 + 3)
                    ELSE IF At(u, p2 + 1) \in anych THEN p2 + 2 ELSE p2
<1>1. t[p] = "'" /\ last > p /\ t[last] = "'" /\ e = last + 1
  BY DEF CharEnds
<1>2. u[p2] = "'" /\ last2 > p2 /\ u[last2] = "'" => last2 + 1 \in CharEnds(u, p2)
  BY DEF CharEnds
<1>3. "NUL" \notin anych /\ "NUL" \notin any
  BY NoNul
<1> HIDE DEF anych
<1>4. p \in Int /\ d \in Int /\ p2 \in Int /\ u[p2] = "'"
  BY <1>1, MovedChar
<1>5. Moved(t, u, p + 1, z, d) /\ At(u, p2 + 1) = At(t, p + 1)
      /\ At(t, p + 1) = t[p + 1] /\ (p + 1) + d = p2 + 1
  <2>1. t[p] # "NUL"
    BY <1>1
  <2> HIDE DEF last, last2, escaped, escaped2
  <2> QED BY <2>1, MovedNext
<1>6. ASSUME t[p + 1] # "NUL"
      PROVE  Moved(t, u, p + 2, z, d) /\ (p + 2) + d = p2 + 2
             /\ At(u, p2 + 2) = At(t, p + 2) /\ At(t, p + 2) = t[p + 2]
  <2>1. /\ Moved(t, u, (p + 1) + 1, z, d) /\ At(u, ((p + 1) + d) + 1) = At(t, (p + 1) + 1)
        /\ At(t, (p + 1) + 1) = t[(p + 1) + 1]
    <3> HIDE DEF last, last2, escaped, escaped2, p2
    <3> QED BY ONLY IsText(t), IsText(u), <1>5, <1>6, MovedNext
  <2>2. (p + 1) + 1 = p + 2 /\ ((p + 1) + d) + 1 = p2 + 2 /\ (p + 2) + d = p2 + 2
    BY <1>4
  <2> QED BY <2>1, <2>2
<1> HIDE DEF p2
<1>7. Moved(t, u, last, z, d) /\ last2 = last + d
  <2>1. CASE escaped
    <3>1. escaped2 /\ Moved(t, u, p + 2, z, d) /\ t[p + 2] # "NUL"
      BY <1>3, <1>5, <1>6, <2>1
    <3>2. Moved(t, u, (p + 2) + 1, z, d)
      BY <3>1, MovedNext
    <3>3. (p + 2) + 1 = p + 3 /\ (p + 3) + d = p2 + 3
      BY <1>4 DEF p2
    <3>4. Moved(t, u, p + 3, z, d)
      BY <3>2, <3>3
    <3>5. /\ Run(u, anych, (p + 3) + d) = Run(t, anych, p + 3) + d
          /\ Moved(t, u, Run(t, anych, p + 3), z, d)
      BY <1>3, <3>4, MovedRun
    <3> QED BY <2>1, <3>1, <3>3, <3>5
  <2>2. CASE ~escaped
    <3>1. At(t, p + 1) \in anych /\ last = p + 2
      BY <1>1, <1>4, <2>2
    <3>2. t[p + 1] # "NUL"
      BY <1>3, <1>5, <3>1
    <3>3. ~escaped2 /\ At(u, p2 + 1) \in anych
      BY <1>5, <1>6, <2>2, <3>1, <3>2
    <3> QED BY <1>6, <3>1, <3>2, <3>3
  <2> QED BY <2>1, <2>2
<1> HIDE DEF last, last2
<1>8. u[last2] = "'" /\ last \in Int
  BY <1>1, <1>7, MovedChar
<1>9. last2 > p2 /\ last2 + 1 = e + d
  BY <1>1, <1>4, <1>7, <1>8 DEF p2
<1> QED BY <1>2, <1>4, <1>8, <1>9 DEF p2

(* A string: f has the ends of the ones that begin behind o. *)
StringFun(t, f, o) == f = [q \in o + 1 .. Len(t) |-> StringBody(t, f, q)]

LEMMA StringEndsAre ==
  ASSUME NEW t, IsText(t), NEW o \in 1 .. Len(t)
  PROVE  \E f : /\ StringFun(t, f, o)
                /\ StringEnds(t, o) = IF t[o] = "\"" THEN f[o + 1] ELSE {}
<1> DEFINE Is(f) == f = [q \in o + 1 .. Len(t) |-> StringBody(t, f, q)]
           ends == CHOOSE f : Is(f)
<1>1. StringEnds(t, o) = IF t[o] = "\"" THEN ends[o + 1] ELSE {}
  BY DEF StringEnds, StringBody
<1>2. Is(ends)
  <2>1. \E f : Is(f)
    BY StringRecursion
  <2> HIDE DEF Is
  <2> QED BY <2>1
<1> HIDE DEF ends
<1> QED BY <1>1, <1>2 DEF StringFun

LEMMA StringFunAt ==
  ASSUME NEW t, NEW f, NEW o, StringFun(t, f, o), NEW q \in o + 1 .. Len(t)
  PROVE  f[q] = StringBody(t, f, q)
BY DEF StringFun

(* One turn of it, *)
LEMMA MovedBody ==
  ASSUME NEW t, NEW u, NEW p, NEW z, NEW d, IsText(t), IsText(u),
         Moved(t, u, p, z, d), NEW f, NEW g, NEW e \in StringBody(t, f, p),
         \A r \in p + 1 .. z : \A x \in f[r] : x + d \in g[r + d]
  PROVE  e + d \in StringBody(u, g, p + d)
<1>1. u[p + d] = t[p] /\ p \in Int /\ d \in Int /\ z \in Int
  BY MovedChar DEF Moved
<1>2. CASE t[p] = "\""
  <2>1. e = p + 1
    BY <1>2 DEF StringBody
  <2>2. StringBody(u, g, p + d) = {(p + d) + 1}
    BY <1>1, <1>2 DEF StringBody
  <2> QED BY <1>1, <2>1, <2>2
<1>3. CASE t[p] # "\"" /\ t[p] = "\\"
  <2>1. At(t, p + 1) \in any /\ e \in f[p + 2]
    BY <1>3 DEF StringBody
  <2>2. Moved(t, u, p + 1, z, d) /\ At(u, (p + d) + 1) = At(t, p + 1)
        /\ At(t, p + 1) = t[p + 1]
    <3>1. t[p] # "NUL"
      BY <1>3
    <3> QED BY <3>1, MovedNext
  <2>3. t[p + 1] # "NUL"
    BY <2>1, <2>2, NoNul
  <2>4. Moved(t, u, (p + 1) + 1, z, d)
    BY <2>2, <2>3, MovedNext
  <2>5. p + 2 \in p + 1 .. z /\ (p + d) + 2 = (p + 2) + d
    <3>1. (p + 1) + 1 \in 1 .. z
      BY <2>4 DEF Moved
    <3> QED BY <1>1, <3>1
  <2>6. e + d \in g[(p + d) + 2]
    BY <2>1, <2>5
  <2>7. StringBody(u, g, p + d) = g[(p + d) + 2]
    BY <1>1, <1>3, <2>1, <2>2 DEF StringBody
  <2> QED BY <2>6, <2>7
<1>4. CASE t[p] # "\"" /\ t[p] # "\\"
  <2>1. t[p] \in any /\ e \in f[p + 1]
    BY <1>4 DEF StringBody
  <2>2. Moved(t, u, p + 1, z, d)
    BY <2>1, NoNul, MovedNext
  <2>3. p + 1 \in p + 1 .. z /\ (p + d) + 1 = (p + 1) + d
    BY <1>1, <2>2 DEF Moved
  <2>4. e + d \in g[(p + d) + 1]
    BY <2>1, <2>3
  <2>5. StringBody(u, g, p + d) = g[(p + d) + 1]
    BY <1>1, <1>4, <2>1 DEF StringBody
  <2> QED BY <2>4, <2>5
<1> QED BY <1>2, <1>3, <1>4

(* and all of them. *)
LEMMA MovedStrings ==
  ASSUME NEW t, NEW u, NEW p, NEW z, NEW d, IsText(t), IsText(u),
         Moved(t, u, p, z, d), NEW o \in Nat, NEW o2 \in Nat, p > o, p + d > o2,
         NEW f, NEW g, StringFun(t, f, o), StringFun(u, g, o2),
         NEW e \in f[p]
  PROVE  e + d \in g[p + d]
<1>1. /\ p \in 1 .. z /\ z \in 1 .. Len(t) /\ d \in Int /\ p + d \in 1 .. Len(u)
      /\ z + d \in 1 .. Len(u) /\ Len(t) \in Nat /\ Len(u) \in Nat
  BY DEF Moved, IsText
<1> DEFINE S == {m \in Nat : \A r \in p .. z : r >= z - m =>
                                \A x \in f[r] : x + d \in g[r + d]}
<1>2. ASSUME NEW r \in p .. z, NEW x \in f[r],
             \A s \in r + 1 .. z : \A y \in f[s] : y + d \in g[s + d]
      PROVE  x + d \in g[r + d]
  <2>1. Moved(t, u, r, z, d)
    BY MovedOn
  <2>2. r \in o + 1 .. Len(t) /\ r + d \in o2 + 1 .. Len(u)
    BY <1>1
  <2>3. f[r] = StringBody(t, f, r) /\ g[r + d] = StringBody(u, g, r + d)
    BY <2>2, StringFunAt
  <2>4. x \in StringBody(t, f, r)
    BY <2>3
  <2>5. x + d \in StringBody(u, g, r + d)
    BY <1>2, <2>1, <2>4, MovedBody
  <2> QED BY <2>3, <2>5
<1>3. 0 \in S
  <2> SUFFICES ASSUME NEW r \in p .. z, r >= z - 0, NEW x \in f[r]
               PROVE  x + d \in g[r + d]
    OBVIOUS
  <2>1. \A s \in r + 1 .. z : FALSE
    BY <1>1
  <2> QED BY <1>2, <2>1
<1>4. ASSUME NEW m \in Nat, m \in S PROVE m + 1 \in S
  <2> SUFFICES ASSUME NEW r \in p .. z, r >= z - (m + 1), NEW x \in f[r]
               PROVE  x + d \in g[r + d]
    OBVIOUS
  <2>1. \A s \in r + 1 .. z : s \in p .. z /\ s >= z - m
    BY <1>1
  <2>2. \A s \in r + 1 .. z : \A y \in f[s] : y + d \in g[s + d]
    BY <1>4, <2>1
  <2> QED BY <1>2, <2>2
<1> HIDE DEF S
<1>5. \A m \in Nat : m \in S
  BY <1>3, <1>4, NatInd
<1>6. z \in S /\ p \in p .. z /\ p >= z - z
  BY <1>1, <1>5
<1> QED BY <1>6 DEF S

LEMMA MovedString ==
  ASSUME NEW t, NEW u, NEW p, NEW z, NEW d, IsText(t), IsText(u),
         Moved(t, u, p, z, d), NEW e \in StringEnds(t, p)
  PROVE  e + d \in StringEnds(u, p + d)
<1>1. p \in 1 .. Len(t) /\ p + d \in 1 .. Len(u) /\ u[p + d] = t[p] /\ d \in Int
  BY MovedChar
<1>2. PICK f : /\ StringFun(t, f, p)
               /\ StringEnds(t, p) = IF t[p] = "\"" THEN f[p + 1] ELSE {}
  BY <1>1, StringEndsAre
<1>3. PICK g : /\ StringFun(u, g, p + d)
               /\ StringEnds(u, p + d) = IF u[p + d] = "\"" THEN g[(p + d) + 1] ELSE {}
  BY <1>1, StringEndsAre
<1>4. t[p] = "\"" /\ e \in f[p + 1]
  BY <1>2
<1>5. Moved(t, u, p + 1, z, d) /\ (p + 1) + d = (p + d) + 1
  <2>1. t[p] # "NUL"
    BY <1>4
  <2> QED BY <2>1, MovedNext
<1>6. p \in Nat /\ p + d \in Nat /\ p + 1 > p /\ (p + 1) + d > p + d
  BY <1>1
<1>7. e + d \in g[(p + 1) + d]
  BY <1>2, <1>3, <1>4, <1>5, <1>6, MovedStrings
<1> QED BY <1>1, <1>3, <1>4, <1>5, <1>7

(* Literals, *)
LEMMA LiteralIs ==
  ASSUME NEW t, NEW p, NEW e
  PROVE  e \in LiteralEnds(t, p) <=>
           \/ e \in NumberEnds(t, p)
           \/ \E o \in {p, Opt(t, {"L"}, p)} :
                 e \in CharEnds(t, o) \/ e \in StringEnds(t, o)
BY DEF LiteralEnds

LEMMA MovedLiteral ==
  ASSUME NEW t, NEW u, NEW p, NEW z, NEW d, IsText(t), IsText(u),
         Moved(t, u, p, z, d), NEW e \in LiteralEnds(t, p)
  PROVE  e + d \in LiteralEnds(u, p + d)
<1>1. CASE e \in NumberEnds(t, p)
  BY <1>1, MovedNumber, LiteralIs
<1>2. ASSUME NEW o \in {p, Opt(t, {"L"}, p)}, e \in CharEnds(t, o) \/ e \in StringEnds(t, o)
      PROVE  e + d \in LiteralEnds(u, p + d)
  <2>1. "NUL" \notin {"L"}
    OBVIOUS
  <2>2. Moved(t, u, o, z, d) /\ o + d \in {p + d, Opt(u, {"L"}, p + d)}
    BY <2>1, MovedOpt
  <2>3. e + d \in CharEnds(u, o + d) \/ e + d \in StringEnds(u, o + d)
    BY <1>2, <2>2, MovedCharLiteral, MovedString
  <2> QED BY <2>2, <2>3, LiteralIs
<1> QED BY <1>1, <1>2, LiteralIs

(* operators, *)
LEMMA OpIs ==
  ASSUME NEW t, NEW p \in Nat, NEW e
  PROVE  e \in OpEnds(t, p) <=>
           \/ t[p] \in OpChars /\ e = p + 1
           \/ At(t, p) = "-" /\ At(t, p + 1) = "-" /\ e = p + 2
           \/ At(t, p) = "." /\ At(t, p + 1) = "." /\ At(t, p + 2) = "." /\ e = p + 3
<1> DEFINE Fits(op) == (\A k \in 1 .. Len(op) : At(t, p + k - 1) = op[k])
<1>1. e \in OpEnds(t, p) <=>
        \/ t[p] \in OpChars /\ e = p + 1
        \/ \E op \in LongOps : Fits(op) /\ e = p + Len(op)
  BY DEF OpEnds
<1>2. p + 1 - 1 = p /\ p + 2 - 1 = p + 1 /\ p + 3 - 1 = p + 2
  OBVIOUS
<1>3. Fits(<<"-", "-">>) <=> At(t, p) = "-" /\ At(t, p + 1) = "-"
  <2>1. Len(<<"-", "-">>) = 2 /\ \A k \in 1 .. 2 : k = 1 \/ k = 2
    OBVIOUS
  <2>2. <<"-", "-">>[1] = "-" /\ <<"-", "-">>[2] = "-"
    OBVIOUS
  <2> QED BY <1>2, <2>1, <2>2
<1>4. Fits(<<".", ".", ".">>) <=> At(t, p) = "." /\ At(t, p + 1) = "." /\ At(t, p + 2) = "."
  <2>1. Len(<<".", ".", ".">>) = 3 /\ \A k \in 1 .. 3 : k = 1 \/ k = 2 \/ k = 3
    OBVIOUS
  <2>2. \A k \in 1 .. 3 : <<".", ".", ".">>[k] = "."
    OBVIOUS
  <2>3. Fits(<<".", ".", ".">>) <=> \A k \in 1 .. 3 : At(t, p + k - 1) = "."
    BY <2>1, <2>2
  <2> QED BY <1>2, <2>1, <2>3
<1>5. Len(<<"-", "-">>) = 2 /\ Len(<<".", ".", ".">>) = 3
  OBVIOUS
<1> HIDE DEF Fits
<1>6. (\E op \in LongOps : Fits(op) /\ e = p + Len(op)) <=>
        \/ Fits(<<"-", "-">>) /\ e = p + 2
        \/ Fits(<<".", ".", ".">>) /\ e = p + 3
  BY <1>5 DEF LongOps
<1> QED BY <1>1, <1>3, <1>4, <1>6

LEMMA MovedOp ==
  ASSUME NEW t, NEW u, NEW p, NEW z, NEW d, IsText(t), IsText(u),
         Moved(t, u, p, z, d), NEW e \in OpEnds(t, p)
  PROVE  e + d \in OpEnds(u, p + d)
<1>1. p \in Nat /\ p + d \in Nat /\ d \in Int /\ u[p + d] = t[p] /\ At(t, p) = t[p]
      /\ At(u, p + d) = t[p]
  BY MovedChar
<1>2. ASSUME t[p] # "NUL"
      PROVE  Moved(t, u, p + 1, z, d) /\ At(u, (p + d) + 1) = At(t, p + 1)
             /\ At(t, p + 1) = t[p + 1] /\ (p + 1) + d = (p + d) + 1
  BY <1>2, MovedNext
<1>3. CASE t[p] \in OpChars /\ e = p + 1
  <2>1. e + d = (p + d) + 1
    BY <1>1, <1>3
  <2> QED BY <1>1, <1>3, <2>1, OpIs
<1>4. CASE At(t, p) = "-" /\ At(t, p + 1) = "-" /\ e = p + 2
  <2>1. e + d = (p + d) + 2
    BY <1>1, <1>4
  <2>2. At(u, p + d) = "-" /\ At(u, (p + d) + 1) = "-"
    BY <1>1, <1>2, <1>4
  <2> QED BY <1>1, <2>1, <2>2, OpIs
<1>5. CASE At(t, p) = "." /\ At(t, p + 1) = "." /\ At(t, p + 2) = "." /\ e = p + 3
  <2>1. e + d = (p + d) + 3
    BY <1>1, <1>5
  <2>2. At(u, p + d) = "." /\ At(u, (p + d) + 1) = "." /\ Moved(t, u, p + 1, z, d)
        /\ t[p + 1] = "." /\ (p + 1) + d = (p + d) + 1
    BY <1>1, <1>2, <1>5
  <2>3. At(u, ((p + 1) + d) + 1) = t[(p + 1) + 1] /\ At(t, (p + 1) + 1) = t[(p + 1) + 1]
    <3>1. t[p + 1] # "NUL"
      BY <2>2
    <3> QED BY <2>2, <3>1, MovedNext
  <2>4. ((p + 1) + d) + 1 = (p + d) + 2 /\ (p + 1) + 1 = p + 2
    BY <1>1
  <2>5. At(u, (p + d) + 2) = "."
    BY <1>5, <2>3, <2>4
  <2> QED BY <1>1, <2>1, <2>2, <2>5, OpIs
<1> QED BY <1>1, <1>3, <1>4, <1>5, OpIs

(* comments: where the second scanner stops, *)
Closed(t, p, q) == q \in p + 2 .. Len(t) - 1 /\ t[q] = "*" /\ t[q + 1] = "/"

StopsAt(t, p, q) ==
    /\ q \in p .. Len(t) /\ (Closed(t, p, q) \/ t[q] = "NUL")
    /\ \A r \in p .. q - 1 : ~Closed(t, p, r) /\ t[r] # "NUL"

LEMMA BlockIs ==
  ASSUME NEW t, IsText(t), NEW p \in 1 .. Len(t)
  PROVE  /\ \E q : StopsAt(t, p, q)
         /\ \A q : StopsAt(t, p, q) =>
               BlockComment(t, p) = IF Closed(t, p, q) THEN q + 2 ELSE q + 1
<1> DEFINE closed == {q \in p + 2 .. Len(t) - 1 : t[q] = "*" /\ t[q + 1] = "/"}
           stops == {q \in p .. Len(t) : q \in closed \/ t[q] = "NUL"}
<1>1. Len(t) \in stops /\ stops \in SUBSET Nat /\ Len(t) \in Nat
  BY DEF IsText
<1>2. PICK s \in stops : s = First(stops) /\ \A r \in stops : s <= r
  BY <1>1, LeastExists DEF First
<1>3. \A q : q \in closed <=> Closed(t, p, q)
  BY DEF Closed
<1>4. \A q : q \in stops <=> q \in p .. Len(t) /\ (Closed(t, p, q) \/ t[q] = "NUL")
  BY <1>3
<1>5. BlockComment(t, p) = IF s \in closed THEN s + 2 ELSE s + 1
  BY <1>2 DEF BlockComment
<1> HIDE DEF closed, stops
<1>6. StopsAt(t, p, s)
  <2>1. s \in p .. Len(t) /\ (Closed(t, p, s) \/ t[s] = "NUL")
    BY <1>4
  <2>2. ASSUME NEW r \in p .. s - 1 PROVE ~Closed(t, p, r) /\ t[r] # "NUL"
    <3>1. r \in p .. Len(t) /\ ~(s <= r)
      BY <1>1, <2>1
    <3> QED BY <1>2, <1>4, <3>1
  <2> QED BY <2>1, <2>2 DEF StopsAt
<1>7. ASSUME NEW q, StopsAt(t, p, q) PROVE q = s
  <2>1. q \in stops /\ s \in p .. Len(t) /\ q \in p .. Len(t)
    BY <1>4, <1>6, <1>7 DEF StopsAt
  <2>2. s <= q
    BY <1>2, <2>1
  <2>3. s \notin p .. q - 1
    BY <1>6, <1>7 DEF StopsAt
  <2> QED BY <1>1, <2>1, <2>2, <2>3
<1> QED BY <1>3, <1>5, <1>6, <1>7

LEMMA MovedBlock ==
  ASSUME NEW t, NEW u, NEW p, NEW z, NEW d, IsText(t), IsText(u),
         Moved(t, u, p, z, d)
  PROVE  BlockComment(u, p + d) = BlockComment(t, p) + d
<1>1. /\ p \in 1 .. z /\ z \in 1 .. Len(t) /\ t[z] = "NUL" /\ d \in Int
      /\ p + d \in 1 .. Len(u) /\ z + d \in 1 .. Len(u) /\ Len(t) \in Nat
      /\ Len(u) \in Nat /\ \A r \in p .. z : u[r + d] = t[r]
  BY DEF Moved, IsText
<1>2. p \in 1 .. Len(t)
  BY <1>1
<1>3. PICK q : StopsAt(t, p, q)
  BY <1>2, BlockIs
<1>4. BlockComment(t, p) = IF Closed(t, p, q) THEN q + 2 ELSE q + 1
  BY <1>2, <1>3, BlockIs
<1>5. q \in p .. z
  <2>1. q \in p .. Len(t) /\ z \notin p .. q - 1
    BY <1>1, <1>3 DEF StopsAt
  <2> QED BY <1>1, <2>1
<1>6. ASSUME NEW r \in p .. z PROVE Closed(u, p + d, r + d) <=> Closed(t, p, r)
  <2>1. CASE t[r] # "*"
    BY <1>1, <2>1 DEF Closed
  <2>2. CASE t[r] = "*"
    <3>1. r + 1 \in p .. z /\ r + 1 \in 1 .. Len(t) /\ (r + 1) + d = (r + d) + 1
      BY <1>1, <2>2
    <3>2. u[(r + d) + 1] = t[r + 1] /\ u[r + d] = t[r]
      BY <1>1, <3>1
    <3>3. r \in p + 2 .. Len(t) - 1 <=> r + d \in (p + d) + 2 .. Len(u) - 1
      BY <1>1, <3>1
    <3> QED BY <3>2, <3>3 DEF Closed
  <2> QED BY <2>1, <2>2
<1>7. StopsAt(u, p + d, q + d)
  <2>1. q + d \in p + d .. Len(u)
    BY <1>1, <1>5
  <2>2. Closed(u, p + d, q + d) \/ u[q + d] = "NUL"
    BY <1>1, <1>3, <1>5, <1>6 DEF StopsAt
  <2>3. ASSUME NEW r \in p + d .. (q + d) - 1
        PROVE  ~Closed(u, p + d, r) /\ u[r] # "NUL"
    <3>1. r - d \in p .. z /\ r - d \in p .. q - 1 /\ (r - d) + d = r
      BY <1>1, <1>5
    <3>2. ~Closed(t, p, r - d) /\ t[r - d] # "NUL"
      BY <1>3, <3>1 DEF StopsAt
    <3>3. u[(r - d) + d] = t[r - d]
      BY <1>1, <3>1
    <3>4. Closed(u, p + d, (r - d) + d) <=> Closed(t, p, r - d)
      BY <1>6, <3>1
    <3> QED BY <3>1, <3>2, <3>3, <3>4
  <2> QED BY <2>1, <2>2, <2>3 DEF StopsAt
<1>8. BlockComment(u, p + d) = IF Closed(u, p + d, q + d) THEN (q + d) + 2 ELSE (q + d) + 1
  BY <1>1, <1>7, BlockIs
<1> QED BY <1>1, <1>4, <1>5, <1>6, <1>8

LEMMA MovedComment ==
  ASSUME NEW t, NEW u, NEW p, NEW z, NEW d, IsText(t), IsText(u),
         Moved(t, u, p, z, d), NEW e \in CommentEnds(t, p)
  PROVE  e + d \in CommentEnds(u, p + d)
<1>1. p \in Int /\ d \in Int /\ u[p + d] = t[p]
  BY MovedChar
<1>2. t[p] = "/"
  BY DEF CommentEnds
<1>3. Moved(t, u, p + 1, z, d) /\ At(u, (p + d) + 1) = At(t, p + 1)
      /\ At(t, p + 1) = t[p + 1] /\ (p + 1) + d = (p + d) + 1
  <2>1. t[p] # "NUL"
    BY <1>2
  <2> QED BY <2>1, MovedNext
<1>4. CASE At(t, p + 1) = "*"
  <2>1. e = BlockComment(t, p) /\ CommentEnds(u, p + d) = {BlockComment(u, p + d)}
    BY <1>1, <1>2, <1>3, <1>4 DEF CommentEnds
  <2> QED BY <2>1, MovedBlock
<1>5. CASE At(t, p + 1) # "*"
  <2>1. At(t, p + 1) = "/" /\ At(t, p + 2) \in any /\ e = Run(t, any, p + 2)
    BY <1>2, <1>5 DEF CommentEnds
  <2>2. /\ Moved(t, u, (p + 1) + 1, z, d) /\ At(u, ((p + 1) + d) + 1) = t[(p + 1) + 1]
        /\ At(t, (p + 1) + 1) = t[(p + 1) + 1]
    <3>1. t[p + 1] # "NUL"
      BY <1>3, <2>1
    <3> QED BY <1>3, <3>1, MovedNext
  <2>3. (p + 1) + 1 = p + 2 /\ ((p + 1) + d) + 1 = (p + d) + 2 /\ (p + 2) + d = (p + d) + 2
    BY <1>1
  <2>4. Moved(t, u, p + 2, z, d) /\ At(u, (p + d) + 2) \in any
    BY <2>1, <2>2, <2>3
  <2>5. Run(u, any, (p + d) + 2) = e + d
    BY <2>1, <2>3, <2>4, NoNul, MovedRun
  <2>6. CommentEnds(u, p + d) = {Run(u, any, (p + d) + 2)}
    BY <1>1, <1>2, <1>3, <2>1, <2>4 DEF CommentEnds
  <2> QED BY <2>5, <2>6
<1> QED BY <1>4, <1>5

LEMMA MovedEOL ==
  ASSUME NEW t, NEW u, NEW p, NEW z, NEW d, IsText(t), IsText(u),
         Moved(t, u, p, z, d), NEW e \in EOLEnds(t, p)
  PROVE  e + d \in EOLEnds(u, p + d)
<1>1. p \in Int /\ d \in Int /\ u[p + d] = t[p]
  BY MovedChar
<1>2. t[p] \in EOLs /\ e = IF t[p] = "CR" THEN Opt(t, {"LF"}, p + 1) ELSE p + 1
  BY DEF EOLEnds
<1>3. Moved(t, u, p + 1, z, d) /\ (p + 1) + d = (p + d) + 1
  <2>1. t[p] # "NUL"
    BY <1>2 DEF EOLs
  <2> QED BY <2>1, MovedNext
<1>4. Opt(u, {"LF"}, (p + d) + 1) = Opt(t, {"LF"}, p + 1) + d
  <2>1. "NUL" \notin {"LF"}
    OBVIOUS
  <2> QED BY <1>3, <2>1, MovedOpt
<1>5. EOLEnds(u, p + d) =
        {IF t[p] = "CR" THEN Opt(u, {"LF"}, (p + d) + 1) ELSE (p + d) + 1}
  BY <1>1, <1>2 DEF EOLEnds
<1> QED BY <1>2, <1>3, <1>4, <1>5

LEMMA MovedBlank ==
  ASSUME NEW t, NEW u, NEW p, NEW z, NEW d, IsText(t), IsText(u),
         Moved(t, u, p, z, d), NEW e, e \in BlankEnds(t, p)
  PROVE  e + d \in BlankEnds(u, p + d)
<1> DEFINE S == {" "}
           Blanks(s, q) == s[q] = " " \/ (s[q] = "\\" /\ s[Run(s, S, q + 1)] \in EOLs)
<1>1. \A s, q : BlankEnds(s, q) = IF Blanks(s, q) THEN {Run(s, S, q + 1)} ELSE {}
  BY DEF BlankEnds
<1>2. \A s, r, q, f : s[q] = r[f] /\ s[Run(s, S, q + 1)] = r[Run(r, S, f + 1)] =>
                        (Blanks(s, q) <=> Blanks(r, f))
  OBVIOUS
<1>3. "NUL" \notin S /\ (Blanks(t, p) => t[p] # "NUL")
  OBVIOUS
<1> HIDE DEF S, Blanks
<1>4. Blanks(t, p) /\ e = Run(t, S, p + 1)
  BY <1>1
<1>5. u[p + d] = t[p]
  BY MovedChar
<1>6. Moved(t, u, p + 1, z, d) /\ (p + 1) + d = (p + d) + 1
  <2>1. t[p] # "NUL"
    BY <1>3, <1>4
  <2> QED BY <2>1, MovedNext
<1>7. Run(u, S, (p + 1) + d) = e + d /\ Moved(t, u, e, z, d)
  BY <1>3, <1>4, <1>6, MovedRun
<1>8. u[e + d] = t[e]
  BY <1>7, MovedChar
<1>9. Run(u, S, (p + d) + 1) = e + d
  BY <1>6, <1>7
<1>10. Blanks(u, p + d)
  BY <1>2, <1>4, <1>5, <1>8, <1>9
<1> QED BY <1>1, <1>9, <1>10

(* The symbols of words and directives. *)
LEMMA MovedSymbols ==
  ASSUME NEW t, NEW u, NEW p, NEW z, NEW d, IsText(t), IsText(u),
         Moved(t, u, p, z, d)
  PROVE  /\ WordSym(u, p + d) = WordSym(t, p)
         /\ t[p] = "#" => DirectiveSym(u, p + d) = DirectiveSym(t, p)
<1>1. p \in Int /\ d \in Int /\ u[p + d] = t[p]
  BY MovedChar
<1>2. WordSym(u, p + d) = WordSym(t, p)
  <2> DEFINE e == Run(t, Alnum, p)
  <2>1. Run(u, Alnum, p + d) = e + d /\ Moved(t, u, e, z, d)
    BY NoNul, MovedRun
  <2> HIDE DEF e
  <2>2. e \in Int
    BY <2>1, MovedChar
  <2>3. Run(u, Alnum, p + d) = (p + d) + 1 <=> e = p + 1
    BY <1>1, <2>1, <2>2
  <2> QED BY <1>1, <2>3 DEF WordSym, e
<1>3. ASSUME t[p] = "#" PROVE DirectiveSym(u, p + d) = DirectiveSym(t, p)
  <2> DEFINE S == {" "}
             from == Run(t, S, p + 1)
             to == Run(t, Alnum, from)
             from2 == Run(u, S, (p + d) + 1)
             to2 == Run(u, Alnum, from2)
  <2>1. DirectiveSym(t, p) = IF to = from + 1 /\ t[from] \in DOMAIN Directive
                             THEN Directive[t[from]] ELSE "PPOther"
    BY DEF DirectiveSym
  <2>2. DirectiveSym(u, p + d) = IF to2 = from2 + 1 /\ u[from2] \in DOMAIN Directive
                             THEN Directive[u[from2]] ELSE "PPOther"
    BY DEF DirectiveSym
  <2>0. "NUL" \notin S
    OBVIOUS
  <2> HIDE DEF S, to, to2
  <2>3. Moved(t, u, p + 1, z, d) /\ (p + 1) + d = (p + d) + 1
    <3>1. t[p] # "NUL"
      BY <1>3
    <3> QED BY <3>1, MovedNext
  <2>4. from2 = from + d /\ Moved(t, u, from, z, d)
    BY <2>0, <2>3, MovedRun
  <2> HIDE DEF from, from2
  <2>5. to2 = to + d /\ Moved(t, u, to, z, d)
    BY <2>4, NoNul, MovedRun DEF to, to2
  <2>6. from \in Int /\ to \in Int /\ u[from2] = t[from]
    BY <2>4, <2>5, MovedChar
  <2>7. to2 = from2 + 1 <=> to = from + 1
    BY <1>1, <2>4, <2>5, <2>6
  <2> QED BY <2>1, <2>2, <2>6, <2>7
<1> QED BY <1>2, <1>3

(* What a candidate is: the rule that it is made by. *)
Rule(t, p, e, sym) ==
    \/ t[p] \in Alpha /\ e = Run(t, Alnum, p) /\ sym = WordSym(t, p)
    \/ e \in LiteralEnds(t, p) /\ sym = "Other"
    \/ e \in OpEnds(t, p) /\ sym = "Other"
    \/ e \in CommentEnds(t, p) /\ sym = "Comment"
    \/ e \in EOLEnds(t, p) /\ sym = "EOL"
    \/ e \in BlankEnds(t, p) /\ sym = "WS"
    \/ t[p] = "#" /\ e = Run(t, any, p) /\ sym = DirectiveSym(t, p)
    \/ t[p] \in DOMAIN Bracket /\ e = p + 1 /\ sym = Bracket[t[p]]

LEMMA CandidateIs ==
  ASSUME NEW t, NEW p, NEW c
  PROVE  c \in Candidates(t, p) <=>
            c = [end |-> c.end, sym |-> c.sym] /\ Rule(t, p, c.end, c.sym)
<1> DEFINE as(ends, sym) == {[end |-> e, sym |-> sym] : e \in ends}
           r1 == IF t[p] \in Alpha THEN {Run(t, Alnum, p)} ELSE {}
           r7 == IF t[p] = "#" THEN {Run(t, any, p)} ELSE {}
           r8 == IF t[p] \in DOMAIN Bracket THEN {p + 1} ELSE {}
           s8 == IF t[p] \in DOMAIN Bracket THEN Bracket[t[p]] ELSE "Other"
<1>1. Candidates(t, p) =
        as(r1, WordSym(t, p))
        \cup as(LiteralEnds(t, p), "Other") \cup as(OpEnds(t, p), "Other")
        \cup as(CommentEnds(t, p), "Comment")
        \cup as(EOLEnds(t, p), "EOL") \cup as(BlankEnds(t, p), "WS")
        \cup as(r7, DirectiveSym(t, p)) \cup as(r8, s8)
  BY DEF Candidates
<1>2. ASSUME NEW ends, NEW sym
      PROVE  c \in as(ends, sym) <=>
               c = [end |-> c.end, sym |-> c.sym] /\ c.end \in ends /\ c.sym = sym
  <2>1. ASSUME c \in as(ends, sym)
        PROVE  c = [end |-> c.end, sym |-> c.sym] /\ c.end \in ends /\ c.sym = sym
    BY <2>1
  <2>2. ASSUME c = [end |-> c.end, sym |-> c.sym] /\ c.end \in ends /\ c.sym = sym
        PROVE  c \in as(ends, sym)
    BY <2>2
  <2> QED BY <2>1, <2>2
<1>3. /\ \A e : e \in r1 <=> t[p] \in Alpha /\ e = Run(t, Alnum, p)
      /\ \A e : e \in r7 <=> t[p] = "#" /\ e = Run(t, any, p)
      /\ \A e : e \in r8 <=> t[p] \in DOMAIN Bracket /\ e = p + 1
      /\ t[p] \in DOMAIN Bracket => s8 = Bracket[t[p]]
  OBVIOUS
<1> HIDE DEF as, r1, r7, r8, s8
<1>4. c \in Candidates(t, p) <=>
        \/ c \in as(r1, WordSym(t, p))
        \/ c \in as(LiteralEnds(t, p), "Other") \/ c \in as(OpEnds(t, p), "Other")
        \/ c \in as(CommentEnds(t, p), "Comment")
        \/ c \in as(EOLEnds(t, p), "EOL") \/ c \in as(BlankEnds(t, p), "WS")
        \/ c \in as(r7, DirectiveSym(t, p)) \/ c \in as(r8, s8)
  BY <1>1
<1>5. c \in Candidates(t, p) <=>
        /\ c = [end |-> c.end, sym |-> c.sym]
        /\ \/ c.end \in r1 /\ c.sym = WordSym(t, p)
           \/ c.end \in LiteralEnds(t, p) /\ c.sym = "Other"
           \/ c.end \in OpEnds(t, p) /\ c.sym = "Other"
           \/ c.end \in CommentEnds(t, p) /\ c.sym = "Comment"
           \/ c.end \in EOLEnds(t, p) /\ c.sym = "EOL"
           \/ c.end \in BlankEnds(t, p) /\ c.sym = "WS"
           \/ c.end \in r7 /\ c.sym = DirectiveSym(t, p)
           \/ c.end \in r8 /\ c.sym = s8
  BY <1>2, <1>4
<1> QED BY <1>3, <1>5 DEF Rule

LEMMA MovedRule ==
  ASSUME NEW t, NEW u, NEW p, NEW z, NEW d, IsText(t), IsText(u),
         Moved(t, u, p, z, d), NEW e, NEW sym, Rule(t, p, e, sym)
  PROVE  Rule(u, p + d, e + d, sym)
<1>1. u[p + d] = t[p] /\ p \in Int /\ d \in Int
  BY MovedChar
<1>2. WordSym(u, p + d) = WordSym(t, p)
  BY MovedSymbols
<1>3. CASE t[p] \in Alpha /\ e = Run(t, Alnum, p) /\ sym = WordSym(t, p)
  <2>1. Run(u, Alnum, p + d) = e + d
    BY <1>3, NoNul, MovedRun
  <2> QED BY <1>1, <1>2, <1>3, <2>1 DEF Rule
<1>4. CASE e \in LiteralEnds(t, p) /\ sym = "Other"
  BY <1>4, MovedLiteral DEF Rule
<1>5. CASE e \in OpEnds(t, p) /\ sym = "Other"
  BY <1>5, MovedOp DEF Rule
<1>6. CASE e \in CommentEnds(t, p) /\ sym = "Comment"
  BY <1>6, MovedComment DEF Rule
<1>7. CASE e \in EOLEnds(t, p) /\ sym = "EOL"
  BY <1>7, MovedEOL DEF Rule
<1>8. CASE e \in BlankEnds(t, p) /\ sym = "WS"
  BY <1>8, MovedBlank DEF Rule
<1>9. CASE t[p] = "#" /\ e = Run(t, any, p) /\ sym = DirectiveSym(t, p)
  <2>1. Run(u, any, p + d) = e + d
    BY <1>9, NoNul, MovedRun
  <2>2. DirectiveSym(u, p + d) = DirectiveSym(t, p)
    BY <1>9, MovedSymbols
  <2> QED BY <1>1, <1>9, <2>1, <2>2 DEF Rule
<1>10. CASE t[p] \in DOMAIN Bracket /\ e = p + 1 /\ sym = Bracket[t[p]]
  <2>1. e + d = (p + d) + 1
    BY <1>1, <1>10
  <2> QED BY <1>1, <1>10, <2>1 DEF Rule
<1> QED BY <1>3, <1>4, <1>5, <1>6, <1>7, <1>8, <1>9, <1>10 DEF Rule

(* A literal that begins with a letter goes on behind the word. *)
LEMMA LiteralStart ==
  ASSUME NEW t, IsText(t), NEW p \in 1 .. Len(t), NEW e \in LiteralEnds(t, p)
  PROVE  \/ t[p] \in Digit \cup {".", "'", "\""}
         \/ t[p] = "L" /\ t[Run(t, Alnum, p)] # "NUL" /\ e > Run(t, Alnum, p)
<1>1. CASE e \in NumberEnds(t, p)
  <2> DEFINE a == Run(t, Digit, p)
  <2>1. a \in p .. Len(t) /\ \A q \in p .. a - 1 : t[q] \in Digit
    BY NoNul, RunStops
  <2>2. t[p] = "0" \/ a > p \/ (t[a] = "." /\ ~(a > p))
    BY <1>1, NumberIs
  <2> HIDE DEF a
  <2>3. CASE a > p
    <3>1. p \in p .. a - 1
      BY <2>1, <2>3
    <3> QED BY <2>1, <3>1
  <2>4. CASE ~(a > p) /\ t[a] = "."
    <3>1. a = p
      BY <2>1, <2>4
    <3> QED BY <2>4, <3>1
  <2>5. CASE t[p] = "0"
    BY <2>5 DEF Digit
  <2> QED BY <2>2, <2>3, <2>4, <2>5
<1>2. ASSUME NEW o \in {p, Opt(t, {"L"}, p)}, e \in CharEnds(t, o) \/ e \in StringEnds(t, o)
      PROVE  \/ t[p] \in {"'", "\""}
             \/ t[p] = "L" /\ t[Run(t, Alnum, p)] # "NUL" /\ e > Run(t, Alnum, p)
  <2>1. t[o] \in {"'", "\""}
    BY <1>2 DEF CharEnds, StringEnds
  <2>2. CASE o = p
    BY <2>1, <2>2
  <2>3. CASE o # p
    <3>1. t[p] = "L" /\ o = p + 1
      BY <1>2, <2>3 DEF Opt
    <3>2. p + 1 \in 1 .. Len(t)
      <4>1. t[p] # "NUL"
        BY <3>1
      <4> QED BY <4>1, SpanOne
    <3>3. t[p + 1] \notin Alnum /\ t[p] \in Alnum
      BY <2>1, <3>1 DEF Alnum, Alpha, Digit
    <3>4. Run(t, Alnum, p) = p + 1
      <4>1. p + 1 \in p .. Len(t) /\ \A q \in p .. (p + 1) - 1 : q = p
        BY <3>2
      <4> QED BY <3>3, <4>1, NoNul, RunIs
    <3>5. Takes(t, o, e)
      BY <1>2, <3>1, <3>2, CharTakes, StringTakes
    <3>6. e > p + 1
      BY <3>1, <3>2, <3>5 DEF Takes, Span
    <3>7. t[p + 1] # "NUL"
      BY <2>1, <3>1
    <3> QED BY <3>1, <3>4, <3>6, <3>7
  <2> QED BY <2>2, <2>3
<1> QED BY <1>1, <1>2, LiteralIs

LEMMA CommentLength ==
  ASSUME NEW t, IsText(t), NEW p \in 1 .. Len(t), NEW e \in CommentEnds(t, p)
  PROVE  t[p] = "/" /\ e > p + 1
<1>1. t[p] = "/"
  BY DEF CommentEnds
<1>2. CASE At(t, p + 1) = "*"
  <2>1. e = BlockComment(t, p)
    BY <1>1, <1>2 DEF CommentEnds
  <2>2. PICK q : StopsAt(t, p, q)
    BY BlockIs
  <2>3. e = IF Closed(t, p, q) THEN q + 2 ELSE q + 1
    BY <2>1, <2>2, BlockIs
  <2>4. q \in p .. Len(t) /\ q # p
    BY <1>1, <2>2 DEF StopsAt, Closed
  <2> QED BY <1>1, <2>3, <2>4
<1>3. CASE At(t, p + 1) # "*"
  <2>1. At(t, p + 1) = "/" /\ e = Run(t, any, p + 2)
    BY <1>1, <1>3 DEF CommentEnds
  <2>2. p + 2 \in 1 .. Len(t)
    <3>1. At(t, p + 1) # "NUL" /\ p + 1 \in Nat \ {0} /\ (p + 1) + 1 = p + 2
      BY <2>1
    <3> QED BY <3>1, AtInside
  <2>3. e \in p + 2 .. Len(t)
    BY <2>1, <2>2, NoNul, RunStops
  <2> QED BY <1>1, <2>3
<1> QED BY <1>1, <1>2, <1>3

(* Which characters a rule begins with. *)
WordChar(c) == c \in Alpha
LiteralChar(c) == c \in Digit \cup {".", "'", "\""}
OpChar(c) == c \in OpChars
EOLChar(c) == c \in EOLs
BlankChar(c) == c = " " \/ c = "\\"
BracketChar(c) == c \in DOMAIN Bracket

LEMMA Starts ==
  ASSUME NEW c
  PROVE  /\ WordChar(c) => ~LiteralChar(c) /\ ~OpChar(c) /\ ~EOLChar(c) /\ ~BlankChar(c)
                         /\ ~BracketChar(c) /\ c # "#" /\ c # "/"
         /\ LiteralChar(c) => ~EOLChar(c) /\ ~BlankChar(c) /\ ~BracketChar(c) /\ c # "#" /\ c # "/"
         /\ OpChar(c) => ~EOLChar(c) /\ ~BlankChar(c) /\ ~BracketChar(c) /\ c # "#"
         /\ EOLChar(c) => ~BlankChar(c) /\ ~BracketChar(c) /\ c # "#" /\ c # "/"
         /\ BlankChar(c) => ~BracketChar(c) /\ c # "#" /\ c # "/"
         /\ BracketChar(c) => c # "#" /\ c # "/"
         /\ c = "L" => WordChar(c)
<1>1. WordChar(c) => ~LiteralChar(c) /\ ~OpChar(c) /\ ~EOLChar(c)
                         /\ ~BracketChar(c) /\ c # "#" /\ c # "/"
  BY DEF WordChar, LiteralChar, OpChar, EOLChar, BracketChar, Alpha, Digit, OpChars, EOLs, Bracket
<1>2. LiteralChar(c) => ~EOLChar(c) /\ ~BracketChar(c) /\ c # "#" /\ c # "/"
  BY DEF LiteralChar, EOLChar, BracketChar, Digit, EOLs, Bracket
<1>3. OpChar(c) => ~EOLChar(c) /\ ~BracketChar(c) /\ c # "#"
  BY DEF OpChar, EOLChar, BracketChar, OpChars, EOLs, Bracket
<1>4. EOLChar(c) => ~BracketChar(c) /\ c # "#" /\ c # "/"
  BY DEF EOLChar, BracketChar, EOLs, Bracket
<1>5. BracketChar(c) => c # "#" /\ c # "/"
  BY DEF BracketChar, Bracket
<1>6. BlankChar(c) => ~WordChar(c) /\ ~LiteralChar(c) /\ ~OpChar(c) /\ ~EOLChar(c)
                   /\ ~BracketChar(c) /\ c # "#" /\ c # "/"
  <2>1. \A b \in Alpha \cup Digit \cup {".", "'", "\""} \cup OpChars \cup EOLs
               \cup {"(", "{", "}"} \cup {"#", "/"} : b # " " /\ b # "\\"
    BY Zenon DEF Alpha, Digit, OpChars, EOLs
  <2>2. DOMAIN Bracket = {"(", "{", "}"}
    BY DEF Bracket
  <2> QED BY Zenon, <2>1, <2>2 DEF WordChar, LiteralChar, OpChar, EOLChar, BlankChar, BracketChar
<1>7. c = "L" => WordChar(c)
  BY DEF WordChar, Alpha
<1> QED BY <1>1, <1>2, <1>3, <1>4, <1>5, <1>6, <1>7

(* Rules that match the same text give it the same symbol. *)
LEMMA OneSymbol ==
  ASSUME NEW t, IsText(t), NEW p \in 1 .. Len(t), NEW e, NEW a, NEW b,
         Rule(t, p, e, a), Rule(t, p, e, b)
  PROVE  a = b
<1> DEFINE c == t[p]
           R1(s) == WordChar(c) /\ e = Run(t, Alnum, p) /\ s = WordSym(t, p)
           R2(s) == s = "Other" /\ (LiteralChar(c) \/ (c = "L" /\ e > Run(t, Alnum, p)))
           R3(s) == s = "Other" /\ OpChar(c) /\ (e = p + 1 \/ c # "/")
           R4(s) == s = "Comment" /\ c = "/" /\ e > p + 1
           R5(s) == s = "EOL" /\ EOLChar(c)
           R6(s) == s = "WS" /\ BlankChar(c)
           R7(s) == s = DirectiveSym(t, p) /\ c = "#"
           R8(s) == s = Bracket[c] /\ BracketChar(c)
<1>1. ASSUME NEW s, Rule(t, p, e, s)
      PROVE  R1(s) \/ R2(s) \/ R3(s) \/ R4(s) \/ R5(s) \/ R6(s) \/ R7(s) \/ R8(s)
  <2>1. e \in LiteralEnds(t, p) => LiteralChar(c) \/ (c = "L" /\ e > Run(t, Alnum, p))
    BY LiteralStart DEF LiteralChar
  <2>2. e \in OpEnds(t, p) => OpChar(c) /\ (e = p + 1 \/ c # "/")
    <3>1. p \in Nat /\ At(t, p) = t[p]
      BY DEF At, IsText
    <3> QED BY <3>1, OpIs DEF OpChar, OpChars
  <2>3. e \in CommentEnds(t, p) => c = "/" /\ e > p + 1
    BY CommentLength
  <2>4. e \in EOLEnds(t, p) => EOLChar(c)
    BY DEF EOLEnds, EOLChar
  <2>5. e \in BlankEnds(t, p) => BlankChar(c)
    BY Zenon DEF BlankEnds, BlankChar
  <2> QED BY <1>1, <2>1, <2>2, <2>3, <2>4, <2>5 DEF Rule, WordChar, BracketChar
<1>2. \A s : R1(s) \/ R2(s) \/ R3(s) \/ R4(s) \/ R5(s) \/ R6(s) \/ R7(s) \/ R8(s)
             => (R1(a) => s = a) /\ (R2(a) => s = a) /\ (R3(a) => s = a)
                /\ (R4(a) => s = a) /\ (R5(a) => s = a) /\ (R6(a) => s = a)
                /\ (R7(a) => s = a) /\ (R8(a) => s = a)
  <2>1. e = Run(t, Alnum, p) => ~(e > Run(t, Alnum, p))
    <3>1. Run(t, Alnum, p) \in p .. Len(t)
      BY NoNul, RunStops
    <3> QED BY <3>1
  <2>2. e = p + 1 => ~(e > p + 1)
    OBVIOUS
  <2> QED BY <2>1, <2>2, Starts
<1>3. R1(a) \/ R2(a) \/ R3(a) \/ R4(a) \/ R5(a) \/ R6(a) \/ R7(a) \/ R8(a)
  BY <1>1
<1>4. R1(b) \/ R2(b) \/ R3(b) \/ R4(b) \/ R5(b) \/ R6(b) \/ R7(b) \/ R8(b)
  BY <1>1
<1> HIDE DEF R1, R2, R3, R4, R5, R6, R7, R8
<1> QED BY <1>2, <1>3, <1>4

(* What the longest match is: no rule goes further. *)
Longest(t, p, e, sym) ==
    Rule(t, p, e, sym) /\ \A f, s : Rule(t, p, f, s) => f <= e

LEMMA RuleReaches ==
  ASSUME NEW t, IsText(t), NEW p \in 1 .. Len(t), NEW e, NEW sym, Rule(t, p, e, sym)
  PROVE  Reaches(t, p, e) /\ e \in Nat /\ e > p /\ e <= Len(t) + 1
<1> DEFINE c == [end |-> e, sym |-> sym]
<1>1. c = [end |-> c.end, sym |-> c.sym] /\ c.end = e /\ c.sym = sym
  OBVIOUS
<1> HIDE DEF c
<1>2. c \in Candidates(t, p)
  BY <1>1, CandidateIs
<1>3. Reaches(t, p, e)
  BY <1>1, <1>2, CandidateMatches DEF IsMatch
<1> QED BY <1>3 DEF Reaches, IsText

LEMMA MatchIs ==
  ASSUME NEW t, IsText(t), NEW p \in 1 .. Len(t), NEW e, NEW sym,
         Longest(t, p, e, sym)
  PROVE  Match(t, p) = [end |-> e, sym |-> sym]
<1> DEFINE c == [end |-> e, sym |-> sym]
           C == Candidates(t, p)
<1>1. c = [end |-> c.end, sym |-> c.sym] /\ c.end = e /\ c.sym = sym
  OBVIOUS
<1> HIDE DEF c
<1>2. c \in C
  BY <1>1, CandidateIs DEF Longest
<1>3. \A d \in C : d.end <= c.end
  BY <1>1, CandidateIs DEF Longest
<1>4. Match(t, p) = CHOOSE x \in C : \A d \in C : d.end <= x.end
  BY <1>2 DEF Match
<1>5. PICK m : m = Match(t, p)
  OBVIOUS
<1> HIDE DEF C
<1>6. m \in C /\ \A d \in C : d.end <= m.end
  BY <1>2, <1>3, <1>4, <1>5
<1>7. m = [end |-> m.end, sym |-> m.sym] /\ Rule(t, p, m.end, m.sym)
  BY <1>6, CandidateIs DEF C
<1>8. m.end = e
  <2>1. m.end \in Nat /\ e \in Nat
    BY <1>7, RuleReaches DEF Longest
  <2>2. m.end <= e /\ e <= m.end
    BY <1>1, <1>2, <1>3, <1>6
  <2> QED BY <2>1, <2>2
<1>9. m.sym = sym
  BY <1>7, <1>8, OneSymbol DEF Longest
<1> QED BY <1>5, <1>7, <1>8, <1>9

LEMMA MatchBad ==
  ASSUME NEW t, NEW p, \A e, sym : ~Rule(t, p, e, sym)
  PROVE  Match(t, p) = [end |-> p + 1, sym |-> "BAD"]
<1>1. \A c : c \notin Candidates(t, p)
  BY CandidateIs
<1>2. Candidates(t, p) = {}
  BY <1>1
<1> QED BY <1>2 DEF Match, BAD

(* One or the other: *)
LEMMA MatchCases ==
  ASSUME NEW t, IsText(t), NEW p \in 1 .. Len(t), t[p] # "NUL"
  PROVE  \/ Longest(t, p, Match(t, p).end, Match(t, p).sym)
         \/ \A e, sym : ~Rule(t, p, e, sym)
<1> SUFFICES ASSUME NEW f, NEW s, Rule(t, p, f, s)
             PROVE  Longest(t, p, Match(t, p).end, Match(t, p).sym)
  OBVIOUS
<1> DEFINE Left == {Len(t) + 1 - x : x \in {y \in 0 .. Len(t) + 1 : \E z : Rule(t, p, y, z)}}
<1>0. Len(t) \in Nat
  BY DEF IsText
<1>1. \A e, sym : Rule(t, p, e, sym) => e \in 0 .. Len(t) + 1
  BY <1>0, RuleReaches
<1>2. f \in 0 .. Len(t) + 1 /\ \E z : Rule(t, p, f, z)
  BY <1>1
<1>3. Left # {} /\ Left \in SUBSET Nat
  BY <1>0, <1>2
<1>4. PICK m \in Left : \A n \in Left : m <= n
  BY <1>3, LeastExists
<1>5. PICK e \in 0 .. Len(t) + 1 : m = Len(t) + 1 - e /\ \E z : Rule(t, p, e, z)
  BY <1>4
<1>6. PICK sym : Rule(t, p, e, sym)
  BY <1>5
<1>7. ASSUME NEW x, NEW y, Rule(t, p, x, y) PROVE x <= e
  <2>1. x \in 0 .. Len(t) + 1 /\ Len(t) + 1 - x \in Left
    BY <1>1, <1>7
  <2>2. m <= Len(t) + 1 - x
    BY <1>4, <2>1
  <2> QED BY <1>0, <1>5, <2>1, <2>2
<1>8. Longest(t, p, e, sym)
  BY <1>6, <1>7 DEF Longest
<1>9. Match(t, p) = [end |-> e, sym |-> sym]
  BY <1>8, MatchIs
<1>10. Match(t, p).end = e /\ Match(t, p).sym = sym
  BY <1>9
<1> QED BY <1>8, <1>10

(* The same text is cut in the same way, wherever it stands. *)
LEMMA MovedMatch ==
  ASSUME NEW t, NEW u, NEW p, NEW z, NEW d, IsText(t), IsText(u),
         Moved(t, u, p, z, d), t[p] # "NUL"
  PROVE  Match(u, p + d) = [end |-> Match(t, p).end + d, sym |-> Match(t, p).sym]
<1>1. p \in 1 .. Len(t) /\ p + d \in 1 .. Len(u) /\ d \in Int
  BY MovedChar
<1>2. \A f, s : Rule(u, p + d, f, s) => Rule(t, p, f + (-d), s)
  <2>1. Moved(u, t, p + d, z + d, -d) /\ p + d + (-d) = p
    BY MovedBack
  <2> QED BY <2>1, MovedRule
<1>3. CASE Longest(t, p, Match(t, p).end, Match(t, p).sym)
  <2>1. PICK e, sym : e = Match(t, p).end /\ sym = Match(t, p).sym
    OBVIOUS
  <2>2. Longest(t, p, e, sym)
    BY <1>3, <2>1
  <2>3. e \in Nat
    BY <1>1, <2>2, RuleReaches DEF Longest
  <2>4. Rule(u, p + d, e + d, sym)
    BY <2>2, MovedRule DEF Longest
  <2>5. ASSUME NEW f, NEW s, Rule(u, p + d, f, s) PROVE f <= e + d
    <3>1. f + (-d) <= e
      BY <1>2, <2>2, <2>5 DEF Longest
    <3>2. f \in Nat
      BY <1>1, <2>5, RuleReaches
    <3> QED BY <1>1, <2>3, <3>1, <3>2
  <2>6. Longest(u, p + d, e + d, sym)
    BY <2>4, <2>5 DEF Longest
  <2>7. Match(u, p + d) = [end |-> e + d, sym |-> sym]
    BY <1>1, <2>6, MatchIs
  <2> QED BY <2>1, <2>7
<1>4. CASE \A e, sym : ~Rule(t, p, e, sym)
  <2>1. Match(t, p) = [end |-> p + 1, sym |-> "BAD"]
    BY <1>4, MatchBad
  <2>2. Match(u, p + d) = [end |-> (p + d) + 1, sym |-> "BAD"]
    <3>1. \A e, sym : ~Rule(u, p + d, e, sym)
      BY <1>2, <1>4
    <3> QED BY <3>1, MatchBad
  <2>3. (p + d) + 1 = (p + 1) + d
    BY <1>1
  <2> QED BY <2>1, <2>2, <2>3
<1> QED BY <1>1, <1>3, <1>4, MatchCases

-----------------------------------------------------------------------------
(* Two texts that are the same up to a word that begins at q, right behind *)
(* a character that is in no word.                                         *)
Near(t, u, q) ==
    /\ IsText(t) /\ IsText(u) /\ q \in 2 .. Len(t) /\ q \in 2 .. Len(u)
    /\ t[q] \in Alpha /\ u[q] \in Alpha /\ t[q - 1] \notin Alnum
    /\ \A r \in 1 .. q - 1 : u[r] = t[r]

LEMMA NearBack ==
  ASSUME NEW t, NEW u, NEW q, Near(t, u, q)
  PROVE  Near(u, t, q)
BY DEF Near, IsText

LEMMA AlphaIn ==
  /\ Alpha \subseteq Alnum /\ Alpha \subseteq any /\ Alnum \subseteq any
  /\ Digit \subseteq Alnum /\ Hex \subseteq Alnum /\ IntSuffix \subseteq Alnum
  /\ Alpha \cap Digit = {}
  /\ \A c \in Alpha : c # "'" /\ c # "\"" /\ c # "\\" /\ c # "*" /\ c # "/"
                      /\ c # "LF" /\ c # "-" /\ c # "." /\ c # "NUL" /\ c \notin EOLs
<1>1. Alpha \subseteq Alnum /\ Digit \subseteq Alnum
  BY DEF Alnum
<1>2. Alnum \subseteq any
  BY Zenon DEF any
<1>3. Hex \subseteq Alnum /\ IntSuffix \subseteq Alnum
  BY DEF Hex, IntSuffix, Alnum, Alpha
<1>4. Alpha \cap Digit = {}
  BY DEF Alpha, Digit
<1>5. \A c \in Alpha : c # "'" /\ c # "\"" /\ c # "\\" /\ c # "*" /\ c # "/"
                      /\ c # "LF" /\ c # "-" /\ c # "." /\ c # "NUL" /\ c \notin EOLs
  BY DEF Alpha, EOLs
<1> QED BY <1>1, <1>2, <1>3, <1>4, <1>5

LEMMA WordParts == Digit \subseteq Alnum /\ Hex \subseteq Alnum /\ IntSuffix \subseteq Alnum
BY AlphaIn

LEMMA NoDigit == \A c \in Alpha : c \notin Digit
BY AlphaIn

(* A place before q, and the character there. *)
LEMMA NearChar ==
  ASSUME NEW t, NEW u, NEW q, Near(t, u, q), NEW p \in 1 .. q
  PROVE  /\ p \in 1 .. Len(t) /\ p \in 1 .. Len(u) /\ At(t, p) = t[p]
         /\ At(u, p) = u[p]
         /\ p < q => u[p] = t[p]
         /\ p = q => t[p] \in Alpha /\ u[p] \in Alpha
BY DEF Near, IsText, At

(* A word does not end right before q. *)
LEMMA NearNext ==
  ASSUME NEW t, NEW u, NEW q, Near(t, u, q), NEW p \in 1 .. q - 1, t[p] \in Alnum
  PROVE  p + 1 \in 1 .. q - 1
<1>1. p # q - 1 /\ q \in Nat
  BY DEF Near
<1> QED BY <1>1

(* A run that ends before q, *)
LEMMA NearRun ==
  ASSUME NEW t, NEW u, NEW q, Near(t, u, q), NEW S, "NUL" \notin S,
         NEW p \in 1 .. q, Run(t, S, p) < q
  PROVE  /\ Run(u, S, p) = Run(t, S, p) /\ Run(t, S, p) \in p .. q - 1
         /\ u[Run(t, S, p)] = t[Run(t, S, p)]
<1>1. PICK e : e = Run(t, S, p)
  OBVIOUS
<1>2. /\ p \in 1 .. Len(t) /\ p \in 1 .. Len(u) /\ IsText(t) /\ IsText(u)
      /\ q \in Nat /\ Len(t) \in Nat /\ Len(u) \in Nat /\ q <= Len(u)
      /\ \A r \in 1 .. q - 1 : u[r] = t[r]
  BY NearChar DEF Near, IsText
<1>3. e \in p .. Len(t) /\ t[e] \notin S /\ \A r \in p .. e - 1 : t[r] \in S
  BY <1>1, <1>2, RunStops
<1>4. e \in p .. q - 1 /\ e \in 1 .. q - 1 /\ e \in p .. Len(u)
  BY <1>1, <1>2, <1>3
<1>5. u[e] \notin S /\ \A r \in p .. e - 1 : u[r] \in S
  <2>1. \A r \in p .. e - 1 : r \in 1 .. q - 1
    BY <1>2, <1>4
  <2> QED BY <1>2, <1>3, <1>4, <2>1
<1>6. Run(u, S, p) = e
  BY <1>2, <1>4, <1>5, RunIs
<1> QED BY <1>1, <1>2, <1>4, <1>6

(* one of what is in words, *)
LEMMA NearWord ==
  ASSUME NEW t, NEW u, NEW q, Near(t, u, q), NEW S, S \subseteq Alnum,
         NEW p \in 1 .. q - 1
  PROVE  /\ Run(u, S, p) = Run(t, S, p) /\ Run(t, S, p) \in p .. q - 1
         /\ u[Run(t, S, p)] = t[Run(t, S, p)]
<1>1. "NUL" \notin S /\ q \in Nat /\ p \in 1 .. q /\ q - 1 \in p .. q - 1
      /\ IsText(t) /\ t[q - 1] \notin S
  BY NoNul DEF Near
<1>2. PICK e : e = Run(t, S, p)
  OBVIOUS
<1>3. p \in 1 .. Len(t)
  BY <1>1, NearChar
<1>4. e \in p .. Len(t) /\ \A r \in p .. e - 1 : t[r] \in S
  BY <1>1, <1>2, <1>3, RunStops
<1>5. e < q
  <2>1. q - 1 \notin p .. e - 1
    BY <1>1, <1>4
  <2> QED BY <1>1, <1>4, <2>1
<1> QED BY <1>1, <1>2, <1>5, NearRun

(* and one that no word begins with. *)
LEMMA NearNoWord ==
  ASSUME NEW t, NEW u, NEW q, Near(t, u, q), NEW S, "NUL" \notin S,
         S \cap Alpha = {}, NEW p \in 1 .. q
  PROVE  Run(u, S, p) = Run(t, S, p) /\ Run(t, S, p) \in p .. q
<1>1. PICK e : e = Run(t, S, p)
  OBVIOUS
<1>2. /\ p \in 1 .. Len(t) /\ p \in 1 .. Len(u) /\ IsText(t) /\ IsText(u)
      /\ q \in Nat /\ q <= Len(u) /\ q <= Len(t) /\ t[q] \notin S /\ u[q] \notin S
      /\ \A r \in 1 .. q - 1 : u[r] = t[r]
  BY NearChar DEF Near
<1>3. e \in p .. Len(t) /\ \A r \in p .. e - 1 : t[r] \in S
  BY <1>1, <1>2, RunStops
<1>4. e \in p .. q
  <2>1. q \notin p .. e - 1
    BY <1>2, <1>3
  <2> QED BY <1>2, <1>3, <2>1
<1>5. CASE e < q
  <2>1. Run(u, S, p) = Run(t, S, p)
    BY <1>1, <1>5, NearRun
  <2> QED BY <1>1, <1>4, <2>1
<1>6. CASE e = q
  <2>1. q \in p .. Len(u) /\ \A r \in p .. q - 1 : u[r] \in S
    <3>1. \A r \in p .. q - 1 : r \in 1 .. q - 1 /\ r \in p .. e - 1
      BY <1>2, <1>6
    <3> QED BY <1>2, <1>3, <1>4, <3>1
  <2>2. Run(u, S, p) = q
    BY <1>2, <2>1, RunIs
  <2> QED BY <1>1, <1>4, <1>6, <2>2
<1> QED BY <1>2, <1>4, <1>5, <1>6

(* A character that is no letter is the same in both. *)
LEMMA NearOpt ==
  ASSUME NEW t, NEW u, NEW q, Near(t, u, q), NEW S, NEW p \in 1 .. q,
         p < q \/ S \cap Alpha = {}
  PROVE  /\ Opt(u, S, p) = Opt(t, S, p) /\ Opt(t, S, p) \in p .. p + 1
         /\ p = q => Opt(t, S, p) = p
<1>1. CASE p < q
  <2>1. u[p] = t[p]
    BY <1>1, NearChar
  <2>2. p \in Int /\ p # q
    BY <1>1 DEF Near
  <2> QED BY <2>1, <2>2 DEF Opt
<1>2. CASE ~(p < q)
  <2>1. p = q /\ p \in Int
    BY <1>2 DEF Near
  <2>2. t[p] \notin S /\ u[p] \notin S
    BY <1>2, <2>1, NearChar
  <2> QED BY <2>1, <2>2 DEF Opt
<1> QED BY <1>1, <1>2

LEMMA NearExp ==
  ASSUME NEW t, NEW u, NEW q, Near(t, u, q), NEW p \in 1 .. q - 1,
         NEW e \in ExpEnds(t, p)
  PROVE  e \in ExpEnds(u, p) /\ e \in 1 .. q - 1
<1> DEFINE digits == Opt(t, {"-"}, p + 1)
           moved == Opt(u, {"-"}, p + 1)
<1>1. e = p \/ (At(t, p) = "e" /\ At(t, digits) \in Digit /\ e = Run(t, Digit, digits))
  BY DEF ExpEnds
<1>2. /\ p \in ExpEnds(u, p)
      /\ At(u, p) = "e" /\ At(u, moved) \in Digit =>
            Run(u, Digit, moved) \in ExpEnds(u, p)
  BY DEF ExpEnds
<1> HIDE DEF digits, moved
<1>3. CASE e = p
  BY <1>2, <1>3
<1>4. CASE At(t, p) = "e" /\ At(t, digits) \in Digit /\ e = Run(t, Digit, digits)
  <2>1. p \in 1 .. q /\ p < q /\ q \in Nat
    BY DEF Near
  <2>2. t[p] = "e" /\ u[p] = "e" /\ At(u, p) = "e"
    BY <1>4, <2>1, NearChar
  <2>3. p + 1 \in 1 .. q - 1
    <3>1. "e" \in Alnum
      BY DEF Alnum, Alpha
    <3> QED BY <2>2, <3>1, NearNext
  <2>4. moved = digits /\ digits \in 1 .. q
    <3>1. p + 1 \in 1 .. q /\ p + 1 < q
      BY <2>1, <2>3
    <3>2. Opt(u, {"-"}, p + 1) = Opt(t, {"-"}, p + 1)
          /\ Opt(t, {"-"}, p + 1) \in p + 1 .. (p + 1) + 1
      BY <3>1, NearOpt
    <3> QED BY <2>1, <3>1, <3>2 DEF digits, moved
  <2>5. digits \in 1 .. q - 1 /\ At(u, moved) \in Digit
    <3>1. digits # q
      <4>1. At(t, digits) = t[digits] /\ (digits = q => t[digits] \in Alpha)
        BY <2>4, NearChar
      <4> QED BY <1>4, <4>1, AlphaIn
    <3>2. digits < q
      BY <2>1, <2>4, <3>1
    <3>3. At(u, digits) = At(t, digits)
      BY <2>4, <3>2, NearChar
    <3> QED BY <1>4, <2>1, <2>4, <3>2, <3>3
  <2>6. Run(u, Digit, digits) = Run(t, Digit, digits)
        /\ Run(t, Digit, digits) \in digits .. q - 1
    BY <2>5, WordParts, NearWord
  <2>7. e \in 1 .. q - 1
    BY <1>4, <2>1, <2>5, <2>6
  <2> QED BY <1>2, <1>4, <2>2, <2>4, <2>5, <2>6, <2>7
<1> QED BY <1>1, <1>3, <1>4

(* A number, unless it may end after a point right before q. *)
LEMMA NearNumber ==
  ASSUME NEW t, NEW u, NEW q, Near(t, u, q), NEW p \in 1 .. q - 1,
         NEW e \in NumberEnds(t, p)
  PROVE  \/ e \in NumberEnds(u, p) /\ e <= q
         \/ /\ \E x \in ExpEnds(t, q) : e = Opt(t, FloatSuffix, x)
            /\ \A x \in ExpEnds(u, q) : Opt(u, FloatSuffix, x) \in NumberEnds(u, p)
<1>0. /\ IsText(t) /\ IsText(u) /\ q \in Nat /\ p \in 1 .. q /\ p < q
      /\ u[p] = t[p]
  BY NearChar DEF Near
<1> DEFINE a == Run(t, Digit, p)
<1>1. Run(u, Digit, p) = a /\ a \in p .. q - 1 /\ u[a] = t[a]
  BY WordParts, NearWord
<1> HIDE DEF a
<1>2. a \in 1 .. q - 1 /\ a \in 1 .. q /\ a < q
  BY <1>0, <1>1
<1>3. CASE t[p] = "0" /\ At(t, p + 1) = "x" /\ At(t, p + 2) \in Hex
           /\ e = Run(t, IntSuffix, Run(t, Hex, p + 2))
  <2>1. "0" \in Alnum /\ "x" \in Alnum
    BY DEF Alnum, Alpha, Digit
  <2>2. p + 1 \in 1 .. q - 1
    BY <1>3, <2>1, NearNext
  <2>3. p + 1 \in 1 .. q /\ p + 1 < q
    BY <1>0, <2>2
  <2>4. At(t, p + 1) = t[p + 1] /\ At(u, p + 1) = t[p + 1]
    BY <2>3, NearChar
  <2>5. (p + 1) + 1 \in 1 .. q - 1
    BY <1>3, <2>1, <2>2, <2>4, NearNext
  <2>6. p + 2 \in 1 .. q - 1 /\ p + 2 \in 1 .. q /\ p + 2 < q
    BY <1>0, <2>5
  <2>7. At(u, p + 2) = At(t, p + 2)
    BY <2>6, NearChar
  <2> DEFINE h == Run(t, Hex, p + 2)
  <2>8. Run(u, Hex, p + 2) = h /\ h \in p + 2 .. q - 1
    BY <2>6, WordParts, NearWord
  <2> HIDE DEF h
  <2>9. h \in 1 .. q - 1
    BY <1>0, <2>6, <2>8
  <2>10. Run(u, IntSuffix, h) = Run(t, IntSuffix, h) /\ Run(t, IntSuffix, h) \in h .. q - 1
    BY <2>9, WordParts, NearWord
  <2>11. e = Run(u, IntSuffix, Run(u, Hex, p + 2)) /\ e <= q
    <3>1. e = Run(t, IntSuffix, h)
      BY <1>3 DEF h
    <3> QED BY <1>0, <2>8, <2>9, <2>10, <3>1
  <2> QED BY <1>0, <1>3, <2>4, <2>7, <2>11, NumberIs
<1>4. CASE a > p /\ e = Run(t, IntSuffix, a)
  <2>1. Run(u, IntSuffix, a) = e /\ e \in a .. q - 1
    BY <1>2, <1>4, WordParts, NearWord
  <2>2. e <= q
    BY <1>0, <1>2, <2>1
  <2> QED BY <1>1, <1>4, <2>1, <2>2, NumberIs
<1>5. ASSUME NEW s \in 1 .. q - 1, NEW x \in ExpEnds(t, s), e = Opt(t, FloatSuffix, x)
      PROVE  x \in ExpEnds(u, s) /\ e = Opt(u, FloatSuffix, x) /\ e <= q
  <2>1. x \in ExpEnds(u, s) /\ x \in 1 .. q - 1
    BY <1>5, NearExp
  <2>2. x \in 1 .. q /\ x < q
    BY <1>0, <2>1
  <2>3. Opt(u, FloatSuffix, x) = Opt(t, FloatSuffix, x) /\ Opt(t, FloatSuffix, x) \in x .. x + 1
    BY <2>2, NearOpt
  <2>4. e <= q
    BY <1>0, <1>5, <2>2, <2>3
  <2> QED BY <1>5, <2>1, <2>3, <2>4
<1>6. CASE a > p /\ \E x \in ExpEnds(t, a) \ {a} : e = Opt(t, FloatSuffix, x)
  <2>1. PICK x \in ExpEnds(t, a) \ {a} : e = Opt(t, FloatSuffix, x)
    BY <1>6
  <2>2. x \in ExpEnds(u, a) \ {a} /\ e = Opt(u, FloatSuffix, x) /\ e <= q
    BY <1>2, <1>5, <2>1
  <2> QED BY <1>1, <1>6, <2>2, NumberIs
<1>7. CASE t[a] = "." /\ (a > p \/ At(t, a + 1) \in Digit)
           /\ \E x \in ExpEnds(t, Run(t, Digit, a + 1)) : e = Opt(t, FloatSuffix, x)
  <2> DEFINE f == Run(t, Digit, a + 1)
  <2>1. a + 1 \in 1 .. q
    BY <1>0, <1>2
  <2>2. Run(u, Digit, a + 1) = f /\ f \in a + 1 .. q
    BY <2>1, AlphaIn, NoNul, NearNoWord
  <2>3. At(u, a + 1) \in Digit <=> At(t, a + 1) \in Digit
    <3>1. CASE a + 1 < q
      BY <2>1, <3>1, NearChar
    <3>2. CASE a + 1 = q
      BY <2>1, <3>2, NoDigit, NearChar
    <3> QED BY <1>0, <2>1, <3>1, <3>2
  <2>4. PICK x \in ExpEnds(t, f) : e = Opt(t, FloatSuffix, x)
    BY <1>7
  <2>5. \A y \in ExpEnds(u, f) : Opt(u, FloatSuffix, y) \in NumberEnds(u, p)
    BY <1>1, <1>7, <2>2, <2>3, NumberIs
  <2> HIDE DEF f
  <2>6. CASE f = q
    BY <2>4, <2>5, <2>6
  <2>7. CASE f # q
    <3>1. f \in 1 .. q - 1
      BY <1>0, <1>2, <2>2, <2>7
    <3>2. x \in ExpEnds(u, f) /\ e = Opt(u, FloatSuffix, x) /\ e <= q
      BY <1>5, <2>4, <3>1
    <3> QED BY <2>5, <3>2
  <2> QED BY <2>6, <2>7
<1> QED BY <1>3, <1>4, <1>6, <1>7, NumberIs DEF a

(* A character literal that ends before q. *)
LEMMA NearCharLiteral ==
  ASSUME NEW t, NEW u, NEW q, Near(t, u, q), NEW p \in 1 .. q - 1,
         NEW e \in CharEnds(t, p), e <= q
  PROVE  e \in CharEnds(u, p)
<1> DEFINE anych == any \ {"'", "\\"}
           escaped == At(t, p + 1) = "\\" /\ At(t, p + 2) \in any
           last == IF escaped THEN Run(t, anych, p + 3)
                   ELSE IF At(t, p + 1) \in anych THEN p + 2 ELSE p
           escaped2 == At(u, p + 1) = "\\" /\ At(u, p + 2) \in any
           last2 == IF escaped2 THEN Run(u, anych, p + 3)
                    ELSE IF At(u, p + 1) \in anych THEN p + 2 ELSE p
<1>1. t[p] = "'" /\ last > p /\ t[last] = "'" /\ e = last + 1
  BY DEF CharEnds
<1>2. u[p] = "'" /\ last2 > p /\ u[last2] = "'" => last2 + 1 \in CharEnds(u, p)
  BY DEF CharEnds
<1>3. "NUL" \notin anych /\ "NUL" \notin any
  BY NoNul
<1>4. IsText(t) /\ q \in Nat /\ p \in 1 .. q /\ p < q
  BY DEF Near
<1> HIDE DEF anych
<1>5. p + 2 \in 1 .. q /\ last \in p + 2 .. q - 1
  <2>1. CASE escaped
    <3>1. p + 3 \in 1 .. Len(t)
      <4>1. At(t, p + 2) # "NUL" /\ p + 2 \in Nat \ {0} /\ (p + 2) + 1 = p + 3
        BY <1>3, <1>4, <2>1
      <4> QED BY <1>4, <4>1, AtInside
    <3>2. last = Run(t, anych, p + 3)
      BY <2>1
    <3> HIDE DEF last
    <3>3. last \in p + 3 .. Len(t)
      BY <1>3, <1>4, <3>1, <3>2, RunStops
    <3> QED BY <1>1, <1>4, <3>3
  <2>2. CASE ~escaped
    <3>1. last = p + 2
      BY <1>1, <1>4, <2>2
    <3> HIDE DEF last
    <3> QED BY <1>1, <1>4, <3>1
  <2> QED BY <2>1, <2>2
<1> HIDE DEF last
<1>6. last < q /\ p + 1 \in 1 .. q /\ p + 1 < q /\ last \in 1 .. q
  BY <1>4, <1>5
<1>7. /\ u[p] = t[p] /\ At(u, p + 1) = At(t, p + 1) /\ u[last] = t[last]
      /\ (p + 2 < q => At(u, p + 2) = At(t, p + 2))
  BY <1>4, <1>5, <1>6, NearChar
<1>8. p + 2 < q
  BY <1>4, <1>5, <1>6
<1>9. last2 = last
  <2>1. CASE escaped
    <3>1. escaped2 /\ last = Run(t, anych, p + 3)
      BY <1>7, <1>8, <2>1 DEF last
    <3>2. p + 3 \in 1 .. q
      BY <1>4, <1>8
    <3>3. Run(u, anych, p + 3) = Run(t, anych, p + 3)
      BY <1>3, <1>6, <3>1, <3>2, NearRun
    <3> QED BY <3>1, <3>3
  <2>2. CASE ~escaped
    BY <1>7, <1>8, <2>2 DEF last
  <2> QED BY <2>1, <2>2
<1> HIDE DEF last2
<1> QED BY <1>1, <1>2, <1>6, <1>7, <1>9

LEMMA NearOp ==
  ASSUME NEW t, NEW u, NEW q, Near(t, u, q), NEW p \in 1 .. q - 1,
         NEW e \in OpEnds(t, p)
  PROVE  e \in OpEnds(u, p) /\ e <= q
<1>1. q \in Nat /\ p \in 1 .. q /\ p < q /\ p \in Nat /\ p + 1 \in 1 .. q
  BY DEF Near
<1>2. u[p] = t[p] /\ At(t, p) = t[p] /\ At(u, p) = t[p]
  BY <1>1, NearChar
<1>3. ASSUME NEW r \in 1 .. q, At(t, r) = "-" \/ At(t, r) = "."
      PROVE  r < q /\ At(u, r) = At(t, r) /\ r + 1 \in 1 .. q
  <2>1. r # q
    <3>1. r = q => At(t, r) \in Alpha
      BY NearChar
    <3> QED BY <1>3, <3>1, AlphaIn
  <2>2. r < q
    BY <1>1, <2>1
  <2> QED BY <1>1, <2>2, NearChar
<1>4. CASE t[p] \in OpChars /\ e = p + 1
  BY <1>1, <1>2, <1>4, OpIs
<1>5. CASE At(t, p) = "-" /\ At(t, p + 1) = "-" /\ e = p + 2
  <2>1. p + 1 < q /\ At(u, p + 1) = "-"
    BY <1>1, <1>3, <1>5
  <2> QED BY <1>1, <1>2, <1>5, <2>1, OpIs
<1>6. CASE At(t, p) = "." /\ At(t, p + 1) = "." /\ At(t, p + 2) = "." /\ e = p + 3
  <2>1. p + 1 < q /\ At(u, p + 1) = "." /\ (p + 1) + 1 \in 1 .. q
    BY <1>1, <1>3, <1>6
  <2>2. p + 2 \in 1 .. q
    BY <1>1, <2>1
  <2>3. p + 2 < q /\ At(u, p + 2) = "."
    BY <1>3, <1>6, <2>2
  <2> QED BY <1>1, <1>2, <1>6, <2>1, <2>3, OpIs
<1> QED BY <1>1, <1>4, <1>5, <1>6, OpIs

(* Comments: in both or in none, *)
LEMMA NearSlash ==
  ASSUME NEW t, NEW u, NEW q, Near(t, u, q), NEW p \in 1 .. q - 1,
         t[p] = "/", NEW c \in {"*", "/"}, At(t, p + 1) = c
  PROVE  u[p] = "/" /\ At(u, p + 1) = c /\ p + 1 \in 1 .. q - 1
<1>1. q \in Nat /\ p \in 1 .. q /\ p < q /\ p + 1 \in 1 .. q
  BY DEF Near
<1>2. p + 1 # q
  <2>1. p + 1 = q => At(t, p + 1) \in Alpha
    BY <1>1, NearChar
  <2> QED BY <2>1, AlphaIn
<1>3. p + 1 < q
  BY <1>1, <1>2
<1> QED BY <1>1, <1>3, NearChar

LEMMA OneComment ==
  ASSUME NEW t, NEW p, NEW x \in CommentEnds(t, p), NEW y \in CommentEnds(t, p)
  PROVE  x = y
BY DEF CommentEnds

LEMMA NearComments ==
  ASSUME NEW t, NEW u, NEW q, Near(t, u, q), NEW p \in 1 .. q - 1,
         CommentEnds(t, p) # {}
  PROVE  CommentEnds(u, p) # {}
<1>1. t[p] = "/"
  BY DEF CommentEnds
<1>2. CASE At(t, p + 1) = "*"
  <2>1. u[p] = "/" /\ At(u, p + 1) = "*"
    BY <1>1, <1>2, NearSlash
  <2> QED BY <2>1 DEF CommentEnds
<1>3. CASE At(t, p + 1) # "*"
  <2>1. At(t, p + 1) = "/" /\ At(t, p + 2) \in any
    BY <1>1, <1>3 DEF CommentEnds
  <2>2. u[p] = "/" /\ At(u, p + 1) = "/" /\ p + 1 \in 1 .. q - 1
    BY <1>1, <2>1, NearSlash
  <2>3. p + 2 \in 1 .. q /\ q \in Nat
    BY <2>2 DEF Near
  <2>4. At(u, p + 2) \in any
    <3>1. CASE p + 2 < q
      BY <2>1, <2>3, <3>1, NearChar
    <3>2. CASE p + 2 = q
      <4>1. Alpha \subseteq any
        BY AlphaIn
      <4> QED BY <2>3, <3>2, <4>1, NearChar
    <3> QED BY <2>3, <3>1, <3>2
  <2>5. CommentEnds(u, p) = {Run(u, any, p + 2)}
    BY <2>2, <2>4 DEF CommentEnds
  <2> QED BY <2>5
<1> QED BY <1>2, <1>3

(* and one that ends before q in both. *)
LEMMA NearComment ==
  ASSUME NEW t, NEW u, NEW q, Near(t, u, q), NEW p \in 1 .. q - 1,
         NEW e \in CommentEnds(t, p), e <= q
  PROVE  e \in CommentEnds(u, p)
<1>0. /\ IsText(t) /\ IsText(u) /\ q \in Nat /\ p \in 1 .. q /\ p < q
      /\ p \in 1 .. Len(t) /\ p \in 1 .. Len(u) /\ Len(t) \in Nat /\ Len(u) \in Nat
      /\ q <= Len(t) /\ q <= Len(u) /\ \A r \in 1 .. q - 1 : u[r] = t[r]
  BY NearChar DEF Near, IsText
<1>1. t[p] = "/"
  BY DEF CommentEnds
<1>2. CASE At(t, p + 1) = "*"
  <2>1. u[p] = "/" /\ At(u, p + 1) = "*"
    BY <1>1, <1>2, NearSlash
  <2>2. CommentEnds(u, p) = {BlockComment(u, p)} /\ e = BlockComment(t, p)
    BY <1>1, <1>2, <2>1 DEF CommentEnds
  <2>3. PICK s : StopsAt(t, p, s)
    BY <1>0, BlockIs
  <2>4. e = IF Closed(t, p, s) THEN s + 2 ELSE s + 1
    BY <1>0, <2>2, <2>3, BlockIs
  <2>5. s \in p .. Len(t) /\ s < q /\ (Closed(t, p, s) => s + 1 < q)
    BY <1>0, <2>3, <2>4 DEF StopsAt
  <2>6. \A r \in p .. s : r + 1 < q => (Closed(u, p, r) <=> Closed(t, p, r))
    <3> SUFFICES ASSUME NEW r \in p .. s, r + 1 < q
                 PROVE  Closed(u, p, r) <=> Closed(t, p, r)
      OBVIOUS
    <3>1. r \in 1 .. q - 1 /\ r + 1 \in 1 .. q - 1 /\ r < Len(t) /\ r < Len(u)
      BY <1>0, <2>5
    <3>2. u[r] = t[r] /\ u[r + 1] = t[r + 1]
      BY <1>0, <3>1
    <3>3. r \in p + 2 .. Len(t) - 1 <=> r \in p + 2 .. Len(u) - 1
      BY <1>0, <3>1
    <3> QED BY <3>2, <3>3 DEF Closed
  <2>7. StopsAt(u, p, s)
    <3>1. s \in p .. Len(u) /\ s \in 1 .. q - 1 /\ u[s] = t[s]
      BY <1>0, <2>5
    <3>2. Closed(u, p, s) \/ u[s] = "NUL"
      BY <2>3, <2>5, <2>6, <3>1 DEF StopsAt
    <3>3. ASSUME NEW r \in p .. s - 1 PROVE ~Closed(u, p, r) /\ u[r] # "NUL"
      <4>1. r \in p .. s /\ r + 1 < q /\ r \in 1 .. q - 1
        BY <1>0, <2>5
      <4> QED BY <1>0, <2>3, <2>6, <4>1 DEF StopsAt
    <3> QED BY <3>1, <3>2, <3>3 DEF StopsAt
  <2>8. Closed(u, p, s) <=> Closed(t, p, s)
    <3>1. CASE Closed(t, p, s)
      BY <2>5, <2>6, <3>1
    <3>2. CASE ~Closed(t, p, s)
      <4>1. t[s] = "NUL" /\ u[s] = t[s]
        <5>1. s \in 1 .. q - 1
          BY <1>0, <2>5
        <5> QED BY <1>0, <2>3, <3>2, <5>1 DEF StopsAt
      <4> QED BY <3>2, <4>1 DEF Closed
    <3> QED BY <3>1, <3>2
  <2>9. BlockComment(u, p) = e
    BY <1>0, <2>4, <2>7, <2>8, BlockIs
  <2> QED BY <2>2, <2>9
<1>3. CASE At(t, p + 1) # "*"
  <2>1. At(t, p + 1) = "/" /\ At(t, p + 2) \in any /\ e = Run(t, any, p + 2)
    BY <1>1, <1>3 DEF CommentEnds
  <2>2. u[p] = "/" /\ At(u, p + 1) = "/" /\ p + 1 \in 1 .. q - 1
    BY <1>1, <2>1, NearSlash
  <2>3. p + 2 \in 1 .. q /\ p + 2 \in 1 .. Len(t)
    BY <1>0, <2>2
  <2>4. e # q
    <3>1. t[e] \notin any
      BY <1>0, <2>1, <2>3, NoNul, RunStops
    <3> QED BY <3>1, AlphaIn DEF Near
  <2>5. e \in p + 2 .. Len(t)
    BY <1>0, <2>1, <2>3, NoNul, RunStops
  <2>6. e < q
    BY <1>0, <2>4, <2>5
  <2>7. Run(u, any, p + 2) = e
    BY <2>1, <2>3, <2>6, NoNul, NearRun
  <2>8. CommentEnds(u, p) # {}
    BY NearComments
  <2>9. CommentEnds(u, p) = {Run(u, any, p + 2)}
    BY <2>2, <2>8 DEF CommentEnds
  <2> QED BY <2>7, <2>9
<1> QED BY <1>2, <1>3

(* Line ends and blanks. *)
LEMMA NearEOL ==
  ASSUME NEW t, NEW u, NEW q, Near(t, u, q), NEW p \in 1 .. q - 1,
         NEW e \in EOLEnds(t, p)
  PROVE  e \in EOLEnds(u, p) /\ e <= q
<1>1. q \in Nat /\ p \in 1 .. q /\ p < q /\ p + 1 \in 1 .. q /\ u[p] = t[p]
  BY NearChar DEF Near
<1>2. {"LF"} \cap Alpha = {}
  BY DEF Alpha
<1>3. /\ Opt(u, {"LF"}, p + 1) = Opt(t, {"LF"}, p + 1)
      /\ Opt(t, {"LF"}, p + 1) \in p + 1 .. (p + 1) + 1
      /\ p + 1 = q => Opt(t, {"LF"}, p + 1) = p + 1
  BY <1>1, <1>2, NearOpt
<1>4. Opt(t, {"LF"}, p + 1) <= q
  BY <1>1, <1>3
<1> QED BY <1>1, <1>3, <1>4 DEF EOLEnds

LEMMA NearBlank ==
  ASSUME NEW t, NEW u, NEW q, Near(t, u, q), NEW p \in 1 .. q - 1,
         NEW e, e \in BlankEnds(t, p)
  PROVE  e \in BlankEnds(u, p) /\ e <= q
<1> DEFINE S == {" "}
           Blanks(s, r) == s[r] = " " \/ (s[r] = "\\" /\ s[Run(s, S, r + 1)] \in EOLs)
<1>1. \A s, r : BlankEnds(s, r) = IF Blanks(s, r) THEN {Run(s, S, r + 1)} ELSE {}
  BY DEF BlankEnds
<1>2. /\ \A s, r, f : s[r] = f[r] /\ s[Run(s, S, r + 1)] = f[Run(f, S, r + 1)] =>
                        (Blanks(s, r) <=> Blanks(f, r))
      /\ \A s, r, f : s[r] = f[r] /\ s[Run(s, S, r + 1)] \notin EOLs
                        /\ f[Run(f, S, r + 1)] \notin EOLs =>
                        (Blanks(s, r) <=> Blanks(f, r))
  OBVIOUS
<1>3. "NUL" \notin S
  OBVIOUS
<1>4. S \cap Alpha = {}
  BY Zenon DEF Alpha
<1> HIDE DEF S, Blanks
<1>5. Blanks(t, p) /\ e = Run(t, S, p + 1)
  BY <1>1
<1>6. q \in Nat /\ p \in 1 .. q /\ p < q /\ p + 1 \in 1 .. q /\ u[p] = t[p]
  BY NearChar DEF Near
<1>7. Run(u, S, p + 1) = e /\ e \in p + 1 .. q
  BY <1>3, <1>4, <1>5, <1>6, NearNoWord
<1>8. e \in 1 .. q
  BY <1>6, <1>7
<1>9. Blanks(u, p)
  <2>1. CASE e < q
    <3>1. u[e] = t[e]
      BY <1>8, <2>1, NearChar
    <3> QED BY <1>2, <1>5, <1>6, <1>7, <3>1
  <2>2. CASE e = q
    <3>1. u[e] \notin EOLs /\ t[e] \notin EOLs
      BY <1>8, <2>2, AlphaIn, NearChar
    <3> QED BY <1>2, <1>5, <1>6, <1>7, <3>1
  <2> QED BY <1>6, <1>7, <2>1, <2>2
<1> QED BY <1>1, <1>6, <1>7, <1>9

(* A directive that ends before q. *)
LEMMA NearDirective ==
  ASSUME NEW t, NEW u, NEW q, Near(t, u, q), NEW p \in 1 .. q - 1,
         t[p] = "#", Run(t, any, p) <= q
  PROVE  /\ u[p] = "#" /\ Run(u, any, p) = Run(t, any, p)
         /\ DirectiveSym(u, p) = DirectiveSym(t, p)
<1> DEFINE S == {" "}
           from == Run(t, S, p + 1)
           to == Run(t, Alnum, from)
           from2 == Run(u, S, p + 1)
           to2 == Run(u, Alnum, from2)
<1>0. /\ IsText(t) /\ q \in Nat /\ p \in 1 .. q /\ p < q /\ p + 1 \in 1 .. q
      /\ p \in 1 .. Len(t) /\ p + 1 \in 1 .. Len(t)
      /\ Len(t) \in Nat /\ q <= Len(t) /\ u[p] = t[p]
  BY NearChar DEF Near, IsText
<1>1. DirectiveSym(t, p) = IF to = from + 1 /\ t[from] \in DOMAIN Directive
                           THEN Directive[t[from]] ELSE "PPOther"
  BY DEF DirectiveSym
<1>2. DirectiveSym(u, p) = IF to2 = from2 + 1 /\ u[from2] \in DOMAIN Directive
                           THEN Directive[u[from2]] ELSE "PPOther"
  BY DEF DirectiveSym
<1>3. "NUL" \notin S /\ S \subseteq any /\ "#" \in any
  <2>1. "NUL" \notin S
    OBVIOUS
  <2>2. S \subseteq any /\ "#" \in any
    BY Zenon DEF any, Others
  <2> QED BY <2>1, <2>2
<1> HIDE DEF S, to, to2, from, from2
<1>4. PICK e : e = Run(t, any, p)
  OBVIOUS
<1>5. e \in p .. Len(t) /\ t[e] \notin any
  BY <1>0, <1>4, NoNul, RunStops
<1>6. e # q /\ e # p
  BY <1>3, <1>5, AlphaIn DEF Near
<1>7. e \in p + 1 .. q - 1 /\ e < q
  BY <1>0, <1>4, <1>5, <1>6
<1>8. Run(u, any, p) = e
  BY <1>0, <1>4, <1>7, NoNul, NearRun
<1>9. from \in p + 1 .. e
  <2>1. from \in p + 1 .. Len(t) /\ \A r \in p + 1 .. from - 1 : t[r] \in S
    BY <1>0, <1>3, RunStops DEF from
  <2>2. e \notin p + 1 .. from - 1
    BY <1>3, <1>5, <2>1
  <2> QED BY <1>0, <1>7, <2>1, <2>2
<1>10. from2 = from /\ u[from] = t[from]
  <2>1. from < q
    BY <1>0, <1>7, <1>9
  <2> QED BY <1>0, <1>3, <2>1, NearRun DEF from, from2
<1>11. from \in 1 .. q /\ from \in 1 .. Len(t)
  BY <1>0, <1>7, <1>9
<1>12. to \in from .. e
  <2>1. to \in from .. Len(t) /\ \A r \in from .. to - 1 : t[r] \in Alnum
    BY <1>0, <1>11, NoNul, RunStops DEF to
  <2>2. e \notin from .. to - 1
    BY <1>5, <2>1, AlphaIn
  <2> QED BY <1>0, <1>7, <1>9, <2>1, <2>2
<1>13. to2 = to
  <2>1. to < q
    BY <1>0, <1>7, <1>9, <1>12
  <2> QED BY <1>10, <1>11, <2>1, NoNul, NearRun DEF to, to2
<1> QED BY <1>0, <1>1, <1>2, <1>4, <1>8, <1>10, <1>13

-----------------------------------------------------------------------------
(* u is t with a U put in front of the word that begins at q. *)
Inserted(t, u, q) ==
    /\ IsText(t) /\ IsText(u) /\ q \in 1 .. Len(t) /\ Len(u) = Len(t) + 1
    /\ t[q] \in Alpha /\ u[q] = "U" /\ (q > 1 => t[q - 1] \notin Alnum)
    /\ \A r \in 1 .. q - 1 : u[r] = t[r]
    /\ \A r \in q .. Len(t) : u[r + 1] = t[r]

LEMMA UIsLetter ==
  "U" \in Alpha /\ "U" # "e" /\ "U" # "L" /\ "U" \notin FloatSuffix /\ "U" # "'" /\ "U" # "\\"
BY DEF Alpha, FloatSuffix

LEMMA InsertedNear ==
  ASSUME NEW t, NEW u, NEW q, Inserted(t, u, q), q > 1
  PROVE  Near(t, u, q) /\ Near(u, t, q)
<1>1. Near(t, u, q)
  BY UIsLetter DEF Inserted, Near, IsText
<1> QED BY <1>1, NearBack

LEMMA InsertedMoved ==
  ASSUME NEW t, NEW u, NEW q, Inserted(t, u, q)
  PROVE  /\ Moved(t, u, q, Len(t), 1)
         /\ Moved(u, t, q + 1, Len(t) + 1, -1)
<1>1. Moved(t, u, q, Len(t), 1)
  BY DEF Inserted, Moved, IsText
<1> QED BY <1>1, MovedBack DEF Inserted

(* A character literal that goes on behind q does so in t. *)
LEMMA CharBehind ==
  ASSUME NEW t, NEW u, NEW q, Inserted(t, u, q), NEW p \in 1 .. q - 1,
         NEW e \in CharEnds(u, p), e > q
  PROVE  \E x \in CharEnds(t, p) : x > q
<1> DEFINE anych == any \ {"'", "\\"}
           escaped == At(t, p + 1) = "\\" /\ At(t, p + 2) \in any
           last == IF escaped THEN Run(t, anych, p + 3)
                   ELSE IF At(t, p + 1) \in anych THEN p + 2 ELSE p
           escaped2 == At(u, p + 1) = "\\" /\ At(u, p + 2) \in any
           last2 == IF escaped2 THEN Run(u, anych, p + 3)
                    ELSE IF At(u, p + 1) \in anych THEN p + 2 ELSE p
<1>1. u[p] = "'" /\ last2 > p /\ u[last2] = "'" /\ e = last2 + 1
  BY DEF CharEnds
<1>2. t[p] = "'" /\ last > p /\ t[last] = "'" => last + 1 \in CharEnds(t, p)
  BY DEF CharEnds
<1>3. "NUL" \notin anych /\ "NUL" \notin any
  BY NoNul
<1>4. Alpha \subseteq any /\ Alpha \subseteq anych
  BY AlphaIn
<1>5. /\ IsText(t) /\ IsText(u) /\ q \in Nat /\ p \in 1 .. q /\ p < q /\ q > 1
      /\ Len(t) \in Nat /\ q <= Len(t) /\ Len(u) = Len(t) + 1
      /\ u[q] = "U" /\ t[q] \in Alpha
      /\ \A r \in 1 .. q - 1 : u[r] = t[r]
      /\ \A r \in q .. Len(t) : u[r + 1] = t[r]
  BY DEF Inserted, IsText
<1>6. Near(t, u, q)
  BY <1>5, InsertedNear
<1> HIDE DEF anych
<1>7. u[q + 1] \in Alpha
  BY <1>5
<1>8. PICK m : m = last2
  OBVIOUS
<1>9. escaped2 /\ m = Run(u, anych, p + 3) /\ p + 3 \in 1 .. Len(u)
  <2>1. escaped2
    <3> SUFFICES ASSUME ~escaped2 PROVE FALSE
      OBVIOUS
    <3>1. last2 = p + 2
      BY <1>1, <1>5
    <3> HIDE DEF last2
    <3>2. p + 2 = q \/ p + 2 = q + 1
      BY <1>1, <1>5, <3>1
    <3>3. u[p + 2] \in Alpha
      <4>1. u[q] \in Alpha
        BY <1>5, UIsLetter
      <4> QED BY <1>7, <3>2, <4>1
    <3> QED BY <1>1, <3>1, <3>3, AlphaIn
  <2>2. p + 3 \in 1 .. Len(u)
    <3>1. At(u, p + 2) # "NUL" /\ p + 2 \in Nat \ {0} /\ (p + 2) + 1 = p + 3
      BY <1>3, <1>5, <2>1
    <3> QED BY <1>5, <3>1, AtInside
  <2> QED BY <1>8, <2>1, <2>2
<1> HIDE DEF last2
<1>10. m \in p + 3 .. Len(u) /\ \A r \in p + 3 .. m - 1 : u[r] \in anych
  BY <1>3, <1>5, <1>9, RunStops
<1>11. u[m] = "'" /\ e = m + 1 /\ m \in Int
  BY <1>1, <1>8, <1>10
<1>12. m > q + 1
  <2>1. u[q] \in Alpha
    BY <1>5, UIsLetter
  <2>2. m # q /\ m # q + 1
    BY <1>7, <1>11, <2>1, AlphaIn
  <2> QED BY <1>5, <1>11, <2>2
<1>13. p + 1 < q /\ p + 2 \in 1 .. q /\ p + 1 \in 1 .. q
  <2>1. p + 1 \in 1 .. q
    BY <1>5
  <2>2. p + 1 # q
    <3>1. p + 1 = q => At(u, p + 1) = "U"
      BY <1>5, <1>6, <2>1, NearChar
    <3> QED BY <1>9, <3>1
  <2> QED BY <1>5, <2>1, <2>2
<1>14. escaped
  <2>1. At(t, p + 1) = "\\"
    <3>1. At(t, p + 1) = At(u, p + 1)
      BY <1>6, <1>13, NearChar
    <3> QED BY <1>9, <3>1
  <2>2. At(t, p + 2) \in any
    <3>1. CASE p + 2 < q
      <4>1. At(t, p + 2) = At(u, p + 2)
        BY <1>6, <1>13, <3>1, NearChar
      <4> QED BY <1>9, <4>1
    <3>2. CASE p + 2 = q
      BY <1>4, <1>6, <1>13, <3>2, NearChar
    <3> QED BY <1>5, <1>13, <3>1, <3>2
  <2> QED BY <2>1, <2>2
<1>15. last = m - 1 /\ t[m - 1] = "'"
  <2>1. m - 1 \in q .. Len(t) /\ (m - 1) + 1 = m
    BY <1>5, <1>10, <1>12
  <2>2. t[m - 1] = "'"
    BY <1>5, <1>11, <2>1
  <2>3. ASSUME NEW r \in p + 3 .. (m - 1) - 1 PROVE t[r] \in anych
    <3>1. CASE r < q
      <4>1. r \in 1 .. q - 1 /\ r \in p + 3 .. m - 1
        BY <1>5, <1>10, <3>1
      <4> QED BY <1>5, <1>10, <4>1
    <3>2. CASE ~(r < q)
      <4>1. r \in q .. Len(t) /\ r + 1 \in p + 3 .. m - 1
        BY <1>5, <1>10, <2>1, <3>2
      <4> QED BY <1>5, <1>10, <4>1
    <3> QED BY <3>1, <3>2
  <2>4. m - 1 \in p + 3 .. Len(t) /\ p + 3 \in 1 .. Len(t)
    BY <1>5, <1>10, <1>12, <1>13, <2>1
  <2>5. "'" \notin anych
    BY DEF anych
  <2>6. Run(t, anych, p + 3) = m - 1
    BY <1>3, <1>5, <2>2, <2>3, <2>4, <2>5, RunIs
  <2> QED BY <1>14, <2>2, <2>6
<1> HIDE DEF last
<1>16. t[p] = "'"
  BY <1>1, <1>5
<1>17. last > p /\ last + 1 > q
  BY <1>5, <1>11, <1>12, <1>15
<1> QED BY <1>2, <1>15, <1>16, <1>17

LEMMA StringReaches ==
  ASSUME NEW t, IsText(t), NEW o \in 1 .. Len(t), NEW f, StringFun(t, f, o),
         NEW p \in o + 1 .. Len(t), NEW e \in f[p]
  PROVE  e \in Nat /\ e > p
<1>0. Len(t) \in Nat /\ o \in Nat
  BY DEF IsText
<1> DEFINE S == {m \in Nat : \A r \in o + 1 .. Len(t) : r >= Len(t) - m =>
                                \A x \in f[r] : x \in Nat /\ x > r}
<1>1. ASSUME NEW r \in o + 1 .. Len(t), NEW x \in f[r],
             \A s \in o + 1 .. Len(t) : s > r => \A y \in f[s] : y \in Nat /\ y > s
      PROVE  x \in Nat /\ x > r
  <2>1. x \in StringBody(t, f, r) /\ r \in 1 .. Len(t)
    BY <1>0, StringFunAt
  <2>2. CASE t[r] = "\""
    <3>1. x = r + 1
      BY <2>1, <2>2 DEF StringBody
    <3> QED BY <2>1, <3>1
  <2>3. CASE t[r] # "\"" /\ t[r] = "\\"
    <3>1. At(t, r + 1) \in any /\ x \in f[r + 2]
      BY <2>1, <2>3 DEF StringBody
    <3>2. r + 2 \in o + 1 .. Len(t) /\ r + 2 > r
      <4>1. At(t, r + 1) # "NUL" /\ r + 1 \in Nat \ {0} /\ (r + 1) + 1 = r + 2
        BY <2>1, <3>1, NoNul
      <4>2. r + 2 \in 1 .. Len(t)
        BY <4>1, AtInside
      <4> QED BY <1>0, <2>1, <4>2
    <3>3. x \in Nat /\ x > r + 2
      BY <1>1, <3>1, <3>2
    <3> QED BY <2>1, <3>3
  <2>4. CASE t[r] # "\"" /\ t[r] # "\\"
    <3>1. t[r] \in any /\ x \in f[r + 1]
      BY <2>1, <2>4 DEF StringBody
    <3>2. r + 1 \in o + 1 .. Len(t) /\ r + 1 > r
      <4>1. r + 1 \in 1 .. Len(t)
        BY <2>1, <3>1, NoNul, SpanOne
      <4> QED BY <1>0, <2>1, <4>1
    <3>3. x \in Nat /\ x > r + 1
      BY <1>1, <3>1, <3>2
    <3> QED BY <2>1, <3>3
  <2> QED BY <2>2, <2>3, <2>4
<1>2. 0 \in S
  <2> SUFFICES ASSUME NEW r \in o + 1 .. Len(t), r >= Len(t) - 0, NEW x \in f[r]
               PROVE  x \in Nat /\ x > r
    OBVIOUS
  <2>1. \A s \in o + 1 .. Len(t) : ~(s > r)
    BY <1>0
  <2> QED BY <1>1, <2>1
<1>3. ASSUME NEW m \in Nat, m \in S PROVE m + 1 \in S
  <2> SUFFICES ASSUME NEW r \in o + 1 .. Len(t), r >= Len(t) - (m + 1), NEW x \in f[r]
               PROVE  x \in Nat /\ x > r
    OBVIOUS
  <2>1. \A s \in o + 1 .. Len(t) : s > r => s >= Len(t) - m
    BY <1>0
  <2>2. \A s \in o + 1 .. Len(t) : s > r => \A y \in f[s] : y \in Nat /\ y > s
    BY <1>3, <2>1
  <2> QED BY <1>1, <2>2
<1> HIDE DEF S
<1>4. \A m \in Nat : m \in S
  BY <1>2, <1>3, NatInd
<1>5. Len(t) \in S /\ p >= Len(t) - Len(t)
  BY <1>0, <1>4
<1> QED BY <1>5 DEF S

(* Where a string that is still open at p ends: *)
SameEnds(f, g, q, p) ==
    /\ \A e \in f[p] : IF e <= q THEN e \in g[p] ELSE e + 1 \in g[p]
    /\ \A e \in g[p] : (e <= q /\ e \in f[p]) \/ \E x \in f[p] : x > q

LEMMA StringAtQ ==
  ASSUME NEW t, NEW u, NEW q, Inserted(t, u, q), NEW o \in 1 .. q - 1,
         NEW f, NEW g, StringFun(t, f, o), StringFun(u, g, o)
  PROVE  /\ SameEnds(f, g, q, q) /\ f[q] = f[q + 1] /\ g[q] = g[q + 1]
         /\ \A e \in f[q] : e > q
<1>1. /\ IsText(t) /\ IsText(u) /\ q \in Nat /\ o \in Nat /\ o < q /\ Len(t) \in Nat
      /\ q <= Len(t) /\ Len(u) = Len(t) + 1 /\ u[q] = "U" /\ t[q] \in Alpha
      /\ o \in 1 .. Len(t) /\ o \in 1 .. Len(u)
  BY DEF Inserted, IsText
<1>2. t[q] \in any /\ t[q] # "\"" /\ t[q] # "\\" /\ t[q] # "NUL"
      /\ u[q] \in any /\ u[q] # "\"" /\ u[q] # "\\"
  BY <1>1, AlphaIn, UIsLetter
<1>3. q \in o + 1 .. Len(t) /\ q \in o + 1 .. Len(u) /\ q \in 1 .. Len(t)
      /\ q + 1 \in o + 1 .. Len(u)
  BY <1>1
<1>4. f[q] = f[q + 1] /\ g[q] = g[q + 1]
  BY <1>2, <1>3, StringFunAt DEF StringBody
<1>5. \A e \in f[q] : e \in Nat /\ e > q
  BY <1>1, <1>3, StringReaches
<1>6. \A e \in g[q + 1] : e \in Nat /\ e > q + 1
  BY <1>1, <1>3, StringReaches
<1>7. \A e \in f[q] : e + 1 \in g[q + 1]
  <2>1. Moved(t, u, q, Len(t), 1) /\ 1 \in Int
    BY InsertedMoved
  <2>2. q > o /\ q + 1 > o
    BY <1>1
  <2> QED BY <1>1, <2>1, <2>2, MovedStrings
<1>8. \A e \in g[q + 1] : e + (-1) \in f[q]
  <2>1. Moved(u, t, q + 1, Len(t) + 1, -1) /\ (q + 1) + (-1) = q
    BY <1>1, InsertedMoved
  <2>2. q + 1 > o /\ (q + 1) + (-1) > o
    BY <1>1
  <2>3. \A e \in g[q + 1] : e + (-1) \in f[(q + 1) + (-1)]
    BY <1>1, <2>1, <2>2, MovedStrings
  <2> QED BY <2>1, <2>3
<1>9. SameEnds(f, g, q, q)
  <2>1. \A e \in f[q] : IF e <= q THEN e \in g[q] ELSE e + 1 \in g[q]
    BY <1>1, <1>4, <1>5, <1>7
  <2>2. \A e \in g[q] : \E x \in f[q] : x > q
    <3> SUFFICES ASSUME NEW e \in g[q] PROVE \E x \in f[q] : x > q
      OBVIOUS
    <3>1. e + (-1) \in f[q]
      BY <1>4, <1>8
    <3> QED BY <1>5, <3>1
  <2> QED BY <2>1, <2>2 DEF SameEnds
<1> QED BY <1>4, <1>5, <1>9

LEMMA StringBefore ==
  ASSUME NEW t, NEW u, NEW q, Inserted(t, u, q), NEW o \in 1 .. q - 1,
         NEW f, NEW g, StringFun(t, f, o), StringFun(u, g, o),
         NEW p \in o + 1 .. q - 1, \A r \in p + 1 .. q : SameEnds(f, g, q, r)
  PROVE  SameEnds(f, g, q, p)
<1>1. /\ IsText(t) /\ IsText(u) /\ q \in Nat /\ o \in Nat /\ o < q /\ Len(t) \in Nat
      /\ q <= Len(t) /\ Len(u) = Len(t) + 1 /\ u[q] = "U" /\ t[q] \in Alpha
      /\ p \in Nat /\ p < q /\ p \in 1 .. q /\ p + 1 \in 1 .. q
  BY DEF Inserted, IsText
<1>2. p \in o + 1 .. Len(t) /\ p \in o + 1 .. Len(u)
  BY <1>1
<1>3. f[p] = StringBody(t, f, p) /\ g[p] = StringBody(u, g, p)
  BY <1>2, StringFunAt
<1>4. Near(t, u, q)
  BY <1>1, InsertedNear
<1>5. u[p] = t[p]
  BY <1>1, <1>4, NearChar
<1>6. CASE t[p] = "\""
  <2>1. f[p] = {p + 1} /\ g[p] = {p + 1}
    BY <1>3, <1>5, <1>6 DEF StringBody
  <2>2. p + 1 <= q
    BY <1>1
  <2> QED BY <2>1, <2>2 DEF SameEnds
<1>7. ASSUME NEW r \in p + 1 .. q, f[p] = f[r], g[p] = g[r]
      PROVE  SameEnds(f, g, q, p)
  BY <1>7 DEF SameEnds
<1>8. CASE t[p] # "\"" /\ t[p] # "\\"
  <2>1. CASE t[p] \in any
    <3>1. f[p] = f[p + 1] /\ g[p] = g[p + 1]
      BY <1>3, <1>5, <1>8, <2>1 DEF StringBody
    <3>2. p + 1 \in p + 1 .. q
      BY <1>1
    <3> QED BY <1>7, <3>1, <3>2
  <2>2. CASE t[p] \notin any
    <3>1. f[p] = {} /\ g[p] = {}
      BY <1>3, <1>5, <1>8, <2>2 DEF StringBody
    <3> QED BY <3>1 DEF SameEnds
  <2> QED BY <2>1, <2>2
<1>9. CASE t[p] # "\"" /\ t[p] = "\\"
  <2>1. At(t, p + 1) \in any <=> At(u, p + 1) \in any
    <3>1. CASE p + 1 < q
      BY <1>1, <1>4, <3>1, NearChar
    <3>2. CASE p + 1 = q
      <4>1. At(t, p + 1) \in Alpha /\ At(u, p + 1) \in Alpha
        BY <1>1, <1>4, <3>2, NearChar
      <4> QED BY <4>1, AlphaIn
    <3> QED BY <1>1, <3>1, <3>2
  <2>2. CASE At(t, p + 1) \notin any
    <3>1. f[p] = {} /\ g[p] = {}
      BY <1>3, <1>5, <1>9, <2>1, <2>2 DEF StringBody
    <3> QED BY <3>1 DEF SameEnds
  <2>3. CASE At(t, p + 1) \in any
    <3>1. f[p] = f[p + 2] /\ g[p] = g[p + 2]
      BY <1>3, <1>5, <1>9, <2>1, <2>3 DEF StringBody
    <3>2. CASE p + 1 < q
      <4>1. p + 2 \in p + 1 .. q
        BY <1>1, <3>2
      <4> QED BY <1>7, <3>1, <4>1
    <3>3. CASE p + 1 = q
      <4>1. p + 2 = q + 1 /\ q \in p + 1 .. q
        BY <1>1, <3>3
      <4>2. f[p] = f[q] /\ g[p] = g[q]
        BY <3>1, <4>1, StringAtQ
      <4> QED BY <1>7, <4>1, <4>2
    <3> QED BY <1>1, <3>2, <3>3
  <2> QED BY <2>2, <2>3
<1> QED BY <1>6, <1>8, <1>9

LEMMA StringsBefore ==
  ASSUME NEW t, NEW u, NEW q, Inserted(t, u, q), NEW o \in 1 .. q - 1,
         NEW f, NEW g, StringFun(t, f, o), StringFun(u, g, o)
  PROVE  SameEnds(f, g, q, o + 1)
<1>0. q \in Nat /\ o \in Nat /\ o + 1 <= q
  BY DEF Inserted
<1> DEFINE S == {m \in Nat : \A r \in o + 1 .. q : r >= q - m => SameEnds(f, g, q, r)}
<1>1. 0 \in S
  <2>1. \A r \in o + 1 .. q : r >= q - 0 => r = q
    BY <1>0
  <2>2. SameEnds(f, g, q, q)
    BY StringAtQ
  <2> QED BY <2>1, <2>2
<1>2. ASSUME NEW m \in Nat, m \in S PROVE m + 1 \in S
  <2> SUFFICES ASSUME NEW r \in o + 1 .. q, r >= q - (m + 1)
               PROVE  SameEnds(f, g, q, r)
    OBVIOUS
  <2>1. CASE r = q
    BY <2>1, StringAtQ
  <2>2. CASE r # q
    <3>1. r \in o + 1 .. q - 1
      BY <1>0, <2>2
    <3>2. \A s \in r + 1 .. q : s \in o + 1 .. q /\ s >= q - m
      BY <1>0
    <3>3. \A s \in r + 1 .. q : SameEnds(f, g, q, s)
      BY <1>2, <3>2
    <3> QED BY <3>1, <3>3, StringBefore
  <2> QED BY <2>1, <2>2
<1> HIDE DEF S
<1>3. \A m \in Nat : m \in S
  BY <1>1, <1>2, NatInd
<1>4. q \in S /\ o + 1 \in o + 1 .. q /\ o + 1 >= q - q
  BY <1>0, <1>3
<1> QED BY <1>4 DEF S

LEMMA InsertedString ==
  ASSUME NEW t, NEW u, NEW q, Inserted(t, u, q), NEW p \in 1 .. q - 1
  PROVE  /\ \A e \in StringEnds(t, p) : e <= q => e \in StringEnds(u, p)
         /\ \A e \in StringEnds(u, p) :
               (e <= q /\ e \in StringEnds(t, p)) \/ \E x \in StringEnds(t, p) : x > q
<1>1. /\ IsText(t) /\ IsText(u) /\ p \in 1 .. Len(t) /\ p \in 1 .. Len(u)
      /\ u[p] = t[p]
  BY DEF Inserted, IsText
<1>2. PICK f : /\ StringFun(t, f, p)
               /\ StringEnds(t, p) = IF t[p] = "\"" THEN f[p + 1] ELSE {}
  BY <1>1, StringEndsAre
<1>3. PICK g : /\ StringFun(u, g, p)
               /\ StringEnds(u, p) = IF u[p] = "\"" THEN g[p + 1] ELSE {}
  BY <1>1, StringEndsAre
<1>4. SameEnds(f, g, q, p + 1)
  BY <1>2, <1>3, StringsBefore
<1>5. CASE t[p] = "\""
  <2>1. StringEnds(t, p) = f[p + 1] /\ StringEnds(u, p) = g[p + 1]
    BY <1>1, <1>2, <1>3, <1>5
  <2> QED BY <1>4, <2>1 DEF SameEnds
<1>6. CASE t[p] # "\""
  BY <1>1, <1>2, <1>3, <1>6
<1> QED BY <1>5, <1>6

(* A number before q, *)
LEMMA InsertedNumber ==
  ASSUME NEW t, NEW u, NEW q, Inserted(t, u, q), NEW p \in 1 .. q - 1
  PROVE  /\ \A e \in NumberEnds(t, p) : e <= q => e \in NumberEnds(u, p)
         /\ \A e \in NumberEnds(u, p) :
               (e <= q /\ e \in NumberEnds(t, p)) \/ \E x \in NumberEnds(t, p) : x > q
<1>1. /\ IsText(t) /\ IsText(u) /\ q \in Nat /\ q > 1 /\ q \in 1 .. Len(t)
      /\ q \in 1 .. Len(u) /\ u[q] = "U" /\ Len(t) \in Nat
  BY DEF Inserted, IsText
<1>2. Near(t, u, q) /\ Near(u, t, q)
  BY <1>1, InsertedNear
<1>3. ExpEnds(u, q) = {q} /\ Opt(u, FloatSuffix, q) = q
  <2>1. At(u, q) = "U"
    BY <1>1 DEF At
  <2> QED BY <1>1, <2>1, UIsLetter DEF ExpEnds, Opt
<1>4. ASSUME NEW x \in ExpEnds(t, q)
      PROVE  Opt(t, FloatSuffix, x) \in Nat /\ Opt(t, FloatSuffix, x) >= q
  <2>1. Span(t, q, x)
    BY <1>1, <1>4, ExpTakes
  <2>2. x \in Nat /\ x >= q
    BY <1>1, <2>1 DEF Span
  <2> QED BY <1>1, <2>2 DEF Opt
<1>5. q \in ExpEnds(t, q)
  BY DEF ExpEnds
<1>6. ASSUME NEW e \in NumberEnds(t, p), e <= q PROVE e \in NumberEnds(u, p)
  <2>1. CASE e \in NumberEnds(u, p)
    BY <2>1
  <2>2. CASE /\ \E x \in ExpEnds(t, q) : e = Opt(t, FloatSuffix, x)
             /\ \A x \in ExpEnds(u, q) : Opt(u, FloatSuffix, x) \in NumberEnds(u, p)
    <3>1. q \in NumberEnds(u, p)
      BY <1>3, <2>2
    <3>2. PICK x \in ExpEnds(t, q) : e = Opt(t, FloatSuffix, x)
      BY <2>2
    <3>3. e \in Nat /\ e >= q
      BY <1>4, <3>2
    <3>4. e = q
      BY <1>1, <1>6, <3>3
    <3> QED BY <3>1, <3>4
  <2> QED BY <1>2, <2>1, <2>2, NearNumber
<1>7. ASSUME NEW e \in NumberEnds(u, p)
      PROVE  (e <= q /\ e \in NumberEnds(t, p)) \/ \E x \in NumberEnds(t, p) : x > q
  <2>1. CASE e \in NumberEnds(t, p) /\ e <= q
    BY <2>1
  <2>2. CASE /\ \E x \in ExpEnds(u, q) : e = Opt(u, FloatSuffix, x)
             /\ \A x \in ExpEnds(t, q) : Opt(t, FloatSuffix, x) \in NumberEnds(t, p)
    <3>1. e = q
      BY <1>3, <2>2
    <3>2. Opt(t, FloatSuffix, q) \in NumberEnds(t, p)
      BY <1>5, <2>2
    <3>3. Opt(t, FloatSuffix, q) = q \/ Opt(t, FloatSuffix, q) > q
      <4>1. Opt(t, FloatSuffix, q) \in Nat /\ Opt(t, FloatSuffix, q) >= q
        BY <1>4, <1>5
      <4> QED BY <1>1, <4>1
    <3>4. CASE Opt(t, FloatSuffix, q) = q
      <4>1. q <= q
        BY <1>1
      <4> QED BY <3>1, <3>2, <3>4, <4>1
    <3>5. CASE Opt(t, FloatSuffix, q) > q
      BY <3>2, <3>5
    <3> QED BY <3>3, <3>4, <3>5
  <2> QED BY <1>2, <2>1, <2>2, NearNumber
<1> QED BY <1>6, <1>7

(* a character literal, *)
LEMMA InsertedCharLiteral ==
  ASSUME NEW t, NEW u, NEW q, Inserted(t, u, q), NEW p \in 1 .. q - 1
  PROVE  /\ \A e \in CharEnds(t, p) : e <= q => e \in CharEnds(u, p)
         /\ \A e \in CharEnds(u, p) :
               (e <= q /\ e \in CharEnds(t, p)) \/ \E x \in CharEnds(t, p) : x > q
<1>1. /\ IsText(u) /\ q \in Nat /\ q > 1 /\ p \in 1 .. Len(u)
  BY DEF Inserted, IsText
<1>2. Near(t, u, q) /\ Near(u, t, q)
  BY <1>1, InsertedNear
<1>3. ASSUME NEW e \in CharEnds(u, p)
      PROVE  (e <= q /\ e \in CharEnds(t, p)) \/ \E x \in CharEnds(t, p) : x > q
  <2>1. e \in Nat
    <3>1. Takes(u, p, e)
      BY <1>1, CharTakes
    <3> QED BY <3>1 DEF Takes, Span
  <2>2. CASE e <= q
    BY <1>2, <2>2, NearCharLiteral
  <2>3. CASE e > q
    BY <2>3, CharBehind
  <2> QED BY <1>1, <2>1, <2>2, <2>3
<1> QED BY <1>2, <1>3, NearCharLiteral

(* any literal. *)
LEMMA InsertedLiteral ==
  ASSUME NEW t, NEW u, NEW q, Inserted(t, u, q), NEW p \in 1 .. q - 1
  PROVE  /\ \A e \in LiteralEnds(t, p) : e <= q => e \in LiteralEnds(u, p)
         /\ \A e \in LiteralEnds(u, p) :
               (e <= q /\ e \in LiteralEnds(t, p)) \/ \E x \in LiteralEnds(t, p) : x > q
<1>1. q \in Nat /\ q > 1 /\ p \in 1 .. q /\ p < q
  BY DEF Inserted
<1>2. Near(t, u, q)
  BY <1>1, InsertedNear
<1>3. Opt(u, {"L"}, p) = Opt(t, {"L"}, p)
  BY <1>1, <1>2, NearOpt
<1>4. {p, Opt(t, {"L"}, p)} \subseteq 1 .. q - 1
  <2>1. u[p] = t[p] /\ (t[p] = "L" => p + 1 \in 1 .. q - 1)
    <3>1. "L" \in Alnum
      BY DEF Alnum, Alpha
    <3> QED BY <1>1, <1>2, <3>1, NearChar, NearNext
  <2> QED BY <2>1 DEF Opt
<1>5. ASSUME NEW e \in LiteralEnds(t, p), e <= q PROVE e \in LiteralEnds(u, p)
  <2>1. CASE e \in NumberEnds(t, p)
    BY <1>5, <2>1, InsertedNumber, LiteralIs
  <2>2. ASSUME NEW o \in {p, Opt(t, {"L"}, p)}, e \in CharEnds(t, o) \/ e \in StringEnds(t, o)
        PROVE  e \in LiteralEnds(u, p)
    <3>1. o \in 1 .. q - 1
      BY <1>4
    <3>2. e \in CharEnds(u, o) \/ e \in StringEnds(u, o)
      BY <1>5, <2>2, <3>1, InsertedCharLiteral, InsertedString
    <3> QED BY <1>3, <3>2, LiteralIs
  <2> QED BY <2>1, <2>2, LiteralIs
<1>6. ASSUME NEW e \in LiteralEnds(u, p)
      PROVE  (e <= q /\ e \in LiteralEnds(t, p)) \/ \E x \in LiteralEnds(t, p) : x > q
  <2>1. CASE e \in NumberEnds(u, p)
    <3>1. (e <= q /\ e \in NumberEnds(t, p)) \/ \E x \in NumberEnds(t, p) : x > q
      BY <2>1, InsertedNumber
    <3> QED BY <3>1, LiteralIs
  <2>2. ASSUME NEW o \in {p, Opt(t, {"L"}, p)}, e \in CharEnds(u, o) \/ e \in StringEnds(u, o)
        PROVE  (e <= q /\ e \in LiteralEnds(t, p)) \/ \E x \in LiteralEnds(t, p) : x > q
    <3>1. o \in 1 .. q - 1
      BY <1>4
    <3>2. \/ (e <= q /\ e \in CharEnds(t, o)) \/ \E x \in CharEnds(t, o) : x > q
          \/ (e <= q /\ e \in StringEnds(t, o)) \/ \E x \in StringEnds(t, o) : x > q
      BY <2>2, <3>1, InsertedCharLiteral, InsertedString
    <3> QED BY <3>2, LiteralIs
  <2> QED BY <1>3, <2>1, <2>2, LiteralIs
<1> QED BY <1>5, <1>6

(* What the rules match before q. *)
LEMMA InsertedKept ==
  ASSUME NEW t, NEW u, NEW q, Inserted(t, u, q), NEW p \in 1 .. q - 1,
         NEW e, NEW sym, Rule(t, p, e, sym), e <= q
  PROVE  Rule(u, p, e, sym)
<1>1. q > 1 /\ q \in Nat /\ p \in 1 .. q /\ p < q
  BY DEF Inserted
<1>2. Near(t, u, q)
  BY <1>1, InsertedNear
<1>3. u[p] = t[p]
  BY <1>1, <1>2, NearChar
<1>4. CASE t[p] \in Alpha /\ e = Run(t, Alnum, p) /\ sym = WordSym(t, p)
  <2>1. Run(u, Alnum, p) = Run(t, Alnum, p)
    BY <1>2, NearWord
  <2> QED BY <1>3, <1>4, <2>1 DEF Rule, WordSym
<1>5. CASE e \in LiteralEnds(t, p) /\ sym = "Other"
  BY <1>5, InsertedLiteral DEF Rule
<1>6. CASE e \in OpEnds(t, p) /\ sym = "Other"
  BY <1>2, <1>6, NearOp DEF Rule
<1>7. CASE e \in CommentEnds(t, p) /\ sym = "Comment"
  BY <1>2, <1>7, NearComment DEF Rule
<1>8. CASE e \in EOLEnds(t, p) /\ sym = "EOL"
  BY <1>2, <1>8, NearEOL DEF Rule
<1>9. CASE e \in BlankEnds(t, p) /\ sym = "WS"
  BY <1>2, <1>9, NearBlank DEF Rule
<1>10. CASE t[p] = "#" /\ e = Run(t, any, p) /\ sym = DirectiveSym(t, p)
  <2>1. u[p] = "#" /\ Run(u, any, p) = e /\ DirectiveSym(u, p) = sym
    BY <1>2, <1>10, NearDirective
  <2> QED BY <2>1 DEF Rule
<1>11. CASE t[p] \in DOMAIN Bracket /\ e = p + 1 /\ sym = Bracket[t[p]]
  BY <1>3, <1>11 DEF Rule
<1> QED BY <1>4, <1>5, <1>6, <1>7, <1>8, <1>9, <1>10, <1>11 DEF Rule

LEMMA InsertedFound ==
  ASSUME NEW t, NEW u, NEW q, Inserted(t, u, q), NEW p \in 1 .. q - 1,
         NEW e, NEW sym, Rule(u, p, e, sym)
  PROVE  \/ e <= q /\ Rule(t, p, e, sym)
         \/ \E x, y : Rule(t, p, x, y) /\ x > q
<1>1. /\ q > 1 /\ q \in Nat /\ p \in 1 .. q /\ p < q /\ IsText(t) /\ IsText(u)
      /\ p \in 1 .. Len(t) /\ p \in 1 .. Len(u)
  BY DEF Inserted, IsText
<1>2. Near(t, u, q) /\ Near(u, t, q)
  BY <1>1, InsertedNear
<1>3. u[p] = t[p]
  BY <1>1, <1>2, NearChar
<1>0. e \in Nat
  BY <1>1, RuleReaches
<1>4. CASE u[p] \in Alpha /\ e = Run(u, Alnum, p) /\ sym = WordSym(u, p)
  <2>1. Run(u, Alnum, p) = Run(t, Alnum, p) /\ Run(t, Alnum, p) \in p .. q - 1
    BY <1>2, NearWord
  <2>2. e <= q
    BY <1>1, <1>4, <2>1
  <2>3. WordSym(u, p) = WordSym(t, p)
    BY <1>3, <2>1 DEF WordSym
  <2> QED BY <1>3, <1>4, <2>1, <2>2, <2>3 DEF Rule
<1>5. CASE e \in LiteralEnds(u, p) /\ sym = "Other"
  <2>1. (e <= q /\ e \in LiteralEnds(t, p)) \/ \E x \in LiteralEnds(t, p) : x > q
    BY <1>5, InsertedLiteral
  <2>2. \A x \in LiteralEnds(t, p) : Rule(t, p, x, "Other")
    BY DEF Rule
  <2> QED BY <1>5, <2>1, <2>2
<1>6. CASE e \in OpEnds(u, p) /\ sym = "Other"
  BY <1>2, <1>6, NearOp DEF Rule
<1>7. CASE e \in CommentEnds(u, p) /\ sym = "Comment"
  <2>1. CASE e <= q
    BY <1>2, <1>7, <2>1, NearComment DEF Rule
  <2>2. CASE ~(e <= q)
    <3>1. PICK x : x \in CommentEnds(t, p)
      <4>1. CommentEnds(u, p) # {}
        BY <1>7
      <4>2. CommentEnds(t, p) # {}
        BY <1>2, <4>1, NearComments
      <4> QED BY <4>2
    <3>2. Rule(t, p, x, "Comment")
      BY <3>1 DEF Rule
    <3>3. x \in Nat
      BY <1>1, <3>2, RuleReaches
    <3>4. ~(x <= q)
      <4>1. x <= q => x \in CommentEnds(u, p)
        BY <1>2, <3>1, NearComment
      <4>2. x \in CommentEnds(u, p) => x = e
        BY <1>7, OneComment
      <4> QED BY <2>2, <4>1, <4>2
    <3>5. x > q
      BY <1>1, <3>3, <3>4
    <3> QED BY <3>2, <3>5
  <2> QED BY <2>1, <2>2
<1>8. CASE e \in EOLEnds(u, p) /\ sym = "EOL"
  BY <1>2, <1>8, NearEOL DEF Rule
<1>9. CASE e \in BlankEnds(u, p) /\ sym = "WS"
  BY <1>2, <1>9, NearBlank DEF Rule
<1>10. CASE u[p] = "#" /\ e = Run(u, any, p) /\ sym = DirectiveSym(u, p)
  <2>1. CASE e <= q
    <3>1. t[p] = "#" /\ Run(t, any, p) = e /\ DirectiveSym(t, p) = sym
      BY <1>2, <1>10, <2>1, NearDirective
    <3> QED BY <2>1, <3>1 DEF Rule
  <2>2. CASE ~(e <= q)
    <3>1. ~(Run(t, any, p) <= q)
      BY <1>2, <1>3, <1>10, <2>2, NearDirective
    <3>2. Rule(t, p, Run(t, any, p), DirectiveSym(t, p))
      BY <1>3, <1>10 DEF Rule
    <3>3. Run(t, any, p) \in Nat
      BY <1>1, <3>2, RuleReaches
    <3>4. Run(t, any, p) > q
      BY <1>1, <3>1, <3>3
    <3> QED BY <3>2, <3>4
  <2> QED BY <2>1, <2>2
<1>11. CASE u[p] \in DOMAIN Bracket /\ e = p + 1 /\ sym = Bracket[u[p]]
  <2>1. e <= q
    BY <1>1, <1>11
  <2> QED BY <1>3, <1>11, <2>1 DEF Rule
<1> QED BY <1>4, <1>5, <1>6, <1>7, <1>8, <1>9, <1>10, <1>11 DEF Rule

(* A token that ends before q or there. *)
LEMMA InsertedMatch ==
  ASSUME NEW t, NEW u, NEW q, Inserted(t, u, q), NEW p \in 1 .. q - 1,
         t[p] # "NUL", Match(t, p).end <= q
  PROVE  Match(u, p) = Match(t, p)
<1>1. /\ q \in Nat /\ IsText(t) /\ IsText(u) /\ p \in 1 .. Len(t) /\ p \in 1 .. Len(u)
      /\ u[p] = t[p]
  BY DEF Inserted, IsText
<1>2. CASE Longest(t, p, Match(t, p).end, Match(t, p).sym)
  <2>1. PICK e, sym : e = Match(t, p).end /\ sym = Match(t, p).sym
    OBVIOUS
  <2>2. Longest(t, p, e, sym) /\ e <= q
    BY <1>2, <2>1
  <2>3. e \in Nat
    BY <1>1, <2>2, RuleReaches DEF Longest
  <2>4. Rule(u, p, e, sym)
    BY <2>2, InsertedKept DEF Longest
  <2>5. ASSUME NEW f, NEW s, Rule(u, p, f, s) PROVE f <= e
    <3>1. ~(\E x, y : Rule(t, p, x, y) /\ x > q)
      <4> SUFFICES ASSUME NEW x, NEW y, Rule(t, p, x, y), x > q PROVE FALSE
        OBVIOUS
      <4>1. x \in Nat /\ x <= e
        BY <1>1, <2>2, RuleReaches DEF Longest
      <4> QED BY <1>1, <2>2, <2>3, <4>1
    <3>2. Rule(t, p, f, s)
      BY <2>5, <3>1, InsertedFound
    <3> QED BY <2>2, <3>2 DEF Longest
  <2>6. Longest(u, p, e, sym)
    BY <2>4, <2>5 DEF Longest
  <2>7. Match(u, p) = [end |-> e, sym |-> sym] /\ Match(t, p) = [end |-> e, sym |-> sym]
    BY <1>1, <2>2, <2>6, MatchIs
  <2> QED BY <2>7
<1>3. CASE \A e, sym : ~Rule(t, p, e, sym)
  <2>1. \A e, sym : ~Rule(u, p, e, sym)
    BY <1>3, InsertedFound
  <2>2. Match(t, p) = [end |-> p + 1, sym |-> "BAD"] /\ Match(u, p) = [end |-> p + 1, sym |-> "BAD"]
    BY <1>3, <2>1, MatchBad
  <2> QED BY <2>2
<1> QED BY <1>1, <1>2, <1>3, MatchCases

(* A letter begins a word, *)
LEMMA WordOnly ==
  ASSUME NEW t, IsText(t), NEW p \in 1 .. Len(t), t[p] \in Alpha, t[p] # "L",
         NEW e, NEW sym, Rule(t, p, e, sym)
  PROVE  e = Run(t, Alnum, p) /\ sym = WordSym(t, p)
<1>1. WordChar(t[p])
  BY DEF WordChar
<1>2. /\ ~LiteralChar(t[p]) /\ ~OpChar(t[p]) /\ ~EOLChar(t[p]) /\ ~BlankChar(t[p])
      /\ ~BracketChar(t[p]) /\ t[p] # "#" /\ t[p] # "/"
  BY <1>1, Starts
<1>3. e \notin LiteralEnds(t, p)
  BY <1>2, LiteralStart DEF LiteralChar
<1>4. e \notin OpEnds(t, p)
  <2>1. p \in Nat /\ At(t, p) = t[p]
    BY DEF At, IsText
  <2> QED BY <1>2, <2>1, OpIs DEF OpChar, OpChars
<1>5. e \notin CommentEnds(t, p)
  BY <1>2, CommentLength
<1>6. e \notin EOLEnds(t, p)
  BY <1>2 DEF EOLEnds, EOLChar
<1>7. e \notin BlankEnds(t, p)
  BY <1>2, Zenon DEF BlankEnds, BlankChar
<1> QED BY <1>2, <1>3, <1>4, <1>5, <1>6, <1>7 DEF Rule, BracketChar

(* and a name is a word. *)
LEMMA IdentIsWord ==
  ASSUME NEW t, IsText(t), NEW p \in 1 .. Len(t), t[p] # "NUL", Match(t, p).sym = "Ident"
  PROVE  t[p] \in Alpha /\ Match(t, p).end = Run(t, Alnum, p)
<1>1. Longest(t, p, Match(t, p).end, "Ident")
  <2>1. CASE Longest(t, p, Match(t, p).end, Match(t, p).sym)
    BY <2>1
  <2>2. CASE \A e, sym : ~Rule(t, p, e, sym)
    <3>1. Match(t, p) = [end |-> p + 1, sym |-> "BAD"]
      BY <2>2, MatchBad
    <3>2. Match(t, p).sym = "BAD"
      BY <3>1
    <3> QED BY <3>2
  <2> QED BY <2>1, <2>2, MatchCases
<1>2. Rule(t, p, Match(t, p).end, "Ident")
  BY <1>1 DEF Longest
<1>3. DirectiveSym(t, p) # "Ident"
  <2>1. \A w \in DOMAIN Directive : Directive[w] # "Ident"
    BY DEF Directive
  <2> QED BY <2>1 DEF DirectiveSym
<1>4. t[p] \in DOMAIN Bracket => Bracket[t[p]] # "Ident"
  BY DEF Bracket
<1> QED BY <1>2, <1>3, <1>4 DEF Rule

(* The name at q is longer by one. *)
LEMMA InsertedName ==
  ASSUME NEW t, NEW u, NEW q, Inserted(t, u, q), Match(t, q).sym = "Ident"
  PROVE  Match(u, q) = [end |-> Match(t, q).end + 1, sym |-> "Ident"]
<1>1. /\ IsText(t) /\ IsText(u) /\ q \in 1 .. Len(t) /\ q \in 1 .. Len(u) /\ q \in Nat
      /\ u[q] = "U" /\ t[q] \in Alpha /\ Len(t) \in Nat /\ Len(u) = Len(t) + 1
  BY DEF Inserted, IsText
<1>2. t[q] # "NUL" /\ t[q] \in Alnum /\ "U" \in Alnum /\ "U" \in Alpha /\ "U" # "L"
  BY <1>1, AlphaIn, UIsLetter
<1>3. PICK e : e = Run(t, Alnum, q)
  OBVIOUS
<1>4. Match(t, q).end = e
  BY <1>1, <1>2, <1>3, IdentIsWord
<1>5. e \in q .. Len(t) /\ t[e] \notin Alnum /\ \A r \in q .. e - 1 : t[r] \in Alnum
  BY <1>1, <1>3, NoNul, RunStops
<1>6. e > q
  BY <1>1, <1>2, <1>5
<1>7. Run(u, Alnum, q) = e + 1
  <2>1. Moved(t, u, q, Len(t), 1)
    BY InsertedMoved
  <2>2. \A r \in q .. Len(t) : u[r + 1] = t[r]
    BY DEF Inserted
  <2>3. u[e + 1] \notin Alnum /\ e + 1 \in q .. Len(u)
    BY <1>1, <1>5, <2>2
  <2>4. ASSUME NEW r \in q .. (e + 1) - 1 PROVE u[r] \in Alnum
    <3>1. CASE r = q
      BY <1>1, <1>2, <3>1
    <3>2. CASE r # q
      <4>1. r - 1 \in q .. e - 1 /\ r - 1 \in q .. Len(t) /\ (r - 1) + 1 = r
        BY <1>1, <1>5, <3>2
      <4> QED BY <1>5, <2>2, <4>1
    <3> QED BY <3>1, <3>2
  <2> QED BY <1>1, <2>3, <2>4, NoNul, RunIs
<1>8. WordSym(u, q) = "Ident"
  <2>1. e + 1 # q + 1
    BY <1>1, <1>5, <1>6
  <2> QED BY <1>7, <2>1 DEF WordSym
<1>9. Rule(u, q, e + 1, "Ident")
  BY <1>1, <1>2, <1>7, <1>8 DEF Rule
<1>10. ASSUME NEW f, NEW s, Rule(u, q, f, s) PROVE f <= e + 1
  <2>1. f = e + 1
    BY <1>1, <1>2, <1>7, <1>10, WordOnly
  <2> QED BY <1>1, <1>5, <2>1
<1>11. Longest(u, q, e + 1, "Ident")
  BY <1>9, <1>10 DEF Longest
<1> QED BY <1>1, <1>4, <1>11, MatchIs

-----------------------------------------------------------------------------
(* What Lexed promises: one token after another. *)
LexTurn(t, f, p) == IF Done(t, p) THEN <<EOFToken>>
                    ELSE <<TokenAt(t, p)>> \o f[Match(t, p).end]

LEMMA NotDone ==
  ASSUME NEW t, IsText(t), NEW p \in 1 .. Len(t) + 1
  PROVE  /\ ~Done(t, p) => p \in 1 .. Len(t) /\ t[p] # "NUL"
         /\ p \in 1 .. Len(t) /\ t[p] # "NUL" /\ (p > 1 => t[p - 1] # "NUL")
               => ~Done(t, p)
BY DEF Done, At, IsText

LEMMA MatchOn ==
  ASSUME NEW t, IsText(t), NEW p \in 1 .. Len(t), t[p] # "NUL"
  PROVE  /\ Match(t, p).end \in p + 1 .. Len(t) + 1
         /\ Match(t, p) = [end |-> Match(t, p).end, sym |-> Match(t, p).sym]
         /\ Match(t, p).sym \in Symbol \ {"EOF"}
BY Matched DEF IsMatch, Reaches

LEMMA TurnLocal ==
  ASSUME NEW t, IsText(t), NEW p \in 1 .. Len(t) + 1, NEW f, NEW g,
         \A r \in p + 1 .. Len(t) + 1 : f[r] = g[r]
  PROVE  LexTurn(t, f, p) = LexTurn(t, g, p)
<1>1. CASE Done(t, p)
  BY <1>1 DEF LexTurn
<1>2. CASE ~Done(t, p)
  <2>1. p \in 1 .. Len(t) /\ t[p] # "NUL"
    BY <1>2, NotDone
  <2>2. Match(t, p).end \in p + 1 .. Len(t) + 1
    BY <2>1, MatchOn
  <2>3. f[Match(t, p).end] = g[Match(t, p).end]
    BY <2>2
  <2> QED BY <1>2, <2>3 DEF LexTurn
<1> QED BY <1>1, <1>2

LEMMA LexedRecursion ==
  ASSUME NEW t, IsText(t)
  PROVE  \E f : f = [p \in 1 .. Len(t) + 1 |-> LexTurn(t, f, p)]
<1> DEFINE N == Len(t) + 1
           Is(f, a) == f = [p \in a .. N |-> LexTurn(t, f, p)]
           S == {m \in Nat : m <= N => \E f : Is(f, N + 1 - m)}
<1>1. N \in Nat /\ N >= 1
  BY DEF IsText
<1>2. 0 \in S
  <2>1. Is([p \in N + 1 .. N |-> {}], N + 1)
    BY <1>1
  <2>2. N + 1 - 0 = N + 1
    BY <1>1
  <2> HIDE DEF Is
  <2> QED BY <2>1, <2>2
<1>3. ASSUME NEW m \in Nat, m \in S PROVE m + 1 \in S
  <2> SUFFICES ASSUME m + 1 <= N PROVE \E f : Is(f, N + 1 - (m + 1))
    OBVIOUS
  <2> HIDE DEF N
  <2>1. PICK a \in Nat : a = N + 1 - (m + 1) /\ N + 1 - m = a + 1 /\ a \in 1 .. N
    BY <1>1
  <2>2. PICK f : Is(f, a + 1)
    <3>1. m <= N
      BY <1>1
    <3> QED BY <1>3, <2>1, <3>1
  <2> DEFINE g == [p \in a .. N |-> LexTurn(t, f, p)]
  <2>3. \A p \in a + 1 .. N : g[p] = f[p]
    <3>1. \A p \in a + 1 .. N : f[p] = LexTurn(t, f, p)
      BY <2>2
    <3>2. \A p \in a + 1 .. N : p \in a .. N
      BY <1>1
    <3> QED BY <3>1, <3>2
  <2> HIDE DEF g
  <2>4. ASSUME NEW p \in a .. N PROVE LexTurn(t, f, p) = LexTurn(t, g, p)
    <3>1. p \in 1 .. N /\ \A r \in p + 1 .. N : r \in a + 1 .. N
      BY <1>1, <2>1
    <3>2. \A r \in p + 1 .. N : f[r] = g[r]
      BY <2>3, <3>1
    <3> QED BY <3>1, <3>2, TurnLocal DEF N
  <2>5. Is(g, a)
    <3>1. [p \in a .. N |-> LexTurn(t, f, p)] = [p \in a .. N |-> LexTurn(t, g, p)]
      BY <2>4
    <3> QED BY <3>1 DEF g
  <2> HIDE DEF Is
  <2> QED BY <2>1, <2>5
<1> HIDE DEF S
<1>4. \A m \in Nat : m \in S
  BY <1>2, <1>3, NatInd
<1>5. N \in S /\ N <= N /\ N + 1 - N = 1
  BY <1>1, <1>4
<1>6. \E f : Is(f, 1)
  <2> HIDE DEF Is, N
  <2> QED BY <1>5 DEF S
<1> QED BY <1>6

LEMMA LexedIs ==
  ASSUME NEW t, IsText(t)
  PROVE  \E f : /\ Lexed(t) = f[1]
                /\ \A p \in 1 .. Len(t) + 1 : f[p] = LexTurn(t, f, p)
<1> DEFINE Is(f) == f = [p \in 1 .. Len(t) + 1 |-> LexTurn(t, f, p)]
           from == CHOOSE f : Is(f)
<1>1. Lexed(t) = from[1]
  BY DEF Lexed, LexTurn
<1>2. Is(from)
  <2>1. \E f : Is(f)
    BY LexedRecursion
  <2> HIDE DEF Is
  <2> QED BY <2>1
<1> HIDE DEF from
<1> QED BY <1>1, <1>2

-----------------------------------------------------------------------------
(* The loop of Tokenize has been at the places c, and has made of them the *)
(* tokens ts.                                                              *)
Path(t, ts, c) ==
    /\ c[1] = 1 /\ \A k \in 1 .. Len(ts) + 1 : c[k] \in 1 .. Len(t) + 1
    /\ \A j, k \in 1 .. Len(ts) + 1 : j < k => c[j] < c[k]
    /\ \A k \in 1 .. Len(ts) :
          /\ ~Done(t, c[k]) /\ ts[k] = TokenAt(t, c[k])
          /\ c[k + 1] = Match(t, c[k]).end

CutUpto(t, ts, e) == \E c : Path(t, ts, c) /\ c[Len(ts) + 1] = e

LEMMA EOFIsToken == EOFToken \in TokenType /\ EOFToken.sym = "EOF"
<1>1. <<>> \in Spelling
  BY DEF Spelling
<1> QED BY <1>1 DEF EOFToken, TokenType, Symbol

LEMMA Shifted ==
  ASSUME NEW T, NEW s \in Seq(T), NEW x \in T, NEW k \in 1 .. Len(s)
  PROVE  <<s[k]>> \o Append(SubSeq(s, k + 1, Len(s)), x)
            = Append(SubSeq(s, k, Len(s)), x)
<1> DEFINE n == Len(s)
           a == Append(SubSeq(s, k + 1, n), x)
           b == Append(SubSeq(s, k, n), x)
           h == <<s[k]>>
<1>1. n \in Nat /\ k \in Nat /\ k <= n /\ k >= 1
  OBVIOUS
<1>2. /\ a \in Seq(T) /\ Len(a) = n - k + 1 /\ a[n - k + 1] = x
      /\ \A j \in 1 .. n - k : a[j] = s[k + j]
  <2> DEFINE d == SubSeq(s, k + 1, n)
  <2>1. d \in Seq(T) /\ Len(d) = n - k /\ \A j \in 1 .. n - k : d[j] = s[k + j]
    <3>1. d \in Seq(T) /\ Len(d) = n - k
      BY <1>1
    <3>2. \A j \in 1 .. n - k : d[j] = s[(k + 1) + j - 1] /\ (k + 1) + j - 1 = k + j
      BY <1>1
    <3> QED BY <3>1, <3>2
  <2> HIDE DEF d
  <2>2. a = Append(d, x)
    BY DEF d
  <2> QED BY <1>1, <2>1, <2>2
<1>3. /\ b \in Seq(T) /\ Len(b) = n - k + 2 /\ b[n - k + 2] = x
      /\ \A j \in 1 .. n - k + 1 : b[j] = s[k + j - 1]
  <2> DEFINE d == SubSeq(s, k, n)
  <2>1. d \in Seq(T) /\ Len(d) = n - k + 1 /\ \A j \in 1 .. n - k + 1 : d[j] = s[k + j - 1]
    BY <1>1
  <2> HIDE DEF d
  <2>2. b = Append(d, x)
    BY DEF d
  <2> QED BY <1>1, <2>1, <2>2
<1>4. h \in Seq(T) /\ Len(h) = 1 /\ h[1] = s[k]
  OBVIOUS
<1> HIDE DEF a, b, h, n
<1>5. /\ h \o a \in Seq(T) /\ Len(h \o a) = n - k + 2
      /\ (h \o a)[1] = s[k]
      /\ \A j \in 1 .. n - k + 1 : (h \o a)[1 + j] = a[j]
  <2>1. /\ h \o a \in Seq(T) /\ Len(h \o a) = Len(h) + Len(a)
        /\ \A j \in 1 .. Len(h) : (h \o a)[j] = h[j]
        /\ \A j \in 1 .. Len(a) : (h \o a)[Len(h) + j] = a[j]
    <3>1. h \in Seq(T) /\ a \in Seq(T)
      BY <1>2, <1>4
    <3> QED BY <3>1, Concat
  <2> QED BY <1>1, <1>2, <1>4, <2>1
<1>6. ASSUME NEW j \in 1 .. n - k + 2 PROVE (h \o a)[j] = b[j]
  <2>1. CASE j = 1
    <3>1. 1 \in 1 .. n - k + 1 /\ k + 1 - 1 = k
      BY <1>1
    <3> QED BY <1>3, <1>5, <2>1, <3>1
  <2>2. CASE j # 1
    <3> DEFINE r == j - 1
    <3>1. r \in 1 .. n - k + 1 /\ 1 + r = j /\ k + j - 1 = k + r
      BY <1>1, <2>2
    <3> HIDE DEF r
    <3>2. (h \o a)[j] = a[r]
      BY <1>5, <3>1
    <3>3. CASE r = n - k + 1
      <4>1. j = n - k + 2
        BY <1>1, <3>1, <3>3
      <4> QED BY <1>2, <1>3, <3>2, <3>3, <4>1
    <3>4. CASE r # n - k + 1
      <4>1. r \in 1 .. n - k /\ j \in 1 .. n - k + 1
        BY <1>1, <3>1, <3>4
      <4>2. a[r] = s[k + r] /\ b[j] = s[k + j - 1]
        BY <1>2, <1>3, <4>1
      <4> QED BY <3>1, <3>2, <4>2
    <3> QED BY <3>3, <3>4
  <2> QED BY <2>1, <2>2
<1>7. h \o a = b
  BY <1>3, <1>5, <1>6
<1> QED BY <1>7 DEF h, a, b, n

LEMMA LexedPath ==
  ASSUME NEW t, IsText(t), NEW ts \in Seq(TokenType), NEW c, Path(t, ts, c),
         Done(t, c[Len(ts) + 1])
  PROVE  Lexed(t) = Append(ts, EOFToken)
<1> DEFINE n == Len(ts)
           Rest(k) == Append(SubSeq(ts, k, n), EOFToken)
<1>1. n \in Nat
  OBVIOUS
<1>2. PICK f : /\ Lexed(t) = f[1]
               /\ \A p \in 1 .. Len(t) + 1 : f[p] = LexTurn(t, f, p)
  BY LexedIs
<1>3. /\ c[1] = 1 /\ \A k \in 1 .. n + 1 : c[k] \in 1 .. Len(t) + 1
      /\ \A k \in 1 .. n : /\ ~Done(t, c[k]) /\ ts[k] = TokenAt(t, c[k])
                           /\ c[k + 1] = Match(t, c[k]).end
      /\ Done(t, c[n + 1])
  BY DEF Path
<1>4. f[c[n + 1]] = Rest(n + 1)
  <2>1. f[c[n + 1]] = <<EOFToken>>
    <3>1. n + 1 \in 1 .. n + 1
      BY <1>1
    <3> QED BY <1>2, <1>3, <3>1 DEF LexTurn
  <2>2. SubSeq(ts, n + 1, n) = <<>>
    OBVIOUS
  <2>3. Append(<<>>, EOFToken) = <<EOFToken>>
    OBVIOUS
  <2> QED BY <2>1, <2>2, <2>3
<1>5. ASSUME NEW k \in 1 .. n, f[c[k + 1]] = Rest(k + 1)
      PROVE  f[c[k]] = Rest(k)
  <2>1. k \in 1 .. n + 1
    BY <1>1
  <2>2. f[c[k]] = <<ts[k]>> \o f[c[k + 1]]
    BY <1>2, <1>3, <2>1 DEF LexTurn
  <2>3. <<ts[k]>> \o Rest(k + 1) = Rest(k)
    BY EOFIsToken, Shifted
  <2> QED BY <1>5, <2>2, <2>3
<1> HIDE DEF n, Rest
<1> DEFINE G == {m \in Nat : m <= n => f[c[n + 1 - m]] = Rest(n + 1 - m)}
<1>6. 0 \in G
  <2>1. n + 1 - 0 = n + 1
    BY <1>1
  <2> QED BY <1>4, <2>1
<1>7. ASSUME NEW m \in Nat, m \in G PROVE m + 1 \in G
  <2> SUFFICES ASSUME m + 1 <= n
               PROVE  f[c[n + 1 - (m + 1)]] = Rest(n + 1 - (m + 1))
    OBVIOUS
  <2>1. PICK k \in 1 .. n : k = n + 1 - (m + 1) /\ n + 1 - m = k + 1
    BY <1>1
  <2>2. f[c[k + 1]] = Rest(k + 1)
    <3>1. m <= n
      BY <1>1
    <3> QED BY <1>7, <2>1, <3>1
  <2>3. f[c[k]] = Rest(k)
    BY <1>5, <2>2
  <2> QED BY <2>1, <2>3
<1> HIDE DEF G
<1>8. \A m \in Nat : m \in G
  BY <1>6, <1>7, NatInd
<1>9. f[c[1]] = Rest(1)
  <2>1. n \in G /\ n <= n /\ n + 1 - n = 1
    BY <1>1, <1>8
  <2> QED BY <2>1 DEF G
<1>10. SubSeq(ts, 1, n) = ts
  BY DEF n
<1> QED BY <1>2, <1>3, <1>9, <1>10 DEF Rest

(* The text of the tokens is that of what they were made of. *)
LEMMA PathText ==
  ASSUME NEW t, IsText(t), NEW ts \in Seq(TokenType), NEW c, Path(t, ts, c)
  PROVE  Text(ts) = SubSeq(t, 1, c[Len(ts) + 1] - 1)
<1> DEFINE n == Len(ts)
           T == STRING \cup {"UNSAFE_", "Unsafe", "#ifdef", "#else", "#define",
                             "#endif", "line", "U"}
<1>1. n \in Nat /\ Len(t) \in Nat
  BY DEF IsText
<1>2. PICK f : TextUpto(f, ts) /\ Text(ts) = f[n]
  BY <1>1, TextMade
<1>3. f[0] = <<>> /\ \A k \in 1 .. n : f[k] = f[k - 1] \o ts[k].str
  <2>1. f = [k \in 0 .. n |-> IF k = 0 THEN <<>> ELSE f[k - 1] \o ts[k].str]
    BY <1>2 DEF TextUpto
  <2> HIDE DEF n
  <2>2. 0 \in 0 .. n /\ \A k \in 1 .. n : k \in 0 .. n /\ k # 0
    BY <1>1
  <2> QED BY <2>1, <2>2
<1>4. /\ c[1] = 1 /\ \A k \in 1 .. n + 1 : c[k] \in 1 .. Len(t) + 1
      /\ \A k \in 1 .. n : /\ ~Done(t, c[k]) /\ ts[k] = TokenAt(t, c[k])
                           /\ c[k + 1] = Match(t, c[k]).end
  BY DEF Path
<1>5. t \in Seq(T)
  BY DEF IsText, Spelling
<1> HIDE DEF T, n
<1> DEFINE G == {m \in Nat : m <= n => f[m] = SubSeq(t, 1, c[m + 1] - 1)}
<1>6. 0 \in G
  <2>1. SubSeq(t, 1, 0) = <<>>
    BY <1>5
  <2>2. c[0 + 1] - 1 = 0
    BY <1>4
  <2> QED BY <1>3, <2>1, <2>2
<1>7. ASSUME NEW m \in Nat, m \in G PROVE m + 1 \in G
  <2> SUFFICES ASSUME m + 1 <= n
               PROVE  f[m + 1] = SubSeq(t, 1, c[(m + 1) + 1] - 1)
    OBVIOUS
  <2>1. PICK k \in 1 .. n : k = m + 1 /\ k - 1 = m /\ m <= n
    BY <1>1
  <2>2. PICK p : p = c[k]
    OBVIOUS
  <2>3. PICK e : e = Match(t, p).end
    OBVIOUS
  <2>4. p \in 1 .. Len(t) /\ t[p] # "NUL"
    <3>1. k \in 1 .. n + 1
      BY <1>1
    <3> QED BY <1>4, <2>2, <3>1, NotDone
  <2>5. e \in p + 1 .. Len(t) + 1
    BY <2>3, <2>4, MatchOn
  <2>6. ts[k].str = SubSeq(t, p, e - 1)
    <3>1. ts[k] = TokenAt(t, p)
      BY <1>4, <2>2
    <3>2. TokenAt(t, p).str = SubSeq(t, p, Match(t, p).end - 1)
      BY DEF TokenAt
    <3> QED BY <2>3, <3>1, <3>2
  <2>7. f[k] = SubSeq(t, 1, p - 1) \o SubSeq(t, p, e - 1)
    <3>1. f[m] = SubSeq(t, 1, p - 1)
      BY <1>7, <2>1, <2>2
    <3> QED BY <1>3, <2>1, <2>6, <3>1
  <2>8. e - 1 \in p .. Len(t)
    BY <1>1, <2>4, <2>5
  <2>9. f[k] = SubSeq(t, 1, e - 1)
    BY <1>5, <2>4, <2>7, <2>8, Joined
  <2> QED BY <1>4, <2>1, <2>2, <2>3, <2>9
<1> HIDE DEF G
<1>8. \A m \in Nat : m \in G
  BY <1>6, <1>7, NatInd
<1>9. f[n] = SubSeq(t, 1, c[n + 1] - 1)
  <2>1. n \in G /\ n <= n
    BY <1>1, <1>8
  <2> QED BY <2>1 DEF G
<1> QED BY <1>2, <1>9 DEF n

(* One turn more. *)
LEMMA PathMore ==
  ASSUME NEW t, IsText(t), NEW ts \in Seq(TokenType), NEW c, Path(t, ts, c),
         NEW p, p = c[Len(ts) + 1], ~Done(t, p), NEW x, x = TokenAt(t, p)
  PROVE  \E d : Path(t, Append(ts, x), d) /\ d[Len(ts) + 2] = Match(t, p).end
<1> DEFINE n == Len(ts)
           ns == Append(ts, x)
<1>1. n \in Nat /\ Len(t) \in Nat
  BY DEF IsText
<1>2. Len(ns) = n + 1 /\ ns[n + 1] = x /\ \A k \in 1 .. n : ns[k] = ts[k]
  OBVIOUS
<1>3. PICK e : e = Match(t, p).end
  OBVIOUS
<1>4. /\ c[1] = 1 /\ \A k \in 1 .. n + 1 : c[k] \in 1 .. Len(t) + 1
      /\ \A j, k \in 1 .. n + 1 : j < k => c[j] < c[k]
      /\ \A k \in 1 .. n : /\ ~Done(t, c[k]) /\ ts[k] = TokenAt(t, c[k])
                           /\ c[k + 1] = Match(t, c[k]).end
  BY DEF Path
<1>5. p \in 1 .. Len(t) /\ t[p] # "NUL"
  <2>1. p \in 1 .. Len(t) + 1
    <3>1. n + 1 \in 1 .. n + 1
      BY <1>1
    <3> QED BY <1>4, <3>1
  <2> QED BY <2>1, NotDone
<1>6. e \in p + 1 .. Len(t) + 1
  BY <1>3, <1>5, MatchOn
<1>7. p = c[n + 1]
  OBVIOUS
<1> HIDE DEF n, ns
<1> DEFINE d == [k \in 1 .. n + 2 |-> IF k <= n + 1 THEN c[k] ELSE e]
<1>8. \A k \in 1 .. n + 1 : d[k] = c[k]
  BY <1>1
<1>9. d[n + 2] = e
  BY <1>1
<1> HIDE DEF d
<1>10. d[1] = 1
  BY <1>1, <1>4, <1>8
<1>11. ASSUME NEW k \in 1 .. Len(ns) + 1 PROVE d[k] \in 1 .. Len(t) + 1
  <2>1. k \in 1 .. n + 1 \/ k = n + 2
    BY <1>1, <1>2
  <2>2. e \in 1 .. Len(t) + 1
    BY <1>1, <1>5, <1>6
  <2> QED BY <1>4, <1>8, <1>9, <2>1, <2>2
<1>12. ASSUME NEW j \in 1 .. Len(ns) + 1, NEW k \in 1 .. Len(ns) + 1, j < k
       PROVE  d[j] < d[k]
  <2>1. j \in 1 .. n + 1 /\ (k \in 1 .. n + 1 \/ k = n + 2)
    BY <1>1, <1>2, <1>12
  <2>2. CASE k \in 1 .. n + 1
    BY <1>4, <1>8, <1>12, <2>1, <2>2
  <2>3. CASE k = n + 2
    <3>1. c[j] <= p
      <4>1. CASE j = n + 1
        BY <1>5, <1>7, <4>1
      <4>2. CASE j # n + 1
        <5>1. j < n + 1 /\ n + 1 \in 1 .. n + 1
          BY <1>1, <2>1, <4>2
        <5>2. c[j] < c[n + 1] /\ c[j] \in 1 .. Len(t) + 1
          BY <1>4, <2>1, <5>1
        <5> QED BY <1>5, <1>7, <5>2
      <4> QED BY <4>1, <4>2
    <3>2. c[j] \in 1 .. Len(t) + 1 /\ d[j] = c[j] /\ d[k] = e
      BY <1>4, <1>8, <1>9, <2>1, <2>3
    <3> QED BY <1>5, <1>6, <3>1, <3>2
  <2> QED BY <2>1, <2>2, <2>3
<1>13. ASSUME NEW k \in 1 .. Len(ns)
       PROVE  /\ ~Done(t, d[k]) /\ ns[k] = TokenAt(t, d[k])
              /\ d[k + 1] = Match(t, d[k]).end
  <2>1. CASE k \in 1 .. n
    <3>1. k \in 1 .. n + 1 /\ k + 1 \in 1 .. n + 1
      BY <1>1, <2>1
    <3> QED BY <1>2, <1>4, <1>8, <2>1, <3>1
  <2>2. CASE k = n + 1
    <3>1. k \in 1 .. n + 1 /\ k + 1 = n + 2
      BY <1>1, <2>2
    <3>2. d[k] = p /\ d[k + 1] = e
      BY <1>7, <1>8, <1>9, <2>2, <3>1
    <3> QED BY <1>2, <1>3, <2>2, <3>2
  <2> QED BY <1>1, <1>2, <2>1, <2>2
<1>14. Path(t, ns, d)
  BY <1>10, <1>11, <1>12, <1>13 DEF Path
<1> QED BY <1>3, <1>9, <1>14 DEF n, ns

(* What SubSeq gives. *)
LEMMA PieceOf ==
  ASSUME NEW T, NEW s \in Seq(T), NEW p \in 1 .. Len(s), NEW e \in p .. Len(s)
  PROVE  /\ SubSeq(s, p, e) \in Seq(T) /\ Len(SubSeq(s, p, e)) = e - p + 1
         /\ \A k \in 1 .. e - p + 1 : SubSeq(s, p, e)[k] = s[p + k - 1]
OBVIOUS

(* The same characters make the same token. *)
LEMMA SamePiece ==
  ASSUME NEW T, NEW s \in Seq(T), NEW u \in Seq(T), NEW p \in 1 .. Len(s),
         NEW e \in p .. Len(s), NEW d \in Int, p + d \in 1 .. Len(u),
         e + d \in 1 .. Len(u), \A r \in p .. e : u[r + d] = s[r]
  PROVE  SubSeq(u, p + d, e + d) = SubSeq(s, p, e)
<1> DEFINE a == SubSeq(s, p, e)
           b == SubSeq(u, p + d, e + d)
<1>1. a \in Seq(T) /\ Len(a) = e - p + 1 /\ \A k \in 1 .. e - p + 1 : a[k] = s[p + k - 1]
  BY PieceOf
<1>2. b \in Seq(T) /\ Len(b) = (e + d) - (p + d) + 1
      /\ \A k \in 1 .. (e + d) - (p + d) + 1 : b[k] = u[(p + d) + k - 1]
  <2>1. PICK x \in 1 .. Len(u) : x = p + d
    OBVIOUS
  <2>2. PICK y \in x .. Len(u) : y = e + d
    BY <2>1
  <2>3. /\ SubSeq(u, x, y) \in Seq(T) /\ Len(SubSeq(u, x, y)) = y - x + 1
        /\ \A k \in 1 .. y - x + 1 : SubSeq(u, x, y)[k] = u[x + k - 1]
    BY PieceOf
  <2> HIDE DEF a
  <2> QED BY <2>1, <2>2, <2>3
<1> HIDE DEF a, b
<1>3. (e + d) - (p + d) + 1 = e - p + 1 /\ p \in Nat /\ e \in Nat
  OBVIOUS
<1>4. ASSUME NEW k \in 1 .. e - p + 1 PROVE b[k] = a[k]
  <2>1. p + k - 1 \in p .. e /\ (p + d) + k - 1 = (p + k - 1) + d
    BY <1>3
  <2>2. b[k] = u[(p + d) + k - 1]
    BY <1>2, <1>3
  <2> QED BY <1>1, <2>1, <2>2
<1>5. a = b
  BY <1>1, <1>2, <1>3, <1>4
<1> QED BY <1>5 DEF a, b

LEMMA SameToken ==
  ASSUME NEW t, NEW u, IsText(t), IsText(u), NEW p \in 1 .. Len(t), t[p] # "NUL",
         NEW d \in Int, p + d \in 1 .. Len(u), u[p + d] # "NUL",
         Match(u, p + d) = [end |-> Match(t, p).end + d, sym |-> Match(t, p).sym],
         \A r \in p .. Match(t, p).end - 1 : u[r + d] = t[r]
  PROVE  TokenAt(u, p + d) = TokenAt(t, p) /\ Match(u, p + d).end = Match(t, p).end + d
<1> DEFINE T == STRING \cup {"UNSAFE_", "Unsafe", "#ifdef", "#else", "#define",
                             "#endif", "line", "U"}
<1>1. t \in Seq(T) /\ u \in Seq(T) /\ Len(t) \in Nat /\ Len(u) \in Nat
  BY DEF IsText, Spelling
<1> HIDE DEF T
<1>2. PICK e : e = Match(t, p).end
  OBVIOUS
<1>3. e \in p + 1 .. Len(t) + 1
  BY <1>2, MatchOn
<1>4. Match(u, p + d).end = e + d /\ Match(u, p + d).sym = Match(t, p).sym
  BY <1>2
<1>5. e + d \in (p + d) + 1 .. Len(u) + 1
  BY <1>4, MatchOn
<1>6. SubSeq(u, p + d, (e - 1) + d) = SubSeq(t, p, e - 1)
  <2>1. e - 1 \in p .. Len(t) /\ (e - 1) + d \in 1 .. Len(u)
    <3>1. p \in Nat /\ e \in Nat /\ d \in Int /\ p + d \in Nat /\ p + d >= 1
      BY <1>1, <1>3
    <3>2. e >= p + 1 /\ e <= Len(t) + 1
      BY <1>3
    <3>3. e + d >= (p + d) + 1 /\ e + d <= Len(u) + 1
      BY <1>5
    <3> QED BY ONLY <1>1, <3>1, <3>2, <3>3
  <2>2. \A r \in p .. e - 1 : u[r + d] = t[r]
    BY <1>2
  <2> QED BY <1>1, <2>1, <2>2, SamePiece
<1>7. (e - 1) + d = (e + d) - 1
  BY <1>3
<1>8. TokenAt(u, p + d) = [sym |-> Match(t, p).sym, str |-> SubSeq(u, p + d, (e + d) - 1)]
  BY <1>4 DEF TokenAt
<1>9. TokenAt(t, p) = [sym |-> Match(t, p).sym, str |-> SubSeq(t, p, e - 1)]
  BY <1>2 DEF TokenAt
<1> QED BY <1>2, <1>4, <1>6, <1>7, <1>8, <1>9

(* What stands behind the end of the lexing makes no difference. *)
Cut(t, p) == Append(SubSeq(t, 1, p - 1), "NUL")

LEMMA PathCut ==
  ASSUME NEW t, IsText(t), NEW ts \in Seq(TokenType), NEW c, Path(t, ts, c),
         NEW p, p = c[Len(ts) + 1], Done(t, p),
         NEW u, u = Cut(t, p)
  PROVE  /\ IsText(u) /\ Path(u, ts, c) /\ Done(u, p)
         /\ p \in Nat /\ Len(u) = p /\ u[p] = "NUL"
<1> DEFINE n == Len(ts)
           T == STRING \cup {"UNSAFE_", "Unsafe", "#ifdef", "#else", "#define",
                             "#endif", "line", "U"}
<1>1. n \in Nat /\ Len(t) \in Nat /\ Len(t) > 0 /\ t[Len(t)] = "NUL"
  BY DEF IsText
<1>2. t \in Seq(T)
  BY DEF IsText, Spelling
<1> HIDE DEF T
<1>3. /\ c[1] = 1 /\ \A k \in 1 .. n + 1 : c[k] \in 1 .. Len(t) + 1
      /\ \A j, k \in 1 .. n + 1 : j < k => c[j] < c[k]
      /\ \A k \in 1 .. n : /\ ~Done(t, c[k]) /\ ts[k] = TokenAt(t, c[k])
                           /\ c[k + 1] = Match(t, c[k]).end
  BY DEF Path
<1>4. p = c[n + 1] /\ p \in 1 .. Len(t) + 1 /\ p \in Nat
  <2>1. n + 1 \in 1 .. n + 1
    BY <1>1
  <2> QED BY <1>3, <2>1
<1> HIDE DEF n
<1>5. /\ u \in Seq(T) /\ Len(u) = p /\ u[p] = "NUL"
      /\ \A r \in 1 .. p - 1 : u[r] = t[r]
  <2> DEFINE s == SubSeq(t, 1, p - 1)
  <2>1. s \in Seq(T) /\ Len(s) = p - 1 /\ \A r \in 1 .. p - 1 : s[r] = t[r]
    BY <1>1, <1>2, <1>4
  <2>2. "NUL" \in T
    <3>1. t[Len(t)] \in T
      BY <1>1, <1>2
    <3> QED BY <1>1, <3>1
  <2> HIDE DEF s
  <2>3. u = Append(s, "NUL")
    BY DEF s, Cut
  <2>4. Append(s, "NUL") \in Seq(T) /\ Len(Append(s, "NUL")) = p
        /\ Append(s, "NUL")[p] = "NUL"
    <3>1. Len(s) + 1 = p
      BY <1>4, <2>1
    <3>2. PICK x : x = "NUL"
      OBVIOUS
    <3>3. x \in T /\ s \in Seq(T)
      BY <2>1, <2>2, <3>2
    <3>4. /\ Append(s, x) \in Seq(T) /\ Len(Append(s, x)) = Len(s) + 1
          /\ Append(s, x)[Len(s) + 1] = x
      BY ONLY <3>3
    <3> QED BY <3>1, <3>2, <3>4
  <2>5. \A r \in 1 .. p - 1 : Append(s, "NUL")[r] = s[r]
    BY <2>1
  <2> QED BY <2>1, <2>3, <2>4, <2>5
<1>6. IsText(u)
  BY <1>4, <1>5 DEF IsText, Spelling, T
<1>7. Done(u, p)
  BY <1>4, <1>5 DEF Done, At
<1>8. PICK z : /\ z \in 1 .. Len(t) /\ z \in 1 .. Len(u) /\ t[z] = "NUL" /\ u[z] = "NUL"
               /\ (z = p \/ z = p - 1)
  <2>1. CASE p > 1 /\ t[p - 1] = "NUL"
    <3>1. p - 1 \in 1 .. Len(t) /\ p - 1 \in 1 .. Len(u) /\ p - 1 \in 1 .. p - 1
      BY <1>1, <1>4, <1>5, <2>1
    <3> QED BY <1>5, <2>1, <3>1
  <2>2. CASE ~(p > 1 /\ t[p - 1] = "NUL")
    <3>1. At(t, p) = "NUL"
      BY <2>2 DEF Done
    <3>2. p # Len(t) + 1
      <4>1. p = Len(t) + 1 => p > 1 /\ p - 1 = Len(t)
        BY <1>1
      <4> QED BY <1>1, <2>2, <4>1
    <3>3. p \in 1 .. Len(t) /\ p \in 1 .. Len(u)
      BY <1>1, <1>4, <1>5, <3>2
    <3>4. t[p] = "NUL"
      BY <3>1, <3>3 DEF At
    <3> QED BY <1>5, <3>3, <3>4
  <2> QED BY <2>1, <2>2
<1>9. ASSUME NEW k \in 1 .. n
      PROVE  /\ c[k] \in 1 .. Len(u) + 1 /\ ~Done(u, c[k])
             /\ TokenAt(u, c[k]) = TokenAt(t, c[k])
             /\ Match(u, c[k]).end = Match(t, c[k]).end
  <2>1. PICK q : q = c[k]
    OBVIOUS
  <2>2. k \in 1 .. n + 1 /\ k + 1 \in 1 .. n + 1 /\ n + 1 \in 1 .. n + 1 /\ k < n + 1
    BY <1>1
  <2>3. q \in 1 .. Len(t) + 1 /\ q < p /\ ~Done(t, q)
    BY <1>3, <1>4, <2>1, <2>2
  <2>4. q \in 1 .. Len(t) /\ t[q] # "NUL" /\ (q > 1 => t[q - 1] # "NUL")
    BY <2>3, NotDone DEF Done
  <2>5. PICK e : e = Match(t, q).end
    OBVIOUS
  <2>6. e \in q + 1 .. Len(t) + 1 /\ Match(t, q) = [end |-> e, sym |-> Match(t, q).sym]
    BY <2>4, <2>5, MatchOn
  <2>7. e = c[k + 1] /\ e <= p
    <3>1. e = c[k + 1]
      BY <1>3, <2>1, <2>5
    <3>2. k + 1 = n + 1 \/ k + 1 < n + 1
      BY <1>1
    <3>3. c[k + 1] = p \/ c[k + 1] < p
      BY <1>3, <1>4, <2>2, <3>2
    <3> QED BY <1>4, <2>6, <3>1, <3>3
  <2>8. q \in 1 .. p - 1 /\ q \in 1 .. Len(u) /\ u[q] = t[q] /\ u[q] # "NUL"
        /\ (q > 1 => u[q - 1] = t[q - 1])
    <3>1. q \in 1 .. p - 1 /\ (q > 1 => q - 1 \in 1 .. p - 1)
      BY <1>4, <2>3
    <3> QED BY <1>4, <1>5, <2>4, <3>1
  <2>9. ~Done(u, q)
    <3>1. q \in 1 .. Len(u) + 1 /\ (q > 1 => u[q - 1] # "NUL")
      BY <1>4, <1>5, <2>4, <2>8
    <3> QED BY <1>6, <2>8, <3>1, NotDone
  <2>10. Moved(t, u, q, z, 0)
    <3>1. q \in 1 .. z
      <4>1. q # z
        BY <1>8, <2>4
      <4>2. z = p \/ z = p - 1
        BY <1>8
      <4>3. q \in 1 .. p - 1
        BY <2>8
      <4> QED BY <1>4, <4>1, <4>2, <4>3
    <3>2. \A r \in q .. z : u[r + 0] = t[r]
      <4> SUFFICES ASSUME NEW r \in q .. z PROVE u[r + 0] = t[r]
        OBVIOUS
      <4>1. r + 0 = r /\ (r = z \/ r \in 1 .. p - 1)
        BY <1>4, <1>8, <2>8
      <4> QED BY <1>5, <1>8, <4>1
    <3>3. 0 \in Int /\ q + 0 = q /\ z + 0 = z
      BY <1>1, <1>8, <2>8
    <3> QED BY <1>8, <2>8, <3>1, <3>2, <3>3 DEF Moved
  <2>11. q + 0 = q /\ e + 0 = e
    BY <2>4, <2>6
  <2>12. Match(u, q + 0) = [end |-> Match(t, q).end + 0, sym |-> Match(t, q).sym]
    BY <1>6, <2>4, <2>10, MovedMatch
  <2>13. \A r \in q .. Match(t, q).end - 1 : u[r + 0] = t[r]
    <3> SUFFICES ASSUME NEW r \in q .. e - 1 PROVE u[r + 0] = t[r]
      BY <2>5
    <3>1. r + 0 = r /\ r \in 1 .. p - 1
      <4>1. q \in 1 .. p - 1 /\ e \in q + 1 .. Len(t) + 1 /\ e <= p
        BY <2>6, <2>7, <2>8
      <4> QED BY <1>4, <4>1
    <3> QED BY <1>5, <3>1
  <2>14. TokenAt(u, q + 0) = TokenAt(t, q) /\ Match(u, q + 0).end = Match(t, q).end + 0
    <3>1. 0 \in Int /\ q + 0 \in 1 .. Len(u) /\ u[q + 0] # "NUL"
      <4>1. 0 \in Int
        OBVIOUS
      <4>2. q \in 1 .. Len(u) /\ u[q] # "NUL" /\ q + 0 = q
        BY <2>8, <2>11
      <4> QED BY ONLY <4>1, <4>2, Zenon
    <3> QED BY <1>6, <2>4, <2>12, <2>13, <3>1, SameToken
  <2>15. q \in 1 .. Len(u) + 1
    BY <1>4, <1>5, <2>8
  <2> QED BY <2>1, <2>5, <2>9, <2>11, <2>14, <2>15
<1>10. ASSUME NEW k \in 1 .. n + 1 PROVE c[k] \in 1 .. Len(u) + 1
  <2>1. CASE k = n + 1
    BY <1>4, <1>5, <2>1
  <2>2. CASE k # n + 1
    <3>1. k \in 1 .. n
      BY <1>1, <2>2
    <3> QED BY <1>9, <3>1
  <2> QED BY <2>1, <2>2
<1>11. Path(u, ts, c)
  BY <1>3, <1>9, <1>10 DEF Path, n
<1> QED BY <1>4, <1>5, <1>6, <1>7, <1>11

LEMMA InsertedExists ==
  ASSUME NEW t, IsText(t), NEW q \in 1 .. Len(t), t[q] \in Alpha,
         q > 1 => t[q - 1] \notin Alnum
  PROVE  \E u : Inserted(t, u, q)
<1> DEFINE T == STRING \cup {"UNSAFE_", "Unsafe", "#ifdef", "#else", "#define",
                             "#endif", "line", "U"}
           u == [r \in 1 .. Len(t) + 1 |->
                   IF r < q THEN t[r] ELSE IF r = q THEN "U" ELSE t[r - 1]]
<1>1. Len(t) \in Nat /\ Len(t) > 0 /\ t[Len(t)] = "NUL" /\ q \in Nat
  BY DEF IsText
<1>2. t \in Seq(T) /\ "U" \in T
  BY DEF IsText, Spelling
<1> HIDE DEF T
<1>3. \A r \in 1 .. Len(t) : t[r] \in T
  BY <1>1, <1>2
<1>4. /\ \A r \in 1 .. q - 1 : u[r] = t[r]
      /\ u[q] = "U" /\ \A r \in q .. Len(t) : u[r + 1] = t[r]
  <2>1. \A r \in 1 .. q - 1 : r \in 1 .. Len(t) + 1 /\ r < q
    BY <1>1
  <2>2. q \in 1 .. Len(t) + 1 /\ ~(q < q)
    BY <1>1
  <2>3. \A r \in q .. Len(t) : r + 1 \in 1 .. Len(t) + 1 /\ ~(r + 1 < q)
                               /\ r + 1 # q /\ (r + 1) - 1 = r
    BY <1>1
  <2> QED BY <2>1, <2>2, <2>3
<1>5. u \in Seq(T) /\ Len(u) = Len(t) + 1
  <2>1. ASSUME NEW r \in 1 .. Len(t) + 1 PROVE u[r] \in T
    <3>1. r \in 1 .. q - 1 \/ r = q \/ (r - 1 \in q .. Len(t) /\ (r - 1) + 1 = r)
      BY <1>1
    <3>2. CASE r \in 1 .. q - 1
      <4>1. r \in 1 .. Len(t)
        BY <1>1, <3>2
      <4> QED BY <1>3, <1>4, <3>2, <4>1
    <3>3. CASE r = q
      BY <1>2, <1>4, <3>3
    <3>4. CASE r - 1 \in q .. Len(t) /\ (r - 1) + 1 = r
      <4>1. r - 1 \in 1 .. Len(t)
        BY <1>1, <3>4
      <4>2. u[(r - 1) + 1] = t[r - 1]
        BY <1>4, <3>4
      <4> QED BY <1>3, <3>4, <4>1, <4>2
    <3> QED BY <3>1, <3>2, <3>3, <3>4
  <2>2. u = [r \in 1 .. Len(t) + 1 |-> u[r]]
    OBVIOUS
  <2> HIDE DEF u
  <2>3. PICK n \in Nat : n = Len(t) + 1
    BY <1>1
  <2>4. u \in [1 .. n -> T]
    BY <2>1, <2>2, <2>3
  <2>5. u \in Seq(T) /\ Len(u) = n
    BY <2>4
  <2> QED BY <2>3, <2>5
<1> HIDE DEF u
<1>6. u[Len(t) + 1] = "NUL"
  <2>1. Len(t) \in q .. Len(t)
    BY <1>1
  <2> QED BY <1>1, <1>4, <2>1
<1>7. IsText(u)
  BY <1>1, <1>5, <1>6 DEF IsText, Spelling, T
<1> QED BY <1>4, <1>5, <1>7 DEF Inserted

(* The text of a longer name. *)
LEMMA LongerPiece ==
  ASSUME NEW T, NEW s \in Seq(T), NEW u \in Seq(T), NEW q \in 1 .. Len(s),
         NEW e \in q + 1 .. Len(s), Len(u) = Len(s) + 1, NEW x \in T, u[q] = x,
         \A r \in q .. Len(s) : u[r + 1] = s[r]
  PROVE  SubSeq(u, q, e) = <<x>> \o SubSeq(s, q, e - 1)
<1> DEFINE a == SubSeq(s, q, e - 1)
           b == SubSeq(u, q, e)
           h == <<x>>
<1>0. Len(s) \in Nat /\ q \in Nat /\ e \in Nat /\ e > q /\ e <= Len(s)
  OBVIOUS
<1>1. a \in Seq(T) /\ Len(a) = e - q /\ \A k \in 1 .. e - q : a[k] = s[q + k - 1]
  <2>1. PICK f \in q .. Len(s) : f = e - 1
    BY <1>0
  <2>2. /\ SubSeq(s, q, f) \in Seq(T) /\ Len(SubSeq(s, q, f)) = f - q + 1
        /\ \A k \in 1 .. f - q + 1 : SubSeq(s, q, f)[k] = s[q + k - 1]
    BY PieceOf
  <2>3. f - q + 1 = e - q
    BY <1>0, <2>1
  <2> QED BY <2>1, <2>2, <2>3
<1>2. b \in Seq(T) /\ Len(b) = e - q + 1 /\ \A k \in 1 .. e - q + 1 : b[k] = u[q + k - 1]
  <2>1. q \in 1 .. Len(u) /\ e \in q .. Len(u)
    BY <1>0
  <2> QED BY <2>1, PieceOf
<1>3. h \in Seq(T) /\ Len(h) = 1 /\ h[1] = x
  OBVIOUS
<1> HIDE DEF a, b, h
<1>4. /\ h \o a \in Seq(T) /\ Len(h \o a) = e - q + 1 /\ (h \o a)[1] = x
      /\ \A k \in 1 .. e - q : (h \o a)[1 + k] = a[k]
  <2>1. /\ h \o a \in Seq(T) /\ Len(h \o a) = Len(h) + Len(a)
        /\ \A j \in 1 .. Len(h) : (h \o a)[j] = h[j]
        /\ \A j \in 1 .. Len(a) : (h \o a)[Len(h) + j] = a[j]
    <3>1. h \in Seq(T) /\ a \in Seq(T)
      BY <1>1, <1>3
    <3> QED BY <3>1, Concat
  <2>2. Len(h) = 1 /\ h[1] = x /\ 1 \in 1 .. Len(h)
    BY <1>3
  <2>3. Len(a) = e - q
    BY <1>1
  <2>4. Len(h) + Len(a) = e - q + 1
    BY <1>0, <2>2, <2>3
  <2>5. (h \o a)[1] = x
    BY <2>1, <2>2
  <2>6. \A k \in 1 .. e - q : (h \o a)[1 + k] = a[k]
    BY <2>1, <2>2, <2>3
  <2> QED BY <2>1, <2>4, <2>5, <2>6
<1>5. ASSUME NEW k \in 1 .. e - q + 1 PROVE b[k] = (h \o a)[k]
  <2>1. CASE k = 1
    <3>1. q + 1 - 1 = q
      BY <1>0
    <3> QED BY <1>2, <1>4, <2>1, <3>1
  <2>2. CASE k # 1
    <3>1. PICK j \in 1 .. e - q : k = 1 + j /\ q + k - 1 = (q + j - 1) + 1
                                /\ q + j - 1 \in q .. Len(s)
      <4>1. k - 1 \in 1 .. e - q /\ k = 1 + (k - 1) /\ q + k - 1 = (q + (k - 1) - 1) + 1
            /\ q + (k - 1) - 1 \in q .. Len(s)
        BY <1>0, <2>2
      <4> QED BY <4>1
    <3>2. b[k] = u[q + k - 1]
      BY <1>2
    <3>3. u[(q + j - 1) + 1] = s[q + j - 1]
      BY <3>1
    <3> QED BY <1>1, <1>4, <3>1, <3>2, <3>3
  <2> QED BY <2>1, <2>2
<1>6. b = h \o a
  <2>1. PICK z : z = h \o a
    OBVIOUS
  <2>2. PICK m \in Nat : m = e - q + 1
    BY <1>0
  <2>3. b \in Seq(T) /\ Len(b) = m /\ z \in Seq(T) /\ Len(z) = m
    BY <1>2, <1>4, <2>1, <2>2
  <2>4. \A k \in 1 .. m : b[k] = z[k]
    BY <1>5, <2>1, <2>2
  <2>5. b = z
    BY <2>3, <2>4
  <2> QED BY <2>1, <2>5
<1> QED BY <1>6 DEF a, b, h

(* Where the tokens end when the name at the k-th place is longer. *)
Longer(ts, k) == [ts EXCEPT ![k].str = <<"U">> \o @]

LEMMA PathInserted ==
  ASSUME NEW t, IsText(t), NEW ts \in Seq(TokenType), NEW c, Path(t, ts, c),
         NEW k \in 1 .. Len(ts), ts[k].sym = "Ident",
         c[Len(ts) + 1] = Len(t),
         NEW u, Inserted(t, u, c[k]),
         NEW ns, ns = Longer(ts, k)
  PROVE  CutUpto(u, ns, Len(t) + 1)
<1> DEFINE n == Len(ts)
           T == STRING \cup {"UNSAFE_", "Unsafe", "#ifdef", "#else", "#define",
                             "#endif", "line", "U"}
<1>1. n \in Nat /\ Len(t) \in Nat /\ Len(t) > 0 /\ k \in 1 .. n /\ Len(ns) = n
  BY DEF IsText, Longer
<1>2. /\ c[1] = 1 /\ \A j \in 1 .. n + 1 : c[j] \in 1 .. Len(t) + 1
      /\ \A i1, j \in 1 .. n + 1 : i1 < j => c[i1] < c[j]
      /\ \A j \in 1 .. n : /\ ~Done(t, c[j]) /\ ts[j] = TokenAt(t, c[j])
                           /\ c[j + 1] = Match(t, c[j]).end
      /\ c[n + 1] = Len(t)
  BY DEF Path
<1>3. /\ \A j \in 1 .. n : j # k => ns[j] = ts[j]
      /\ ns[k] = [ts[k] EXCEPT !.str = <<"U">> \o @]
  <2> DEFINE x == [ts[k] EXCEPT !.str = <<"U">> \o @]
  <2>1. ns = [ts EXCEPT ![k] = x]
    BY DEF Longer
  <2> HIDE DEF x
  <2>2. ns[k] = x /\ \A j \in 1 .. n : j # k => ns[j] = ts[j]
    BY <2>1
  <2> QED BY <2>2 DEF x
<1>4. t \in Seq(T)
  BY DEF IsText, Spelling
<1> HIDE DEF T, n
<1>5. PICK q : q = c[k]
  OBVIOUS
<1>6. /\ IsText(u) /\ q \in 1 .. Len(t) /\ Len(u) = Len(t) + 1 /\ u[q] = "U"
      /\ t[q] \in Alpha
      /\ \A r \in 1 .. q - 1 : u[r] = t[r]
      /\ \A r \in q .. Len(t) : u[r + 1] = t[r]
  BY <1>5 DEF Inserted
<1>7. u \in Seq(T)
  BY <1>6 DEF IsText, Spelling, T
<1> DEFINE d == [j \in 1 .. n + 1 |-> IF j <= k THEN c[j] ELSE c[j] + 1]
<1>8. /\ \A j \in 1 .. n + 1 : j <= k => d[j] = c[j]
      /\ \A j \in 1 .. n + 1 : j > k => d[j] = c[j] + 1
  BY <1>1
<1> HIDE DEF d
<1>9. ASSUME NEW j \in 1 .. n
      PROVE  /\ c[j] \in 1 .. Len(t) /\ t[c[j]] # "NUL" /\ (c[j] > 1 => t[c[j] - 1] # "NUL")
             /\ j + 1 \in 1 .. n + 1 /\ j \in 1 .. n + 1
             /\ c[j + 1] \in c[j] + 1 .. Len(t) + 1 /\ c[j + 1] = Match(t, c[j]).end
             /\ ts[j] = TokenAt(t, c[j])
  <2>1. j + 1 \in 1 .. n + 1 /\ j \in 1 .. n + 1
    BY <1>1
  <2>2. c[j] \in 1 .. Len(t) /\ t[c[j]] # "NUL"
    BY <1>2, <2>1, NotDone
  <2>3. c[j] > 1 => t[c[j] - 1] # "NUL"
    BY <1>2 DEF Done
  <2> QED BY <1>2, <2>1, <2>2, <2>3, MatchOn
(* Before it, *)
<1>10. ASSUME NEW j \in 1 .. n, j < k
       PROVE  /\ ~Done(u, c[j]) /\ ns[j] = TokenAt(u, c[j])
              /\ c[j + 1] = Match(u, c[j]).end
  <2>1. PICK p : p = c[j]
    OBVIOUS
  <2>2. PICK e : e = Match(t, p).end
    OBVIOUS
  <2>3. /\ p \in 1 .. Len(t) /\ t[p] # "NUL" /\ (p > 1 => t[p - 1] # "NUL")
        /\ e = c[j + 1] /\ e \in p + 1 .. Len(t) + 1 /\ ts[j] = TokenAt(t, p)
    BY <1>9, <2>1, <2>2
  <2>4. e <= q
    <3>1. j + 1 = k \/ j + 1 < k
      BY <1>1, <1>10
    <3>2. j + 1 \in 1 .. n + 1 /\ k \in 1 .. n + 1
      BY <1>1
    <3>3. e = q \/ e < q
      BY <1>2, <1>5, <2>3, <3>1, <3>2
    <3> QED BY <1>6, <2>3, <3>3
  <2>5. p \in 1 .. q - 1
    BY <1>6, <2>3, <2>4
  <2>6. Match(u, p) = Match(t, p)
    <3>1. Inserted(t, u, q)
      BY <1>5
    <3> QED BY <2>2, <2>3, <2>4, <2>5, <3>1, InsertedMatch
  <2>7. SubSeq(u, p, e - 1) = SubSeq(t, p, e - 1)
    <3>1. e - 1 \in p .. Len(t)
      BY <1>1, <2>3
    <3>2. p + 0 = p /\ (e - 1) + 0 = e - 1 /\ 0 \in Int
      BY <2>3
    <3>3. p + 0 \in 1 .. Len(u) /\ (e - 1) + 0 \in 1 .. Len(u)
      <4>1. /\ p \in 1 .. Len(t) /\ Len(u) = Len(t) + 1 /\ Len(t) \in Nat
            /\ e - 1 \in p .. Len(t)
        BY <1>1, <1>6, <2>3, <3>1
      <4> QED BY <3>2, <4>1
    <3>4. \A r \in p .. e - 1 : u[r + 0] = t[r]
      <4> SUFFICES ASSUME NEW r \in p .. e - 1 PROVE u[r + 0] = t[r]
        OBVIOUS
      <4>1. r + 0 = r /\ r \in 1 .. q - 1
        <5>1. p \in 1 .. Len(t) /\ e \in p + 1 .. Len(t) + 1 /\ e <= q /\ q \in 1 .. Len(t)
          BY <1>6, <2>3, <2>4
        <5> QED BY <5>1
      <4> QED BY <1>6, <4>1
    <3>5. SubSeq(u, p + 0, (e - 1) + 0) = SubSeq(t, p, e - 1)
      BY <1>4, <1>7, <2>3, <3>1, <3>2, <3>3, <3>4, SamePiece
    <3> QED BY <3>2, <3>5
  <2>8. TokenAt(u, p) = TokenAt(t, p)
    BY <2>2, <2>6, <2>7 DEF TokenAt
  <2>9. ~Done(u, p)
    <3>1. u[p] = t[p] /\ (p > 1 => u[p - 1] = t[p - 1])
      <4>1. p > 1 => p - 1 \in 1 .. q - 1
        BY <1>6, <2>5
      <4> QED BY <1>6, <2>5, <4>1
    <3>2. p \in 1 .. Len(u) /\ p \in 1 .. Len(u) + 1
      BY <1>1, <1>6, <2>3
    <3> QED BY <1>6, <2>3, <3>1, <3>2, NotDone
  <2>10. ns[j] = ts[j]
    <3>1. j # k
      BY <1>1, <1>10
    <3> QED BY <1>3, <3>1
  <2> QED BY <2>1, <2>2, <2>3, <2>6, <2>8, <2>9, <2>10
(* at it, *)
<1>11. /\ ~Done(u, q) /\ ns[k] = TokenAt(u, q)
       /\ c[k + 1] + 1 = Match(u, q).end
  <2>1. PICK e : e = Match(t, q).end
    OBVIOUS
  <2>2. /\ t[q] # "NUL" /\ (q > 1 => t[q - 1] # "NUL")
        /\ e = c[k + 1] /\ e \in q + 1 .. Len(t) + 1 /\ ts[k] = TokenAt(t, q)
    BY <1>1, <1>5, <1>9, <2>1
  <2>3. e <= Len(t)
    <3>1. k + 1 = n + 1 \/ k + 1 < n + 1
      BY <1>1
    <3>2. k + 1 \in 1 .. n + 1 /\ n + 1 \in 1 .. n + 1
      BY <1>1
    <3>3. e = Len(t) \/ e < Len(t)
      BY <1>2, <2>2, <3>1, <3>2
    <3> QED BY <1>1, <2>2, <3>3
  <2>4. Match(t, q).sym = "Ident"
    BY <2>2 DEF TokenAt
  <2>5. Match(u, q) = [end |-> e + 1, sym |-> "Ident"]
    <3>1. Inserted(t, u, q)
      BY <1>5
    <3> QED BY <2>1, <2>4, <3>1, InsertedName
  <2>6. SubSeq(u, q, e) = <<"U">> \o SubSeq(t, q, e - 1)
    <3>1. "U" \in T
      BY DEF T
    <3>2. e \in q + 1 .. Len(t)
      BY <1>1, <2>2, <2>3
    <3> QED BY <1>4, <1>6, <1>7, <3>1, <3>2, LongerPiece
  <2>7. (e + 1) - 1 = e
    BY <2>2
  <2>8. TokenAt(u, q) = [sym |-> "Ident", str |-> SubSeq(u, q, e)]
    <3>1. Match(u, q).end = e + 1 /\ Match(u, q).sym = "Ident"
      BY <2>5
    <3> QED BY <2>7, <3>1 DEF TokenAt
  <2>9. TokenAt(t, q) = [sym |-> "Ident", str |-> SubSeq(t, q, e - 1)]
    BY <2>1, <2>4 DEF TokenAt
  <2>10. ns[k] = TokenAt(u, q)
    <3> DEFINE s == SubSeq(t, q, e - 1)
    <3>1. ts[k] = [sym |-> "Ident", str |-> s]
      BY <2>2, <2>9
    <3> HIDE DEF s
    <3>2. [ts[k] EXCEPT !.str = <<"U">> \o @] = [sym |-> "Ident", str |-> <<"U">> \o s]
      <4> DEFINE y == <<"U">> \o s
      <4>1. [ts[k] EXCEPT !.str = <<"U">> \o @] = [[sym |-> "Ident", str |-> s] EXCEPT !.str = y]
        BY <3>1
      <4> HIDE DEF y
      <4>2. [[sym |-> "Ident", str |-> s] EXCEPT !.str = y] = [sym |-> "Ident", str |-> y]
        OBVIOUS
      <4> QED BY <4>1, <4>2 DEF y
    <3> QED BY <1>3, <2>6, <2>8, <3>2 DEF s
  <2>11. ~Done(u, q)
    <3>1. u[q] # "NUL" /\ (q > 1 => u[q - 1] = t[q - 1])
      <4>1. q > 1 => q - 1 \in 1 .. q - 1
        BY <1>6
      <4> QED BY <1>6, <4>1
    <3>2. q \in 1 .. Len(u) /\ q \in 1 .. Len(u) + 1
      BY <1>1, <1>6
    <3> QED BY <1>6, <2>2, <3>1, <3>2, NotDone
  <2>12. Match(u, q).end = e + 1
    BY <2>5
  <2> QED BY <2>2, <2>10, <2>11, <2>12
(* and after it. *)
<1>12. ASSUME NEW j \in 1 .. n, j > k
       PROVE  /\ ~Done(u, c[j] + 1) /\ ns[j] = TokenAt(u, c[j] + 1)
              /\ c[j + 1] + 1 = Match(u, c[j] + 1).end
  <2>1. PICK p : p = c[j]
    OBVIOUS
  <2>2. PICK e : e = Match(t, p).end
    OBVIOUS
  <2>3. /\ p \in 1 .. Len(t) /\ t[p] # "NUL" /\ (p > 1 => t[p - 1] # "NUL")
        /\ e = c[j + 1] /\ e \in p + 1 .. Len(t) + 1 /\ ts[j] = TokenAt(t, p)
    BY <1>9, <2>1, <2>2
  <2>4. p > q
    <3>1. j \in 1 .. n + 1 /\ k \in 1 .. n + 1
      BY <1>1
    <3>2. c[k] < c[j]
      BY <1>2, <1>12, <3>1
    <3> QED BY <1>5, <1>6, <2>1, <2>3, <3>2
  <2>5. e <= Len(t)
    <3>1. j + 1 = n + 1 \/ j + 1 < n + 1
      BY <1>1
    <3>2. j + 1 \in 1 .. n + 1 /\ n + 1 \in 1 .. n + 1
      BY <1>1
    <3>3. e = Len(t) \/ e < Len(t)
      BY <1>2, <2>3, <3>1, <3>2
    <3> QED BY <1>1, <2>3, <3>3
  <2>6. Moved(t, u, p, Len(t), 1)
    <3>1. Moved(t, u, q, Len(t), 1)
      BY <1>5, InsertedMoved
    <3>2. p \in q .. Len(t)
      BY <1>1, <1>6, <2>3, <2>4
    <3> QED BY <1>6, <3>1, <3>2, MovedOn
  <2>7. Match(u, p + 1) = [end |-> Match(t, p).end + 1, sym |-> Match(t, p).sym]
    BY <1>6, <2>3, <2>6, MovedMatch
  <2>8. \A r \in p .. Match(t, p).end - 1 : u[r + 1] = t[r]
    <3> SUFFICES ASSUME NEW r \in p .. e - 1 PROVE u[r + 1] = t[r]
      BY <2>2
    <3>1. r \in q .. Len(t)
      <4>1. p \in 1 .. Len(t) /\ e \in p + 1 .. Len(t) + 1 /\ p > q /\ q \in 1 .. Len(t)
            /\ Len(t) \in Nat /\ e <= Len(t)
        BY <1>1, <1>6, <2>3, <2>4, <2>5
      <4> QED BY <4>1
    <3> QED BY <1>6, <3>1
  <2>9. u[p + 1] = t[p] /\ u[p] = t[p - 1] /\ (p + 1) - 1 = p
    <3>1. p \in q .. Len(t) /\ p - 1 \in q .. Len(t) /\ (p - 1) + 1 = p
      BY <1>1, <1>6, <2>3, <2>4
    <3>2. (p + 1) - 1 = p
      BY <2>3
    <3> QED BY <1>6, <3>1, <3>2
  <2>10. 1 \in Int /\ p + 1 \in 1 .. Len(u) /\ p + 1 \in 1 .. Len(u) + 1
    <3>1. p \in 1 .. Len(t) /\ Len(u) = Len(t) + 1 /\ Len(t) \in Nat
      BY <1>1, <1>6, <2>3
    <3> QED BY <3>1
  <2>11. TokenAt(u, p + 1) = TokenAt(t, p) /\ Match(u, p + 1).end = e + 1
    <3>1. u[p + 1] # "NUL" /\ IsText(u) /\ p \in 1 .. Len(t) /\ t[p] # "NUL"
      BY <1>6, <2>3, <2>9
    <3>2. TokenAt(u, p + 1) = TokenAt(t, p) /\ Match(u, p + 1).end = Match(t, p).end + 1
      BY <2>7, <2>8, <2>10, <3>1, SameToken
    <3> QED BY <2>2, <3>2
  <2>12. ~Done(u, p + 1)
    <3>1. p > 1
      BY <1>6, <2>3, <2>4
    <3> QED BY <1>6, <2>3, <2>9, <2>10, <3>1, NotDone
  <2>13. ns[j] = ts[j]
    <3>1. j # k
      BY <1>1, <1>12
    <3> QED BY <1>3, <3>1
  <2> QED BY <2>1, <2>3, <2>11, <2>12, <2>13
<1>13. ASSUME NEW j \in 1 .. n
       PROVE  /\ ~Done(u, d[j]) /\ ns[j] = TokenAt(u, d[j])
              /\ d[j + 1] = Match(u, d[j]).end
  <2>1. j \in 1 .. n + 1 /\ j + 1 \in 1 .. n + 1
    BY <1>1
  <2>2. CASE j < k
    <3>1. d[j] = c[j] /\ d[j + 1] = c[j + 1]
      BY <1>1, <1>8, <2>1, <2>2
    <3> QED BY <1>10, <2>2, <3>1
  <2>3. CASE j = k
    <3>1. d[j] = q /\ d[j + 1] = c[k + 1] + 1
      BY <1>1, <1>5, <1>8, <2>1, <2>3
    <3> QED BY <1>11, <2>3, <3>1
  <2>4. CASE j > k
    <3>1. d[j] = c[j] + 1 /\ d[j + 1] = c[j + 1] + 1
      BY <1>1, <1>8, <2>1, <2>4
    <3> QED BY <1>12, <2>4, <3>1
  <2> QED BY <1>1, <2>2, <2>3, <2>4
<1>14. ASSUME NEW j \in 1 .. n + 1 PROVE d[j] \in 1 .. Len(u) + 1
  <2>1. c[j] \in 1 .. Len(t) + 1
    BY <1>2
  <2>2. d[j] = c[j] \/ d[j] = c[j] + 1
    BY <1>1, <1>8
  <2> QED BY <1>1, <1>6, <2>1, <2>2
<1>15. ASSUME NEW i1 \in 1 .. n + 1, NEW j \in 1 .. n + 1, i1 < j PROVE d[i1] < d[j]
  <2>1. c[i1] < c[j] /\ c[i1] \in 1 .. Len(t) + 1 /\ c[j] \in 1 .. Len(t) + 1
    BY <1>2, <1>15
  <2>2. CASE j <= k
    <3>1. i1 <= k
      BY <1>1, <1>15, <2>2
    <3> QED BY <1>8, <2>1, <2>2, <3>1
  <2>3. CASE j > k
    <3>1. d[j] = c[j] + 1 /\ (d[i1] = c[i1] \/ d[i1] = c[i1] + 1)
      BY <1>1, <1>8, <2>3
    <3> QED BY <2>1, <3>1
  <2> QED BY <1>1, <2>2, <2>3
<1>16. d[1] = 1
  <2>1. 1 \in 1 .. n + 1 /\ 1 <= k
    BY <1>1
  <2> QED BY <1>2, <1>8, <2>1
<1>17. Path(u, ns, d)
  BY <1>1, <1>13, <1>14, <1>15, <1>16 DEF Path
<1>18. d[n + 1] = Len(t) + 1
  <2>1. n + 1 \in 1 .. n + 1 /\ n + 1 > k
    BY <1>1
  <2> QED BY <1>2, <1>8, <2>1
<1> QED BY <1>1, <1>17, <1>18 DEF CutUpto

(* LexInv, and how Tokenize came to where it is. *)
LexPath ==
    /\ LexInv
    /\ CutUpto(text, result, cursor)
    /\ phase # "lex" => Done(text, cursor)

LEMMA ResultType == LexInv => result \in Seq(PlainToken) /\ result \in Seq(TokenType)
BY PlainIsToken DEF LexInv, PlainToken

LEMMA LexPathInit == LexInit => LexPath
<1> SUFFICES ASSUME LexInit PROVE LexPath
  OBVIOUS
<1>1. LexInv
  BY LexInitInv
<1>2. result = <<>> /\ cursor = 1 /\ phase = "lex" /\ IsText(text) /\ Len(text) \in Nat
  BY DEF LexInit, IsText
<1> DEFINE c == [k \in {1} |-> 1]
<1>3. c[1] = 1
  OBVIOUS
<1> HIDE DEF c
<1>4. Len(result) = 0 /\ 0 + 1 = 1 /\ 1 .. 0 = {} /\ \A k \in 1 .. 0 + 1 : k = 1
  BY <1>2
<1>5. Path(text, result, c)
  BY <1>2, <1>3, <1>4 DEF Path
<1> QED BY <1>1, <1>2, <1>3, <1>4, <1>5 DEF LexPath, CutUpto

LEMMA LexPathStep ==
  LexPath /\ [LexNext]_<<lexer, tokens, scan, phase>> => LexPath'
<1> SUFFICES ASSUME LexPath, [LexNext]_<<lexer, tokens, scan, phase>>
             PROVE  LexPath'
  OBVIOUS
<1>1. LexInv /\ LexInv'
  BY LexStepInv DEF LexPath
<1>2. PICK c : Path(text, result, c) /\ c[Len(result) + 1] = cursor
  BY DEF LexPath, CutUpto
<1>3. IsText(text) /\ result \in Seq(TokenType)
  BY <1>1, ResultType DEF LexInv
<1>4. ASSUME UNCHANGED <<text, cursor, result>>, phase' # "lex" => Done(text, cursor)
      PROVE  LexPath'
  <2>1. text' = text /\ cursor' = cursor /\ result' = result
    BY <1>4
  <2>2. Path(text, result, c)' /\ (c[Len(result) + 1] = cursor)'
    BY <1>2, <2>1 DEF Path
  <2>3. (phase # "lex" => Done(text, cursor))'
    BY <1>4, <2>1
  <2> QED BY <1>1, <2>2, <2>3 DEF LexPath, CutUpto
<1>5. CASE PushToken
  <2>1. /\ ~Done(text, cursor) /\ result' = Append(result, TokenAt(text, cursor))
        /\ cursor' = Match(text, cursor).end /\ text' = text /\ phase' = "lex"
    BY <1>5 DEF PushToken
  <2>2. PICK d : /\ Path(text, Append(result, TokenAt(text, cursor)), d)
                 /\ d[Len(result) + 2] = Match(text, cursor).end
    BY <1>2, <1>3, <2>1, PathMore
  <2>3. Len(result') + 1 = Len(result) + 2
    <3>1. Len(result') = Len(result) + 1 /\ Len(result) \in Nat
      BY <1>3, <2>1
    <3> QED BY <3>1
  <2>4. Path(text', result', d) /\ d[Len(result') + 1] = cursor'
    BY <2>1, <2>2, <2>3
  <2>5. CutUpto(text, result, cursor)'
    BY <2>4 DEF CutUpto
  <2> QED BY <1>1, <2>1, <2>5 DEF LexPath
<1>6. CASE PushEOF
  BY <1>4, <1>6 DEF PushEOF, lexer
<1>7. CASE ScanNext /\ UNCHANGED lexer
  <2>1. phase # "lex"
    BY <1>7 DEF ScanNext, FindInlineFunctions, StepOn, NoName, Function, EndOfFile,
                FindCalls
  <2> QED BY <1>4, <1>7, <2>1 DEF lexer, LexPath
<1>8. CASE UNCHANGED <<lexer, tokens, scan, phase>>
  BY <1>4, <1>8 DEF lexer, LexPath
<1> QED BY <1>5, <1>6, <1>7, <1>8 DEF LexNext, Tokenize

(* A list that ends with an EOF has the text of what is before it. *)
LEMMA TextOfList ==
  ASSUME NEW ts \in Seq(TokenType), Text(ts) \in Spelling
  PROVE  Text(Append(ts, EOFToken)) = Text(ts)
<1>2. Text(Append(ts, EOFToken)) = Text(ts) \o EOFToken.str
  BY TextOfMore
<1>3. EOFToken.str = <<>>
  BY DEF EOFToken
<1>4. PICK s : s = Text(ts)
  OBVIOUS
<1>5. s \o <<>> = s
  BY <1>4 DEF Spelling
<1> QED BY <1>2, <1>3, <1>4, <1>5

LEMMA PrefixType ==
  ASSUME NEW t, IsText(t), NEW p \in 1 .. Len(t) + 1
  PROVE  /\ SubSeq(t, 1, p - 1) \in Spelling /\ t \in Spelling
         /\ Len(SubSeq(t, 1, p - 1)) = p - 1
         /\ \A r \in 1 .. p - 1 : SubSeq(t, 1, p - 1)[r] = t[r]
<1> DEFINE T == STRING \cup {"UNSAFE_", "Unsafe", "#ifdef", "#else", "#define",
                             "#endif", "line", "U"}
<1>1. t \in Seq(T) /\ Len(t) \in Nat
  BY DEF IsText, Spelling
<1> HIDE DEF T
<1>2. /\ SubSeq(t, 1, p - 1) \in Seq(T) /\ Len(SubSeq(t, 1, p - 1)) = p - 1
      /\ \A r \in 1 .. p - 1 : SubSeq(t, 1, p - 1)[r] = t[r]
  BY <1>1
<1> QED BY <1>1, <1>2 DEF Spelling, T

(* A text is what is before its last NUL, with that NUL. *)
LEMMA WithNul ==
  ASSUME NEW t, IsText(t)
  PROVE  Append(SubSeq(t, 1, Len(t) - 1), "NUL") = t
<1>1. PICK n \in Nat : n = Len(t) /\ n > 0 /\ t[n] = "NUL"
  BY DEF IsText
<1>2. n \in 1 .. Len(t) + 1
  BY <1>1
<1> DEFINE T == STRING \cup {"UNSAFE_", "Unsafe", "#ifdef", "#else", "#define",
                             "#endif", "line", "U"}
<1>3. /\ SubSeq(t, 1, n - 1) \in Seq(T) /\ t \in Seq(T)
      /\ Len(SubSeq(t, 1, n - 1)) = n - 1
      /\ \A r \in 1 .. n - 1 : SubSeq(t, 1, n - 1)[r] = t[r]
  BY <1>2, PrefixType DEF Spelling
<1> HIDE DEF T
<1>4. PICK s : s = SubSeq(t, 1, n - 1)
  OBVIOUS
<1>5. PICK x : x = "NUL"
  OBVIOUS
<1>6. t[n] \in T
  BY <1>1, <1>3
<1>7. /\ Append(s, x) \in Seq(T) /\ Len(Append(s, x)) = n /\ Append(s, x)[n] = x
      /\ \A r \in 1 .. n - 1 : Append(s, x)[r] = s[r]
  BY <1>1, <1>3, <1>4, <1>5, <1>6
<1>8. \A r \in 1 .. n : Append(s, x)[r] = t[r]
  <2> SUFFICES ASSUME NEW r \in 1 .. n PROVE Append(s, x)[r] = t[r]
    OBVIOUS
  <2>1. r = n \/ r \in 1 .. n - 1
    BY <1>1
  <2> QED BY <1>1, <1>3, <1>4, <1>5, <1>7, <2>1
<1>9. Append(s, x) = t
  BY <1>1, <1>3, <1>7, <1>8
<1> QED BY <1>1, <1>4, <1>5, <1>9

(* The list of the names, one of them longer, is what its text is cut into. *)
LEMMA RenamedLexed ==
  ASSUME NEW t, IsText(t), NEW ts \in Seq(TokenType), NEW c, Path(t, ts, c),
         c[Len(ts) + 1] = Len(t), NEW k \in 1 .. Len(ts), ts[k].sym = "Ident",
         k > 1 => LET s == ts[k - 1].str IN s[Len(s)] \notin Alnum,
         NEW ns, ns = Longer(ts, k)
  PROVE  /\ ns \in Seq(TokenType)
         /\ Lexed(Append(Text(Append(ns, EOFToken)), "NUL")) = Append(ns, EOFToken)
<1> DEFINE n == Len(ts)
<1>1. n \in Nat /\ Len(t) \in Nat /\ Len(t) > 0 /\ k \in 1 .. n /\ t[Len(t)] = "NUL"
  BY DEF IsText
<1>2. /\ c[1] = 1 /\ \A j \in 1 .. n + 1 : c[j] \in 1 .. Len(t) + 1
      /\ \A j \in 1 .. n : /\ ~Done(t, c[j]) /\ ts[j] = TokenAt(t, c[j])
                           /\ c[j + 1] = Match(t, c[j]).end
  BY DEF Path
<1>3. PICK q : q = c[k]
  OBVIOUS
<1>4. q \in 1 .. Len(t) /\ t[q] # "NUL" /\ ts[k] = TokenAt(t, q)
  <2>1. k \in 1 .. n + 1
    BY <1>1
  <2> QED BY <1>1, <1>2, <1>3, <2>1, NotDone
<1>5. t[q] \in Alpha
  <2>1. Match(t, q).sym = "Ident"
    BY <1>4 DEF TokenAt
  <2> QED BY <1>4, <2>1, IdentIsWord
<1>6. q > 1 => t[q - 1] \notin Alnum
  <2> SUFFICES ASSUME q > 1 PROVE t[q - 1] \notin Alnum
    OBVIOUS
  <2>1. k > 1 /\ k - 1 \in 1 .. n /\ k - 1 \in 1 .. n + 1 /\ (k - 1) + 1 = k
    <3>1. k # 1
      BY <1>2, <1>3, <1>4
    <3> QED BY <1>1, <3>1
  <2>2. PICK p : p = c[k - 1]
    OBVIOUS
  <2>3. p \in 1 .. Len(t) /\ t[p] # "NUL" /\ ts[k - 1] = TokenAt(t, p) /\ q = Match(t, p).end
    BY <1>2, <1>3, <2>1, <2>2, NotDone
  <2>4. q \in p + 1 .. Len(t)
    BY <1>4, <2>3, MatchOn
  <2>5. ts[k - 1].str = SubSeq(t, p, q - 1)
    <3>1. TokenAt(t, p).str = SubSeq(t, p, Match(t, p).end - 1)
      BY DEF TokenAt
    <3> QED BY <2>3, <3>1
  <2>6. Len(SubSeq(t, p, q - 1)) = q - p /\ SubSeq(t, p, q - 1)[q - p] = t[q - 1]
    <3> DEFINE T == STRING \cup {"UNSAFE_", "Unsafe", "#ifdef", "#else", "#define",
                                 "#endif", "line", "U"}
    <3>2. t \in Seq(T)
      BY DEF IsText, Spelling
    <3> HIDE DEF T
    <3>3. PICK e \in p .. Len(t) : e = q - 1
      BY <1>1, <2>3, <2>4
    <3>4. /\ Len(SubSeq(t, p, e)) = e - p + 1
          /\ \A j \in 1 .. e - p + 1 : SubSeq(t, p, e)[j] = t[p + j - 1]
      BY <2>3, <3>2, <3>3
    <3>5. e - p + 1 = q - p /\ q - p \in 1 .. e - p + 1 /\ p + (q - p) - 1 = q - 1
      <4>1. p \in Nat /\ q \in p + 1 .. Len(t) /\ Len(t) \in Nat /\ e = q - 1
        BY <1>1, <2>3, <2>4, <3>3
      <4> QED BY ONLY <4>1
    <3> QED BY <3>3, <3>4, <3>5
  <2> QED BY <2>1, <2>5, <2>6
<1>7. PICK u : Inserted(t, u, q)
  BY <1>4, <1>5, <1>6, InsertedExists
<1>8. /\ IsText(u) /\ Len(u) = Len(t) + 1 /\ u[Len(u)] = "NUL" /\ Len(u) \in Nat
  BY <1>7 DEF Inserted, IsText
<1>9. PICK d : Path(u, ns, d) /\ d[Len(ns) + 1] = Len(t) + 1
  <2> SUFFICES CutUpto(u, ns, Len(t) + 1)
    BY DEF CutUpto
  <2>1. /\ IsText(t) /\ ts \in Seq(TokenType) /\ Path(t, ts, c)
        /\ k \in 1 .. Len(ts) /\ ts[k].sym = "Ident" /\ c[Len(ts) + 1] = Len(t)
        /\ Inserted(t, u, c[k]) /\ ns = Longer(ts, k)
    BY <1>3, <1>7
  <2> QED BY ONLY <2>1, PathInserted
<1>10. ns \in Seq(TokenType)
  <2> DEFINE x == [ts[k] EXCEPT !.str = <<"U">> \o @]
  <2>1. ns = [ts EXCEPT ![k] = x]
    BY DEF Longer
  <2>2. x \in TokenType
    <3>1. PICK s : s = ts[k].str
      OBVIOUS
    <3>2. ts[k] \in TokenType
      OBVIOUS
    <3>3. s \in Spelling /\ ts[k].sym \in Symbol /\ ts[k] = [sym |-> ts[k].sym, str |-> s]
      BY <3>1, <3>2 DEF TokenType
    <3>4. <<"U">> \o s \in Spelling
      BY <3>3 DEF Spelling
    <3> DEFINE y == <<"U">> \o s
    <3>5. x = [ts[k] EXCEPT !.str = y]
      BY <3>1
    <3> HIDE DEF y, x
    <3>6. x = [sym |-> ts[k].sym, str |-> y]
      BY <3>3, <3>5
    <3> QED BY <3>3, <3>4, <3>6 DEF y, TokenType
  <2> HIDE DEF x
  <2>3. ns = [j \in 1 .. n |-> IF j = k THEN x ELSE ts[j]]
    <3>1. ts \in [1 .. n -> TokenType]
      OBVIOUS
    <3> HIDE DEF n
    <3> QED BY <2>1, <3>1
  <2>4. \A j \in 1 .. n : ts[j] \in TokenType
    OBVIOUS
  <2> HIDE DEF n
  <2>5. ns \in [1 .. n -> TokenType]
    BY <2>2, <2>3, <2>4
  <2> QED BY <1>1, <2>5
<1>11. Done(u, d[Len(ns) + 1])
  BY <1>8, <1>9 DEF Done, At
<1>12. Lexed(u) = Append(ns, EOFToken)
  BY <1>8, <1>9, <1>10, <1>11, LexedPath
<1>13. Text(ns) = SubSeq(u, 1, Len(u) - 1)
  <2>1. Text(ns) = SubSeq(u, 1, d[Len(ns) + 1] - 1)
    BY <1>8, <1>9, <1>10, PathText
  <2> QED BY <1>8, <1>9, <2>1
<1>14. Text(Append(ns, EOFToken)) = Text(ns)
  <2>1. Len(u) \in 1 .. Len(u) + 1
    BY <1>1, <1>8
  <2>2. Text(ns) \in Spelling
    BY <1>8, <1>13, <2>1, PrefixType
  <2> QED BY <1>10, <2>2, TextOfList
<1>15. Append(Text(Append(ns, EOFToken)), "NUL") = u
  BY <1>8, <1>13, <1>14, WithNul
<1> QED BY <1>10, <1>12, <1>15

LEMMA RenamingFromPath == LexPath => RenamingHolds
<1> SUFFICES ASSUME LexPath, phase = "scan", pos = 1, ~Lexing
             PROVE  /\ Lexed(Append(Text(tokens), "NUL")) = tokens
                    /\ \A k \in 1 .. Len(tokens) :
                         /\ tokens[k].sym = "Ident"
                         /\ k > 1 => LET s == tokens[k - 1].str IN s[Len(s)] \notin Alnum
                         => Lexed(Append(Text(RenamedAt(k)), "NUL")) = RenamedAt(k)
  BY DEF RenamingHolds
<1>1. LexInv /\ IsText(text) /\ result \in Seq(TokenType) /\ Done(text, cursor)
      /\ tokens = Append(result, EOFToken) /\ cursor \in 1 .. Len(text) + 1
      /\ Text(result) = SubSeq(text, 1, cursor - 1)
  BY ResultType DEF LexPath, LexInv, Lexing
<1>2. PICK c : Path(text, result, c) /\ c[Len(result) + 1] = cursor
  BY DEF LexPath, CutUpto
<1>3. PICK n \in Nat : n = Len(result)
  BY <1>1
<1>4. PICK t : t = Cut(text, cursor)
  OBVIOUS
<1>5. /\ IsText(t) /\ Path(t, result, c) /\ Done(t, cursor) /\ Len(t) = cursor
      /\ t[cursor] = "NUL"
  <2>1. PICK p : p = cursor
    OBVIOUS
  <2>2. /\ IsText(text) /\ result \in Seq(TokenType) /\ Path(text, result, c)
        /\ p = c[Len(result) + 1] /\ Done(text, p)
        /\ t = Cut(text, p)
    BY <1>1, <1>2, <1>4, <2>1
  <2>3. /\ IsText(t) /\ Path(t, result, c) /\ Done(t, p)
        /\ p \in Nat /\ Len(t) = p /\ t[p] = "NUL"
    BY ONLY <2>2, PathCut
  <2> QED BY <2>1, <2>3
<1>6. Text(tokens) = Text(result)
  <2>1. Text(result) \in Spelling
    BY <1>1, PrefixType
  <2> QED BY <1>1, <2>1, TextOfList
<1>7. Lexed(Append(Text(tokens), "NUL")) = tokens
  <2>1. Lexed(t) = Append(result, EOFToken)
    BY <1>1, <1>2, <1>5, LexedPath
  <2> QED BY <1>1, <1>4, <1>6, <2>1 DEF Cut
<1>8. ASSUME NEW k \in 1 .. Len(tokens), tokens[k].sym = "Ident",
             k > 1 => LET s == tokens[k - 1].str IN s[Len(s)] \notin Alnum
      PROVE  Lexed(Append(Text(RenamedAt(k)), "NUL")) = RenamedAt(k)
  <2>1. /\ Len(tokens) = n + 1 /\ tokens[n + 1] = EOFToken
        /\ \A j \in 1 .. n : tokens[j] = result[j]
    BY <1>1, <1>3, EOFIsToken
  <2>2. k \in 1 .. n
    <3>1. k # n + 1
      <4>1. tokens[n + 1].sym = "EOF"
        BY <2>1, EOFIsToken
      <4> QED BY <1>8, <4>1
    <3> QED BY <2>1, <3>1
  <2>3. result[k].sym = "Ident" /\ result[k] = tokens[k]
    BY <1>8, <2>1, <2>2
  <2>4. k > 1 => LET s == result[k - 1].str IN s[Len(s)] \notin Alnum
    <3> SUFFICES ASSUME k > 1
                 PROVE  LET s == result[k - 1].str IN s[Len(s)] \notin Alnum
      OBVIOUS
    <3>1. result[k - 1] = tokens[k - 1]
      <4>1. k - 1 \in 1 .. n
        BY <2>2
      <4> QED BY <2>1, <4>1
    <3> QED BY <1>8, <3>1
  <2>5. PICK ns : ns = Longer(result, k)
    OBVIOUS
  <2>6. /\ ns \in Seq(TokenType)
        /\ Lexed(Append(Text(Append(ns, EOFToken)), "NUL")) = Append(ns, EOFToken)
    BY <1>1, <1>2, <1>3, <1>5, <2>2, <2>3, <2>4, <2>5, RenamedLexed
  <2>7. RenamedAt(k) = Append(ns, EOFToken)
    <3> DEFINE x == [result[k] EXCEPT !.str = <<"U">> \o @]
    <3>1. ns = [result EXCEPT ![k] = x]
      BY <2>5 DEF Longer
    <3>2. RenamedAt(k) = [tokens EXCEPT ![k] = x]
      BY <2>3 DEF RenamedAt
    <3> HIDE DEF x
    <3>3. Len(ns) = n /\ ns[k] = x /\ \A j \in 1 .. n : j # k => ns[j] = result[j]
      BY <1>1, <1>3, <2>2, <3>1
    <3> DEFINE a == [tokens EXCEPT ![k] = x]
               b == Append(ns, EOFToken)
    <3>4. tokens \in Seq(TokenType)
      BY <1>1, EOFIsToken
    <3>5. x \in TokenType
      <4>1. ns[k] \in TokenType
        BY <1>3, <2>2, <2>6, <3>3, ElementType
      <4> QED BY <3>3, <4>1
    <3>6. a \in Seq(TokenType) /\ Len(a) = n + 1 /\ a[k] = x
          /\ \A j \in 1 .. n + 1 : j # k => a[j] = tokens[j]
      BY <2>1, <2>2, <3>4, <3>5
    <3>7. b \in Seq(TokenType) /\ Len(b) = n + 1 /\ b[n + 1] = EOFToken
          /\ \A j \in 1 .. n : b[j] = ns[j]
      BY <2>6, <3>3, EOFIsToken
    <3> HIDE DEF a, b
    <3>8. \A j \in 1 .. n + 1 : a[j] = b[j]
      <4> SUFFICES ASSUME NEW j \in 1 .. n + 1 PROVE a[j] = b[j]
        OBVIOUS
      <4>1. CASE j = k
        BY <2>2, <3>3, <3>6, <3>7, <4>1
      <4>2. CASE j # k /\ j = n + 1
        BY <2>1, <3>6, <3>7, <4>2
      <4>3. CASE j # k /\ j # n + 1
        <5>1. j \in 1 .. n
          BY <4>3
        <5> QED BY <2>1, <3>3, <3>6, <3>7, <4>3, <5>1
      <4> QED BY <4>1, <4>2, <4>3
    <3>9. a = b
      BY <3>6, <3>7, <3>8
    <3> QED BY <3>2, <3>9 DEF a, b
  <2> QED BY <2>6, <2>7
<1> QED BY <1>7, <1>8

(* Whatever the text is, its tokens are cut in the same way again, and a   *)
(* name that UNSAFE_ is put in front of is the one token that changes,     *)
(* unless it begins right behind a number: the strings that Main step 8    *)
(* writes are the tokens that the next run finds (Tokenize, lexer.re).     *)
THEOREM RenamingHoldsCorrect == LexSpec => []RenamingHolds
<1>1. LexInit => LexPath
  BY LexPathInit
<1>2. LexPath /\ [LexNext]_<<lexer, tokens, scan, phase>> => LexPath'
  BY LexPathStep
<1>3. LexPath => RenamingHolds
  BY RenamingFromPath
<1> QED BY <1>1, <1>2, <1>3, PTL DEF LexSpec

-----------------------------------------------------------------------------
(* Which arguments are values of an -o. *)
LEMMA ArgTypes ==
  ASSUME args \in CommandLine
  PROVE  /\ Len(args) \in Nat
         /\ \A n \in 1 .. Len(args) : args[n] \in Seq(Piece) /\ args[n] # <<>>
<1> DEFINE P == Seq(Piece) \ {<<>>}
<1>1. args \in Seq(P)
  BY DEF CommandLine
<1>2. \A n \in 1 .. Len(args) : args[n] \in P
  BY <1>1
<1> QED BY <1>1, <1>2

(* A run of -o, from its first one on. *)
RunFrom(k, n) == /\ k \in 1 .. n - 1
                 /\ \A m \in k .. n - 1 : args[m] = <<"-o">>
                 /\ k = 1 \/ args[k - 1] # <<"-o">>

LEMMA ValueAtRun == \A n : IsValue(n) <=> \E k : RunFrom(k, n) /\ (n - k) % 2 = 1
BY DEF IsValue, RunFrom

LEMMA OneRun ==
  ASSUME NEW n \in Nat, NEW k, NEW m, RunFrom(k, n), RunFrom(m, n)
  PROVE  k = m
BY DEF RunFrom

LEMMA RunExists ==
  ASSUME NEW n \in Nat \ {0}, args[n] = <<"-o">>
  PROVE  \E k \in 1 .. n : RunFrom(k, n + 1)
<1> DEFINE S == {k \in 1 .. n : \A m \in k .. n : args[m] = <<"-o">>}
<1>1. n \in S /\ S \in SUBSET Nat
  OBVIOUS
<1> HIDE DEF S
<1>2. PICK k \in S : \A m \in S : k <= m
  BY <1>1, LeastExists
<1>3. k \in 1 .. n /\ \A m \in k .. n : args[m] = <<"-o">>
  BY <1>2 DEF S
<1>4. k > 1 => args[k - 1] # <<"-o">>
  <2> SUFFICES ASSUME k > 1, args[k - 1] = <<"-o">> PROVE FALSE
    OBVIOUS
  <2>1. k - 1 \in 1 .. n /\ ~(k <= k - 1)
    BY <1>3
  <2>2. \A m \in k - 1 .. n : m = k - 1 \/ m \in k .. n
    BY <1>3
  <2>3. k - 1 \in S
    BY <1>3, <2>1, <2>2 DEF S
  <2> QED BY <1>2, <2>1, <2>3
<1>5. n + 1 - 1 = n
  OBVIOUS
<1>6. RunFrom(k, n + 1)
  BY <1>3, <1>4, <1>5 DEF RunFrom
<1> QED BY <1>3, <1>6

LEMMA RunGrows ==
  ASSUME NEW n \in Nat \ {0}, NEW k, k \in 1 .. n - 1
  PROVE  RunFrom(k, n + 1) <=> RunFrom(k, n) /\ args[n] = <<"-o">>
<1>1. \A m : m \in k .. n + 1 - 1 <=> m \in k .. n - 1 \/ m = n
  OBVIOUS
<1>2. k \in 1 .. n + 1 - 1
  OBVIOUS
<1> QED BY <1>1, <1>2 DEF RunFrom

(* It has a value behind it unless it is one. *)
LEMMA ValueAfter ==
  ASSUME NEW n \in Nat \ {0}
  PROVE  IsValue(n + 1) <=> args[n] = <<"-o">> /\ ~IsValue(n)
<1>1. ASSUME IsValue(n + 1) PROVE args[n] = <<"-o">> /\ ~IsValue(n)
  <2> DEFINE next == n + 1
  <2> HIDE DEF next
  <2>1. PICK k : RunFrom(k, next) /\ (next - k) % 2 = 1
    BY <1>1, ValueAtRun DEF next
  <2>2. k \in 1 .. n /\ args[n] = <<"-o">> /\ RunFrom(k, n + 1)
    BY <2>1 DEF RunFrom, next
  <2>3. ASSUME IsValue(n) PROVE FALSE
    <3>1. PICK m : RunFrom(m, n) /\ (n - m) % 2 = 1
      BY <2>3, ValueAtRun
    <3>2. m \in 1 .. n - 1
      BY <3>1 DEF RunFrom
    <3>3. RunFrom(m, n + 1)
      BY <2>2, <3>1, <3>2, RunGrows
    <3>4. k = m
      BY <2>2, <3>3, OneRun
    <3>5. (n + 1 - k) % 2 = 1
      BY <2>1, <2>2 DEF next
    <3> QED BY <2>2, <3>1, <3>4, <3>5
  <2> QED BY <2>2, <2>3
<1>2. ASSUME args[n] = <<"-o">>, ~IsValue(n) PROVE IsValue(n + 1)
  <2>1. PICK k \in 1 .. n : RunFrom(k, n + 1)
    BY <1>2, RunExists
  <2>2. CASE (n + 1 - k) % 2 = 1
    BY <2>1, <2>2, ValueAtRun
  <2>3. CASE (n + 1 - k) % 2 # 1
    <3>1. (n - k) % 2 = 1 /\ k # n
      BY <2>3
    <3>2. k \in 1 .. n - 1
      BY <3>1
    <3>3. RunFrom(k, n)
      BY <2>1, <3>2, RunGrows
    <3> QED BY <1>2, <3>1, <3>3, ValueAtRun
  <2> QED BY <2>2, <2>3
<1> QED BY <1>1, <1>2

LEMMA FirstNoValue == ~IsValue(1)
BY DEF IsValue

-----------------------------------------------------------------------------
(* The inputs in their order. *)
LEMMA InputsFinite ==
  ASSUME args \in CommandLine, NEW m
  PROVE  /\ Inputs \subseteq 1 .. Len(args)
         /\ IsFiniteSet(InputsTo(m)) /\ Cardinality(InputsTo(m)) \in Nat
<1>1. Len(args) \in Nat
  BY ArgTypes
<1>2. IsFiniteSet(1 .. Len(args))
  BY <1>1, FS_Interval
<1>3. Inputs \subseteq 1 .. Len(args) /\ InputsTo(m) \subseteq 1 .. Len(args)
  BY DEF Inputs, Plain, InputsTo
<1>4. IsFiniteSet(InputsTo(m))
  BY <1>2, <1>3, FS_Subset
<1> QED BY <1>3, <1>4, FS_CardinalityType

LEMMA InputsMore ==
  ASSUME args \in CommandLine, NEW m \in 1 .. Len(args)
  PROVE  /\ m \in Inputs => Cardinality(InputsTo(m)) = Cardinality(InputsTo(m - 1)) + 1
         /\ m \notin Inputs => InputsTo(m) = InputsTo(m - 1)
<1>1. Inputs \subseteq 1 .. Len(args) /\ Len(args) \in Nat
  BY ArgTypes, InputsFinite
<1>2. IsFiniteSet(InputsTo(m - 1))
  BY InputsFinite
<1>3. \A n \in Inputs : n <= m <=> n <= m - 1 \/ n = m
  BY <1>1
<1>4. CASE m \in Inputs
  <2>1. InputsTo(m) = InputsTo(m - 1) \cup {m} /\ m \notin InputsTo(m - 1)
    <3>1. m \in Nat /\ ~(m <= m - 1)
      BY <1>1
    <3>2. \A n : n \in InputsTo(m) <=> n \in InputsTo(m - 1) \/ n = m
      BY <1>3, <1>4 DEF InputsTo
    <3>3. m \notin InputsTo(m - 1)
      BY <3>1 DEF InputsTo
    <3> QED BY <3>2, <3>3
  <2> QED BY <1>2, <1>4, <2>1, FS_AddElement
<1>5. CASE m \notin Inputs
  BY <1>3, <1>5 DEF InputsTo
<1> QED BY <1>4, <1>5

LEMMA NthIsNth ==
  ASSUME args \in CommandLine, NEW m \in Inputs
  PROVE  NthInput(Cardinality(InputsTo(m))) = m
<1>1. Inputs \subseteq 1 .. Len(args) /\ Len(args) \in Nat
  BY ArgTypes, InputsFinite
<1>2. ASSUME NEW a \in Inputs, NEW b \in Inputs, a < b
      PROVE  Cardinality(InputsTo(a)) # Cardinality(InputsTo(b))
  <2>1. InputsTo(a) \subseteq InputsTo(b) /\ b \in InputsTo(b) /\ b \notin InputsTo(a)
    <3>1. a \in Nat /\ b \in Nat /\ Inputs \in SUBSET Nat
      BY <1>1
    <3>2. \A n \in Inputs : n <= a => n <= b
      BY <1>2, <3>1
    <3>3. b <= b /\ ~(b <= a)
      BY <1>2, <3>1
    <3> QED BY <3>2, <3>3 DEF InputsTo
  <2>2. IsFiniteSet(InputsTo(b))
    BY InputsFinite
  <2> QED BY <2>1, <2>2, FS_Subset
<1>3. \A a \in Inputs : Cardinality(InputsTo(a)) = Cardinality(InputsTo(m)) => a = m
  <2> SUFFICES ASSUME NEW a \in Inputs, a # m,
                      Cardinality(InputsTo(a)) = Cardinality(InputsTo(m))
               PROVE  FALSE
    OBVIOUS
  <2>1. a < m \/ m < a
    BY <1>1
  <2> QED BY <1>2, <2>1
<1> DEFINE c == Cardinality(InputsTo(m))
           at == NthInput(c)
<1>4. at \in Inputs /\ Cardinality(InputsTo(at)) = c
  BY DEF NthInput
<1> QED BY <1>3, <1>4

-----------------------------------------------------------------------------
(* What the options o say of the first m arguments. *)
Flags(o, m) ==
    /\ \A n \in Plain \ Inputs : n <= m => args[n] \in {<<"-o">>, <<"-i">>, <<"-l">>}
    /\ o.LineDirs = \E n \in Plain : n <= m /\ args[n] = <<"-l">>
    /\ o.InPlace = \E n \in Plain : n <= m /\ args[n] = <<"-i">>
InputsListed(o, m) ==
    o.InputFiles = [n \in 1 .. Cardinality(InputsTo(m)) |-> args[NthInput(n)]]
Directed(o, m) ==
    \/ o.OutputDir = NoDir /\ \A n \in Values : n > m
    \/ \E n \in Values : /\ n <= m /\ o.OutputDir = args[n]
                         /\ \A k \in Values : k <= m => k <= n

LEMMA UnderstoodParts ==
  \A m : Understood(m) <=> Flags(opts, m) /\ InputsListed(opts, m) /\ Directed(opts, m)
BY DEF Understood, Flags, InputsListed, Directed

LEMMA SetParts ==
  /\ Plain \subseteq 1 .. Len(args) /\ Values \subseteq 1 .. Len(args)
  /\ \A n \in 1 .. Len(args) : /\ n \in Values <=> IsValue(n)
                               /\ n \in Plain <=> ~IsValue(n)
                               /\ n \in Inputs <=> /\ ~IsValue(n)
                                                   /\ Head(args[n]) \notin Dashed
BY DEF Plain, Values, Inputs

LEMMA FlagsMore ==
  ASSUME args \in CommandLine, NEW m \in 1 .. Len(args), NEW o, NEW o1,
         Flags(o, m - 1), o.LineDirs \in BOOLEAN, o.InPlace \in BOOLEAN,
         m \in Plain \ Inputs => args[m] \in {<<"-o">>, <<"-i">>, <<"-l">>},
         o1.LineDirs = (o.LineDirs \/ (m \in Plain /\ args[m] = <<"-l">>)),
         o1.InPlace = (o.InPlace \/ (m \in Plain /\ args[m] = <<"-i">>))
  PROVE  Flags(o1, m)
<1>1. Len(args) \in Nat /\ Plain \subseteq 1 .. Len(args)
  BY ArgTypes, SetParts
<1>2. \A n \in Plain : n <= m <=> n <= m - 1 \/ n = m
  BY <1>1
<1>3. \A n \in Plain \ Inputs : n <= m => args[n] \in {<<"-o">>, <<"-i">>, <<"-l">>}
  BY <1>2 DEF Flags
<1>4. ASSUME NEW word
      PROVE  (\E n \in Plain : n <= m /\ args[n] = word)
               = ((\E n \in Plain : n <= m - 1 /\ args[n] = word)
                    \/ (m \in Plain /\ args[m] = word))
  <2>1. (\E n \in Plain : n <= m /\ args[n] = word)
               <=> ((\E n \in Plain : n <= m - 1 /\ args[n] = word)
                    \/ (m \in Plain /\ args[m] = word))
    BY <1>1, <1>2
  <2> QED BY <2>1
<1>5. /\ o.LineDirs = \E n \in Plain : n <= m - 1 /\ args[n] = <<"-l">>
      /\ o.InPlace = \E n \in Plain : n <= m - 1 /\ args[n] = <<"-i">>
  BY DEF Flags
<1>6. o1.LineDirs = \E n \in Plain : n <= m /\ args[n] = <<"-l">>
  BY <1>4, <1>5
<1>7. o1.InPlace = \E n \in Plain : n <= m /\ args[n] = <<"-i">>
  BY <1>4, <1>5
<1> QED BY <1>3, <1>6, <1>7 DEF Flags

LEMMA InputsListedMore ==
  ASSUME args \in CommandLine, NEW m \in 1 .. Len(args), NEW o, NEW o1,
         InputsListed(o, m - 1),
         m \notin Inputs => o1.InputFiles = o.InputFiles,
         m \in Inputs => o1.InputFiles = Append(o.InputFiles, args[m])
  PROVE  InputsListed(o1, m)
<1>1. CASE m \notin Inputs
  BY <1>1, InputsMore DEF InputsListed
<1>2. CASE m \in Inputs
  <2> DEFINE c == Cardinality(InputsTo(m - 1))
             f == o.InputFiles
             g == [n \in 1 .. c + 1 |-> args[NthInput(n)]]
  <2>1. c \in Nat /\ Cardinality(InputsTo(m)) = c + 1
    BY <1>2, InputsFinite, InputsMore
  <2>2. NthInput(c + 1) = m
    BY <1>2, <2>1, NthIsNth
  <2>3. f = [n \in 1 .. c |-> args[NthInput(n)]]
    BY DEF InputsListed
  <2>4. o1.InputFiles = Append(f, args[m])
    BY <1>2
  <2> HIDE DEF c, f
  <2>5. Append(f, args[m]) = g
    BY <2>1, <2>2, <2>3
  <2> QED BY <2>1, <2>4, <2>5 DEF InputsListed
<1> QED BY <1>1, <1>2

LEMMA DirectedMore ==
  ASSUME args \in CommandLine, NEW m \in 1 .. Len(args), NEW o, NEW o1,
         Directed(o, m - 1),
         m \notin Values => o1.OutputDir = o.OutputDir,
         m \in Values => o1.OutputDir = args[m]
  PROVE  Directed(o1, m)
<1>1. Len(args) \in Nat /\ Values \subseteq 1 .. Len(args)
  BY ArgTypes, SetParts
<1>2. \A n \in Values : /\ n <= m <=> n <= m - 1 \/ n = m
                        /\ n > m - 1 <=> n > m \/ n = m
  BY <1>1
<1>3. CASE m \in Values
  BY <1>3 DEF Directed
<1>4. CASE m \notin Values
  BY <1>2, <1>4 DEF Directed
<1> QED BY <1>3, <1>4

-----------------------------------------------------------------------------
(* The arguments never change, so what is said of them does not. *)
LEMMA SameArgs ==
  ASSUME args' = args, NEW m
  PROVE  Understood(m)' <=> Flags(opts', m) /\ InputsListed(opts', m) /\ Directed(opts', m)
<1>1. \A n : IsValue(n)' <=> IsValue(n)
  BY DEF IsValue
<1>2. Values' = Values /\ Plain' = Plain
  BY <1>1 DEF Values, Plain
<1>3. Inputs' = Inputs
  BY <1>2 DEF Inputs
<1>4. \A n : InputsTo(n)' = InputsTo(n)
  BY <1>3 DEF InputsTo
<1>5. \A n : NthInput(n)' = NthInput(n)
  BY <1>3, <1>4 DEF NthInput
<1> QED BY <1>2, <1>3, <1>4, <1>5 DEF Understood, Flags, InputsListed, Directed

(* A turn of the loop of ParseArgs that goes on to the next argument. *)
Turn(o1, mode1) ==
    /\ o1 \in OptsType /\ mode1 \in {"none", "o"}
    /\ mode1 = "o" <=> IsValue(i + 1)
    /\ Flags(o1, i) /\ InputsListed(o1, i) /\ Directed(o1, i)

LEMMA Options ==
  ASSUME NEW o \in OptsType
  PROVE  /\ o = [InPlace |-> o.InPlace, LineDirs |-> o.LineDirs,
                 OutputDir |-> o.OutputDir, InputFiles |-> o.InputFiles]
         /\ o.InPlace \in BOOLEAN /\ o.LineDirs \in BOOLEAN
         /\ o.InputFiles \in Seq(Seq(Piece))
BY DEF OptsType

LEMMA TurnKeeps ==
  ASSUME ReadInv, Parsing(mode),
         ReadValue \/ OutputOption \/ InPlaceOption \/ LineOption \/ InputFile
  PROVE  Turn(opts', mode')
<1> DEFINE P == Seq(Piece)
           o == opts
           o1 == opts'
<1>1. /\ args \in CommandLine /\ opts \in OptsType
      /\ i \in 1 .. Len(args) /\ mode \in {"none", "o"}
      /\ mode = "o" <=> IsValue(i)
      /\ Understood(i - 1)
  BY DEF ReadInv, Parsing
<1>2. /\ Len(args) \in Nat /\ i \in Nat \ {0}
      /\ args[i] \in P /\ args[i] # <<>>
  BY <1>1, ArgTypes
<1>3. /\ i \in Values <=> IsValue(i)
      /\ i \in Plain <=> ~IsValue(i)
      /\ i \in Inputs <=> ~IsValue(i) /\ Head(args[i]) \notin Dashed
  BY <1>1, SetParts
<1>4. Flags(o, i - 1) /\ InputsListed(o, i - 1) /\ Directed(o, i - 1)
  BY <1>1, UnderstoodParts
<1>5. IsValue(i + 1) <=> args[i] = <<"-o">> /\ ~IsValue(i)
  BY <1>2, ValueAfter
<1>6. /\ o = [InPlace |-> o.InPlace, LineDirs |-> o.LineDirs,
              OutputDir |-> o.OutputDir, InputFiles |-> o.InputFiles]
      /\ o.InPlace \in BOOLEAN /\ o.LineDirs \in BOOLEAN
      /\ o.InputFiles \in Seq(P)
  BY <1>1, Options
<1>7. /\ Head(<<"-o">>) \in Dashed /\ Head(<<"-i">>) \in Dashed
      /\ Head(<<"-l">>) \in Dashed
      /\ <<"-o">> # <<"-i">> /\ <<"-o">> # <<"-l">> /\ <<"-i">> # <<"-l">>
  BY ReadAssumption
<1>8. ASSUME o1 \in OptsType, mode' \in {"none", "o"},
             mode' = "o" <=> IsValue(i + 1),
             i \in Plain \ Inputs => args[i] \in {<<"-o">>, <<"-i">>, <<"-l">>},
             o1.LineDirs = (o.LineDirs \/ (i \in Plain /\ args[i] = <<"-l">>)),
             o1.InPlace = (o.InPlace \/ (i \in Plain /\ args[i] = <<"-i">>)),
             i \notin Inputs => o1.InputFiles = o.InputFiles,
             i \in Inputs => o1.InputFiles = Append(o.InputFiles, args[i]),
             i \notin Values => o1.OutputDir = o.OutputDir,
             i \in Values => o1.OutputDir = args[i]
      PROVE  Turn(o1, mode')
  <2>1. Flags(o1, i)
    BY <1>1, <1>4, <1>6, <1>8, FlagsMore
  <2>2. InputsListed(o1, i)
    BY <1>1, <1>4, <1>8, InputsListedMore
  <2>3. Directed(o1, i)
    BY <1>1, <1>4, <1>8, DirectedMore
  <2> QED BY <1>8, <2>1, <2>2, <2>3 DEF Turn
<1>9. CASE ReadValue
  <2>1. mode = "o" /\ mode' = "none" /\ opts' = [opts EXCEPT !.OutputDir = args[i]]
    BY <1>9 DEF ReadValue, Parsing, Arg
  <2>2. /\ i \in Values /\ i \notin Plain /\ i \notin Inputs /\ ~IsValue(i + 1)
    BY <1>1, <1>3, <1>5, <2>1
  <2>3. /\ o1.InPlace = o.InPlace /\ o1.LineDirs = o.LineDirs
        /\ o1.InputFiles = o.InputFiles /\ o1.OutputDir = args[i]
    BY <1>6, <2>1
  <2>4. o1 \in OptsType
    BY <1>1, <1>2, <2>1 DEF OptsType
  <2> QED BY <1>6, <1>8, <2>1, <2>2, <2>3, <2>4
<1>10. ASSUME mode = "none" PROVE i \notin Values /\ i \in Plain /\ ~IsValue(i)
  BY <1>1, <1>3, <1>10
<1>11. CASE OutputOption
  <2>1. mode = "none" /\ mode' = "o" /\ opts' = opts /\ args[i] = <<"-o">>
    BY <1>11 DEF OutputOption, Parsing, Arg
  <2>2. i \notin Values /\ i \in Plain /\ i \notin Inputs /\ IsValue(i + 1)
    BY <1>3, <1>5, <1>7, <1>10, <2>1
  <2> QED BY <1>1, <1>6, <1>7, <1>8, <2>1, <2>2
<1>12. CASE InPlaceOption
  <2>1. /\ mode = "none" /\ mode' = mode /\ args[i] = <<"-i">>
        /\ opts' = [opts EXCEPT !.InPlace = TRUE]
    BY <1>12 DEF InPlaceOption, Parsing, Arg
  <2>2. i \notin Values /\ i \in Plain /\ i \notin Inputs /\ ~IsValue(i + 1)
    BY <1>3, <1>5, <1>7, <1>10, <2>1
  <2>3. /\ o1.InPlace = TRUE /\ o1.LineDirs = o.LineDirs
        /\ o1.InputFiles = o.InputFiles /\ o1.OutputDir = o.OutputDir
    BY <1>6, <2>1
  <2>4. o1 \in OptsType
    BY <1>1, <2>1 DEF OptsType
  <2> QED BY <1>6, <1>7, <1>8, <2>1, <2>2, <2>3, <2>4
<1>13. CASE LineOption
  <2>1. /\ mode = "none" /\ mode' = mode /\ args[i] = <<"-l">>
        /\ opts' = [opts EXCEPT !.LineDirs = TRUE]
    BY <1>13 DEF LineOption, Parsing, Arg
  <2>2. i \notin Values /\ i \in Plain /\ i \notin Inputs /\ ~IsValue(i + 1)
    BY <1>3, <1>5, <1>7, <1>10, <2>1
  <2>3. /\ o1.InPlace = o.InPlace /\ o1.LineDirs = TRUE
        /\ o1.InputFiles = o.InputFiles /\ o1.OutputDir = o.OutputDir
    BY <1>6, <2>1
  <2>4. o1 \in OptsType
    BY <1>1, <2>1 DEF OptsType
  <2> QED BY <1>6, <1>7, <1>8, <2>1, <2>2, <2>3, <2>4
<1>14. CASE InputFile
  <2>1. /\ mode = "none" /\ mode' = mode /\ Head(args[i]) \notin Dashed
        /\ opts' = [opts EXCEPT !.InputFiles = Append(@, args[i])]
    BY <1>14 DEF InputFile, Parsing, Arg
  <2>2. /\ args[i] # <<"-o">> /\ args[i] # <<"-i">> /\ args[i] # <<"-l">>
    BY <1>7, <2>1
  <2>3. i \notin Values /\ i \in Plain /\ i \in Inputs /\ ~IsValue(i + 1)
    BY <1>3, <1>5, <1>10, <2>1, <2>2
  <2>4. /\ o1.InPlace = o.InPlace /\ o1.LineDirs = o.LineDirs
        /\ o1.InputFiles = Append(o.InputFiles, args[i])
        /\ o1.OutputDir = o.OutputDir
    BY <1>6, <2>1
  <2>5. Append(o.InputFiles, args[i]) \in Seq(P)
    BY <1>2, <1>6
  <2>6. o1 \in OptsType
    BY <1>1, <1>6, <2>1, <2>5 DEF OptsType
  <2> QED BY <1>6, <1>8, <2>1, <2>2, <2>3, <2>4, <2>6
<1> QED BY <1>9, <1>11, <1>12, <1>13, <1>14

(* Where ParseArgs ends. *)
LEMMA StopInv ==
  ASSUME ReadInv, HelpOption \/ AttachedValue \/ InvalidOption
  PROVE  ReadInv'
<1>1. args' = args /\ progress' \in {"help", "error"} /\ progress = "parse"
  BY DEF HelpOption, AttachedValue, InvalidOption, Stop, environment, Parsing
<1>2. opts' \in OptsType
  <2>1. CASE HelpOption \/ InvalidOption
    BY <2>1 DEF HelpOption, InvalidOption, ReadInv
  <2>2. CASE AttachedValue
    <3>1. /\ opts' = [opts EXCEPT !.OutputDir = Tail(args[i])]
          /\ i \in 1 .. Len(args) /\ opts \in OptsType /\ args \in CommandLine
      BY <1>1, <2>2 DEF AttachedValue, Parsing, Arg, ReadInv
    <3>2. args[i] \in Seq(Piece) /\ args[i] # <<>>
      BY <3>1, ArgTypes
    <3>3. Tail(args[i]) \in Seq(Piece)
      BY <3>2
    <3> QED BY <3>1, <3>3 DEF OptsType
  <2> QED BY <2>1, <2>2
<1>3. args' \in CommandLine
  BY <1>1 DEF ReadInv
<1> QED BY <1>1, <1>2, <1>3 DEF ReadInv, Started, CommandLine, Piece, OptsType

LEMMA CheckInv ==
  ASSUME ReadInv, CheckOptions
  PROVE  ReadInv'
<1>1. /\ args' = args /\ opts' = opts /\ mode' = mode /\ progress = "parse"
      /\ progress' = IF Accepted THEN "find" ELSE "error"
      /\ i > Len(args)
  BY DEF CheckOptions, environment
<1>2. /\ args \in CommandLine /\ opts \in OptsType
      /\ i \in 1 .. Len(args) + 1 /\ Understood(i - 1)
  BY <1>1 DEF ReadInv
<1>3. i - 1 = Len(args)
  <2>1. Len(args) \in Nat
    BY <1>2, ArgTypes
  <2> QED BY <1>1, <1>2, <2>1
<1>4. Understood(Len(args))'
  <2>1. Understood(Len(args))
    BY <1>2, <1>3
  <2> DEFINE m == Len(args)
  <2>2. m' = m
    BY <1>1
  <2>3. Understood(m)
    BY <2>1
  <2> HIDE DEF m
  <2>4. Flags(opts', m) /\ InputsListed(opts', m) /\ Directed(opts', m)
    BY <1>1, <2>3, UnderstoodParts
  <2> QED BY <1>1, <2>4, SameArgs DEF m
<1>5. progress' = "find" => Accepted'
  BY <1>1 DEF Accepted
<1> QED BY <1>1, <1>2, <1>4, <1>5 DEF ReadInv, Started, CommandLine, Piece, OptsType

(* Nothing else touches the options, or the arguments. *)
LEMMA LaterKeeps ==
  ASSUME ReadInv, progress \in Started \cup {"aborted"},
         FindFiles \/ SkipFile \/ ReadSource \/ CannotRead \/ UseSources
           \/ OutputFile \/ Finish
  PROVE  /\ args' = args /\ opts' = opts /\ mode' = mode /\ progress \in Started
         /\ progress' \in Started \cup {"aborted"}
BY DEF FindFiles, SkipFile, ReadSource, CannotRead, UseSources, OutputFile, Finish,
       Reads, NextFile, Stop, environment, Started

LEMMA LaterStarted ==
  ASSUME FindFiles \/ SkipFile \/ ReadSource \/ CannotRead \/ UseSources
           \/ OutputFile \/ Finish
  PROVE  progress \in Started
BY DEF FindFiles, SkipFile, ReadSource, CannotRead, UseSources, OutputFile, Finish,
       Reads, Started

LEMMA SameOptionsInv ==
  ASSUME ReadInv, args' = args, opts' = opts, mode' = mode, i' = i \/ progress' # "parse",
         progress' = progress \/ (progress \in Started /\ progress' # "parse")
  PROVE  ReadInv'
<1>1. args \in CommandLine /\ opts \in OptsType
  BY DEF ReadInv
<1>2. ASSUME progress' = "parse"
      PROVE  /\ i' \in 1 .. Len(args') + 1 /\ mode' \in {"none", "o"}
             /\ mode' = "o" <=> IsValue(i)'
             /\ Understood(i - 1)'
  <2>1. progress = "parse" /\ i' = i
    BY <1>2 DEF Started
  <2>2. /\ i \in 1 .. Len(args) + 1 /\ mode \in {"none", "o"}
        /\ mode = "o" <=> IsValue(i)
        /\ Understood(i - 1)
    BY <2>1 DEF ReadInv
  <2>3. IsValue(i)' <=> IsValue(i)
    BY <2>1 DEF IsValue
  <2> DEFINE m == i - 1
  <2>4. m' = m
    BY <2>1
  <2>5. Understood(m)
    BY <2>2
  <2> HIDE DEF m
  <2>6. Flags(opts', m) /\ InputsListed(opts', m) /\ Directed(opts', m)
    BY <2>5, UnderstoodParts
  <2>7. Understood(m)'
    BY <2>4, <2>6, SameArgs
  <2> QED BY <2>1, <2>2, <2>3, <2>7 DEF m
<1>3. ASSUME progress' \in Started
      PROVE  Accepted' /\ Understood(Len(args))'
  <2> DEFINE m == Len(args)
  <2>1. progress \in Started
    BY <1>3
  <2>2. m' = m
    OBVIOUS
  <2>3. Accepted /\ Understood(m)
    BY <2>1 DEF ReadInv
  <2>4. Accepted'
    BY <2>3 DEF Accepted
  <2> HIDE DEF m
  <2>5. Flags(opts', m) /\ InputsListed(opts', m) /\ Directed(opts', m)
    BY <2>3, UnderstoodParts
  <2>6. Understood(m)'
    BY <2>2, <2>5, SameArgs
  <2> QED BY <2>4, <2>6 DEF m
<1>4. args' \in CommandLine /\ opts' \in OptsType
  BY <1>1
<1> QED BY <1>2, <1>3, <1>4 DEF ReadInv, Started, CommandLine, OptsType, Piece

LEMMA TurnInv ==
  ASSUME ReadInv,
         ReadValue \/ OutputOption \/ InPlaceOption \/ LineOption \/ InputFile
  PROVE  ReadInv'
<1>1. /\ Parsing(mode) /\ i' = i + 1 /\ args' = args /\ progress' = "parse"
      /\ i \in 1 .. Len(args) /\ args \in CommandLine
  BY DEF ReadValue, OutputOption, InPlaceOption, LineOption, InputFile,
         Parsing, NextArg, environment, ReadInv
<1>2. Turn(opts', mode')
  BY <1>1, TurnKeeps
<1>3. Len(args) \in Nat
  BY <1>1, ArgTypes
<1>4. i' - 1 = i /\ i' \in 1 .. Len(args') + 1
  BY <1>1, <1>3
<1>5. IsValue(i)' <=> IsValue(i + 1)
  BY <1>1 DEF IsValue
<1>6. Understood(i - 1)'
  <2> DEFINE m == i
  <2>1. Flags(opts', m) /\ InputsListed(opts', m) /\ Directed(opts', m)
    BY <1>2 DEF Turn
  <2> QED BY <1>1, <1>2, <1>4, SameArgs DEF Turn
<1>7. opts' \in OptsType /\ mode' \in {"none", "o"} /\ (mode' = "o" <=> IsValue(i)')
  BY <1>2, <1>5 DEF Turn
<1>8. args' \in CommandLine
  BY <1>1
<1> QED BY <1>1, <1>4, <1>6, <1>7, <1>8 DEF ReadInv, Started, CommandLine, OptsType, Piece

LEMMA ReadStepInv == ReadInv /\ [ReadNext]_reading => ReadInv'
<1> SUFFICES ASSUME ReadInv, [ReadNext]_reading PROVE ReadInv'
  OBVIOUS
<1>1. CASE ReadValue \/ OutputOption \/ InPlaceOption \/ LineOption \/ InputFile
  BY <1>1, TurnInv
<1>2. CASE HelpOption \/ AttachedValue \/ InvalidOption
  BY <1>2, StopInv
<1>3. CASE CheckOptions
  BY <1>3, CheckInv
<1>4. CASE FindFiles \/ SkipFile \/ ReadSource \/ CannotRead \/ UseSources
             \/ OutputFile \/ Finish
  <2>1. progress \in Started
    BY <1>4, LaterStarted
  <2>2. /\ args' = args /\ opts' = opts /\ mode' = mode
        /\ progress' \in Started \cup {"aborted"}
    BY <1>4, <2>1, LaterKeeps
  <2>3. progress' # "parse"
    BY <2>2 DEF Started
  <2> QED BY <2>1, <2>2, <2>3, SameOptionsInv
<1>5. CASE UNCHANGED reading
  <2>1. args' = args /\ opts' = opts /\ mode' = mode /\ i' = i /\ progress' = progress
    BY <1>5 DEF reading
  <2> QED BY <2>1, SameOptionsInv
<1> QED BY <1>1, <1>2, <1>3, <1>4, <1>5 DEF ReadNext, ParseArgs

LEMMA ReadInitInv == args \in CommandLine /\ Start => ReadInv
<1> SUFFICES ASSUME args \in CommandLine, Start PROVE ReadInv
  OBVIOUS
<1>1. /\ i = 1 /\ mode = "none" /\ progress = "parse"
      /\ opts = [InPlace |-> FALSE, LineDirs |-> FALSE,
                 OutputDir |-> NoDir, InputFiles |-> <<>>]
  BY DEF Start
<1>2. opts \in OptsType
  <2>1. <<>> \in Seq(Seq(Piece))
    OBVIOUS
  <2> QED BY <1>1, <2>1 DEF OptsType
<1>3. Len(args) \in Nat /\ Plain \subseteq 1 .. Len(args) /\ Values \subseteq 1 .. Len(args)
  BY ArgTypes, SetParts
<1>4. \A n \in 1 .. Len(args) : ~(n <= 0) /\ n > 0
  BY <1>3
<1>5. InputsTo(0) = {} /\ Cardinality(InputsTo(0)) = 0
  <2>1. InputsTo(0) = {}
    BY <1>3, <1>4, InputsFinite DEF InputsTo
  <2> QED BY <2>1, FS_EmptySet
<1>6. InputsListed(opts, 0)
  <2>1. opts.InputFiles = <<>>
    BY <1>1
  <2>2. [n \in 1 .. 0 |-> args[NthInput(n)]] = <<>>
    OBVIOUS
  <2> QED BY <1>5, <2>1, <2>2 DEF InputsListed
<1>7. Flags(opts, 0) /\ Directed(opts, 0)
  BY <1>1, <1>3, <1>4 DEF Flags, Directed
<1>8. i - 1 = 0 /\ i \in 1 .. Len(args) + 1
  BY <1>1, <1>3
<1>9. Understood(i - 1)
  BY <1>6, <1>7, <1>8, UnderstoodParts
<1> QED BY <1>1, <1>2, <1>8, <1>9, FirstNoValue DEF ReadInv, Started

(* Whatever the command line is, ParseArgs knows at each argument what the *)
(* ones before it mean, and nothing changes the options afterwards         *)
(* (args.re 15-60).                                                        *)
THEOREM ReadInvCorrect == ReadSpec => []ReadInv
<1>1. args \in CommandLine /\ Start => ReadInv
  BY ReadInitInv
<1>2. ReadInv /\ [ReadNext]_reading => ReadInv'
  BY ReadStepInv
<1> QED BY <1>1, <1>2, PTL DEF ReadSpec

LEMMA ReadInvMeans == ReadInv => ArgsUnderstood
<1> SUFFICES ASSUME ReadInv, progress \in Started PROVE ArgsUnderstood
  BY DEF ArgsUnderstood
<1> DEFINE N == Len(args)
<1>1. args \in CommandLine /\ opts \in OptsType /\ Accepted /\ Understood(N)
  BY DEF ReadInv
<1>2. /\ N \in Nat /\ Plain \subseteq 1 .. N /\ Values \subseteq 1 .. N
      /\ Inputs \subseteq 1 .. N
  BY <1>1, ArgTypes, SetParts, InputsFinite
<1>3. \A n \in 1 .. N : n <= N /\ ~(n > N)
  BY <1>2
<1>4. Flags(opts, N) /\ InputsListed(opts, N) /\ Directed(opts, N)
  BY <1>1, UnderstoodParts
<1>5. InputsTo(N) = Inputs
  BY <1>2, <1>3 DEF InputsTo
<1>6. \A n \in 1 .. N : args[n] # NoDir
  BY <1>1, ArgTypes, ReadAssumption
<1> HIDE DEF N
<1>7. /\ \A n \in Plain \ Inputs : args[n] \in {<<"-o">>, <<"-i">>, <<"-l">>}
      /\ opts.LineDirs = \E n \in Plain : args[n] = <<"-l">>
      /\ opts.InPlace = \E n \in Plain : args[n] = <<"-i">>
  BY <1>2, <1>3, <1>4 DEF Flags
<1>8. opts.InputFiles = [n \in 1 .. Cardinality(Inputs) |-> args[NthInput(n)]]
  BY <1>4, <1>5 DEF InputsListed
<1>9. \/ opts.OutputDir = NoDir /\ Values = {}
      \/ /\ opts.OutputDir # NoDir
         /\ \E n \in Values : opts.OutputDir = args[n] /\ \A k \in Values : k <= n
  BY <1>2, <1>3, <1>4, <1>6 DEF Directed
<1>10. Len(opts.InputFiles) = Cardinality(Inputs)
  <2>1. Cardinality(Inputs) \in Nat
    BY <1>1, <1>5, InputsFinite
  <2> QED BY <1>8, <2>1
<1>11. /\ opts.InPlace # (opts.OutputDir # NoDir)
       /\ opts.OutputDir = NoDir \/ Cardinality(Inputs) = 1
  BY <1>1, <1>10 DEF Accepted
<1>12. CASE opts.OutputDir = NoDir
  <2>1. opts.InPlace
    BY <1>7, <1>11, <1>12
  <2> QED BY <1>7, <1>8, <1>9, <1>12, <2>1 DEF ArgsUnderstood
<1>13. CASE opts.OutputDir # NoDir
  <2>1. ~opts.InPlace
    BY <1>7, <1>11, <1>13
  <2> QED BY <1>7, <1>8, <1>9, <1>11, <1>13, <2>1 DEF ArgsUnderstood
<1> QED BY <1>12, <1>13

(* So the program starts only when every argument is understood, for       *)
(* command lines of any length (ParseArgs, and main.cc 93-101).            *)
THEOREM ArgsUnderstoodCorrect == ReadSpec => []ArgsUnderstood
BY ReadInvCorrect, ReadInvMeans, PTL
=============================================================================
