------------------------ MODULE UnsafeSectionsProofs ------------------------
(***************************************************************************)
(* For sources of any length: the counter and the flag of the scan find    *)
(* exactly the calls that #ifndef WARD_ENABLED hides, in every source that *)
(* is balanced, uses only that form and does not nest it.                  *)
(***************************************************************************)
EXTENDS UnsafeSections, TLAPS

LEMMA InvInitial == SectionsInit => SectionsInv
<1> SUFFICES ASSUME SectionsInit PROVE SectionsInv
  OBVIOUS
<1> USE NTokensAssumption DEF SectionsInit
<1>1. SectionsTypeOK
  BY DEF SectionsTypeOK
<1>2. InSync /\ Paired /\ Collecting
  BY DEF InSync, Paired, Collecting
<1>3. HiddenFound
  BY DEF HiddenFound, Scanned, Pos
<1> QED BY <1>1, <1>2, <1>3 DEF SectionsInv

(* The token in hand is one of the kinds, and so one case is taken. *)
LEMMA TokenKind ==
  ASSUME SectionsTypeOK, i < NTokens
  PROVE  i \in Pos /\ tokens[i] \in Kinds
  BY NTokensAssumption, KindAssumption DEF SectionsTypeOK, Pos

(* What EndSection does, in both cases. *)
LEMMA EndSectionType ==
  ASSUME SectionsTypeOK, i \in Pos, EndSection
  PROVE  prot' \in BOOLEAN /\ end' \in Seq(Pos)
<1>1. prot' \in BOOLEAN
  BY DEF SectionsTypeOK, EndSection
<1>2. end' \in Seq(Pos)
  BY DEF SectionsTypeOK, EndSection
<1> QED BY <1>1, <1>2

LEMMA EndSectionCloses ==
  ASSUME EndSection, ~prot, if_level = 1
  PROVE  prot' = TRUE /\ end' = Append(end, i)
  BY DEF EndSection

LEMMA EndSectionKeeps ==
  ASSUME EndSection, ~(~prot /\ if_level = 1)
  PROVE  prot' = prot /\ end' = end
  BY DEF EndSection

(* What reading a token does to the history, kind by kind. *)
Effect(t, p) ==
  /\ t = "ifndef ward" => /\ depth' = depth + 1
                          /\ at' = IF at = 0 THEN depth + 1 ELSE at
  /\ t \in {"if", "ifdef ward"} => depth' = depth + 1 /\ at' = at
  /\ t \in {"else", "elif"} => /\ depth' = depth
                               /\ at' = IF at = depth THEN 0 ELSE at
  /\ t = "endif" => /\ depth' = IF depth > 0 THEN depth - 1 ELSE depth
                    /\ at' = IF at = depth THEN 0 ELSE at
  /\ t \in {"call", "other"} => depth' = depth /\ at' = at
  /\ t = "call" /\ at > 0 => hidden' = hidden \cup {p}
  /\ ~(t = "call" /\ at > 0) => hidden' = hidden
  /\ odd' \in SUBSET {"stray", "positive", "nested"}
  /\ odd' = {} => /\ odd = {} /\ ~(t = "endif" /\ depth = 0)
                  /\ t # "ifdef ward" /\ ~(t = "ifndef ward" /\ at > 0)

LEMMA ReadsEffect ==
  ASSUME SectionsTypeOK, NEW t \in Kinds, NEW p \in Pos, Reads(t, p)
  PROVE  Effect(t, p)
<1> USE DEF Reads
<1>1. t = "ifndef ward" => /\ depth' = depth + 1
                           /\ at' = IF at = 0 THEN depth + 1 ELSE at
  OBVIOUS
<1>2. t \in {"if", "ifdef ward"} => depth' = depth + 1 /\ at' = at
  OBVIOUS
<1>3. t \in {"else", "elif"} => /\ depth' = depth
                                /\ at' = IF at = depth THEN 0 ELSE at
  OBVIOUS
<1>4. t = "endif" => /\ depth' = IF depth > 0 THEN depth - 1 ELSE depth
                     /\ at' = IF at = depth THEN 0 ELSE at
  OBVIOUS
<1>5. t \in {"call", "other"} => depth' = depth /\ at' = at
  OBVIOUS
<1>6. /\ t = "call" /\ at > 0 => hidden' = hidden \cup {p}
      /\ ~(t = "call" /\ at > 0) => hidden' = hidden
  OBVIOUS
<1>7. odd' \in SUBSET {"stray", "positive", "nested"}
  BY DEF SectionsTypeOK
<1>8. odd' = {} => /\ odd = {} /\ ~(t = "endif" /\ depth = 0)
                   /\ t # "ifdef ward" /\ ~(t = "ifndef ward" /\ at > 0)
  OBVIOUS
<1> HIDE DEF Reads
<1> QED BY <1>1, <1>2, <1>3, <1>4, <1>5, <1>6, <1>7, <1>8 DEF Effect

LEMMA ScanType == SectionsTypeOK /\ Scan => SectionsTypeOK'
<1> SUFFICES ASSUME SectionsTypeOK, Scan PROVE SectionsTypeOK'
  OBVIOUS
<1> DEFINE t == tokens[i]
<1>1. i \in Pos /\ t \in Kinds
  BY TokenKind DEF Scan
<1>2. /\ tokens' = tokens /\ progress' = progress /\ i' = i + 1
      /\ unsafe_calls' = unsafe_calls /\ Reads(t, i)
      /\ WardIf(t) \/ PlainIf(t) \/ Else(t) \/ Endif(t) \/ Default(t)
  BY DEF Scan
<1>3. if_level' \in Nat /\ prot' \in BOOLEAN /\ start' \in Seq(Pos)
                        /\ end' \in Seq(Pos)
  <2>1. CASE WardIf(t)
    <3>1. /\ if_level' = 1 /\ prot' = FALSE /\ start' = Append(start, i)
          /\ end' = end
      BY <2>1 DEF WardIf
    <3>2. start' \in Seq(Pos)
      BY <1>1, <3>1 DEF SectionsTypeOK
    <3>3. prot' \in BOOLEAN /\ if_level' \in Nat /\ end' \in Seq(Pos)
      BY <3>1 DEF SectionsTypeOK
    <3> QED BY <3>2, <3>3
  <2>2. CASE PlainIf(t)  BY <2>2 DEF SectionsTypeOK, PlainIf
  <2>3. CASE Else(t)  BY <1>1, <2>3, EndSectionType DEF SectionsTypeOK, Else
  <2>4. CASE Endif(t)  BY <1>1, <2>4, EndSectionType DEF SectionsTypeOK, Endif
  <2>5. CASE Default(t)  BY <2>5 DEF SectionsTypeOK, Default
  <2> QED BY <1>2, <2>1, <2>2, <2>3, <2>4, <2>5
<1> HIDE DEF t
<1>4. Effect(t, i)
  BY <1>1, <1>2, ReadsEffect
<1>5. depth \in Nat /\ at \in 0 .. depth /\ hidden \in SUBSET Pos
  BY DEF SectionsTypeOK
<1>6. hidden' \in SUBSET Pos /\ odd' \in SUBSET {"stray", "positive", "nested"}
      /\ depth' \in Nat /\ at' \in 0 .. depth'
  <2>1. hidden' \in SUBSET Pos
    BY <1>1, <1>4, <1>5 DEF Effect
  <2>2. odd' \in SUBSET {"stray", "positive", "nested"}
    BY <1>4 DEF Effect
  <2>3. depth' \in Nat /\ at' \in 0 .. depth'
    <3>1. depth \in Nat /\ at \in Nat /\ at <= depth
      BY <1>5
    <3>2. \/ depth' = depth + 1 /\ at' = depth + 1
          \/ depth' = depth + 1 /\ at' = at
          \/ depth' = depth /\ at' = 0
          \/ depth' = depth /\ at' = at
          \/ depth > 0 /\ depth' = depth - 1 /\ at' = 0
          \/ depth > 0 /\ at # depth /\ depth' = depth - 1 /\ at' = at
      <4>1. CASE t = "ifndef ward"  BY <1>4, <4>1 DEF Effect
      <4>2. CASE t \in {"if", "ifdef ward"}  BY <1>4, <4>2 DEF Effect
      <4>3. CASE t \in {"else", "elif"}  BY <1>4, <4>3 DEF Effect
      <4>4. CASE t = "endif"
        <5>1. /\ depth' = IF depth > 0 THEN depth - 1 ELSE depth
              /\ at' = IF at = depth THEN 0 ELSE at
          BY <1>4, <4>4 DEF Effect
        <5> QED BY <5>1
      <4>5. CASE t \in {"call", "other"}  BY <1>4, <4>5 DEF Effect
      <4> QED BY <1>1, <4>1, <4>2, <4>3, <4>4, <4>5 DEF Kinds
    <3>3. depth' \in Nat /\ at' \in Nat /\ at' <= depth'
      BY <3>1, <3>2
    <3> QED BY <3>3
  <2> QED BY <2>1, <2>2, <2>3
<1>7. i' \in Nat /\ tokens' \in [Pos -> Kind] /\ unsafe_calls' \in SUBSET Pos
      /\ progress' \in {"scan", "collect", "done", "undefined"}
  BY <1>2 DEF SectionsTypeOK
<1> QED BY <1>3, <1>6, <1>7 DEF SectionsTypeOK

(* The scan keeps in step with the preprocessor. *)
LEMMA ScanSync == SectionsTypeOK /\ InSync /\ Scan => InSync'
<1> SUFFICES ASSUME SectionsTypeOK, InSync, Scan, odd' = {} PROVE InSync'
  BY DEF InSync
<1> DEFINE t == tokens[i]
<1>1. i \in Pos /\ t \in Kinds
  BY TokenKind DEF Scan
<1>2. /\ Reads(t, i)
      /\ WardIf(t) \/ PlainIf(t) \/ Else(t) \/ Endif(t) \/ Default(t)
  BY DEF Scan
<1> HIDE DEF t
<1>12. Effect(t, i)
  BY <1>1, <1>2, ReadsEffect
<1>3. /\ odd = {} /\ ~(t = "endif" /\ depth = 0) /\ t # "ifdef ward"
      /\ ~(t = "ifndef ward" /\ at > 0)
  BY <1>12 DEF Effect
<1>4. /\ prot <=> at = 0
      /\ at > 0 => if_level = depth - at + 1
      /\ Len(start) = IF prot THEN Len(end) ELSE Len(end) + 1
  BY <1>3 DEF InSync
<1>5. /\ at \in Nat /\ depth \in Nat /\ at <= depth /\ if_level \in Nat
      /\ start \in Seq(Pos) /\ end \in Seq(Pos)
  BY DEF SectionsTypeOK
<1>6. CASE WardIf(t)
  <2>1. at = 0 /\ at' = depth + 1 /\ depth' = depth + 1
    <3>1. t = "ifndef ward"
      BY <1>3, <1>6 DEF WardIf
    <3>2. at = 0
      <4>1. ~(at > 0)
        BY <1>3, <3>1
      <4>2. at \in Nat
        BY <1>5
      <4> QED BY <4>1, <4>2
    <3> QED BY <1>12, <3>1, <3>2 DEF Effect
  <2>2. prot /\ Len(start) = Len(end)
    BY <1>4, <2>1
  <2>3. ~prot' /\ if_level' = 1 /\ Len(start') = Len(start) + 1 /\ end' = end
    <3>1. prot' = FALSE /\ if_level' = 1 /\ start' = Append(start, i) /\ end' = end
      BY <1>6 DEF WardIf
    <3> QED BY <1>1, <1>5, <3>1
  <2> QED BY <1>5, <2>1, <2>2, <2>3 DEF InSync
<1>7. CASE PlainIf(t)
  <2>1. at' = at /\ depth' = depth + 1
    BY <1>12, <1>7 DEF PlainIf, Effect
  <2>2. prot' = prot /\ start' = start /\ end' = end
        /\ (at > 0 => if_level' = if_level + 1)
    BY <1>4, <1>5, <1>7 DEF PlainIf
  <2> QED BY <1>4, <1>5, <2>1, <2>2 DEF InSync
<1>8. ASSUME EndSection, start' = start, at' = IF at = depth THEN 0 ELSE at,
             at > 0 /\ at # depth => if_level' = depth' - at + 1
      PROVE  InSync'
  <2>1. CASE ~prot /\ if_level = 1
    <3>1. prot' = TRUE /\ end' = Append(end, i)
      BY <1>8, <2>1, EndSectionCloses
    <3>2. at > 0 /\ at = depth /\ Len(start) = Len(end) + 1
      BY <1>4, <1>5, <2>1
    <3>3. Len(end') = Len(end) + 1
      BY <1>1, <1>5, <3>1
    <3> QED BY <1>8, <3>1, <3>2, <3>3 DEF InSync
  <2>2. CASE ~(~prot /\ if_level = 1)
    <3>1. prot' = prot /\ end' = end
      BY <1>8, <2>2, EndSectionKeeps
    <3>2. at > 0 => at # depth
      BY <1>4, <1>5, <2>2
    <3>3. at' = at
      BY <1>5, <1>8, <3>2
    <3> QED BY <1>4, <1>8, <3>1, <3>2, <3>3 DEF InSync
  <2> QED BY <2>1, <2>2
<1>9. CASE Else(t)
  <2>1. depth' = depth /\ at' = (IF at = depth THEN 0 ELSE at)
    BY <1>12, <1>9 DEF Else, Effect
  <2> QED BY <1>4, <1>8, <1>9, <2>1 DEF Else
<1>10. CASE Endif(t)
  <2>1. depth > 0 /\ depth' = depth - 1
        /\ at' = (IF at = depth THEN 0 ELSE at)
    BY <1>12, <1>3, <1>5, <1>10 DEF Endif, Effect
  <2>2. at > 0 /\ at # depth => if_level' = depth' - at + 1
    BY <1>4, <1>5, <1>10, <2>1 DEF Endif
  <2> QED BY <1>8, <1>10, <2>1, <2>2 DEF Endif
<1>11. CASE Default(t)
  <2>1. at' = at /\ depth' = depth
    BY <1>12, <1>11 DEF Default, Effect
  <2> QED BY <1>4, <1>11, <2>1 DEF Default, InSync
<1> QED BY <1>2, <1>6, <1>7, <1>9, <1>10, <1>11

(***************************************************************************)
(* The sections.  A step of the scan opens a section, closes the one that  *)
(* is open, or leaves the two lists alone.                                 *)
(***************************************************************************)
Directive == tokens[i] \notin {"call", "other"}

Opens == /\ Directive /\ prot' = FALSE
         /\ start' = Append(start, i) /\ end' = end

Closes == /\ Directive /\ prot = FALSE /\ prot' = TRUE
          /\ start' = start /\ end' = Append(end, i)

Stays == prot' = prot /\ start' = start /\ end' = end

LEMMA ScanMoves == SectionsTypeOK /\ Scan => Opens \/ Closes \/ Stays
<1> SUFFICES ASSUME SectionsTypeOK, Scan PROVE Opens \/ Closes \/ Stays
  OBVIOUS
<1> DEFINE t == tokens[i]
<1>1. WardIf(t) \/ PlainIf(t) \/ Else(t) \/ Endif(t) \/ Default(t)
  BY DEF Scan
<1>2. prot \in BOOLEAN
  BY DEF SectionsTypeOK
<1>3. CASE WardIf(t)
  <2>1. prot' = FALSE /\ start' = Append(start, i) /\ end' = end
    BY <1>3 DEF WardIf
  <2>2. Directive
    BY <1>3 DEF WardIf, Directive
  <2> QED BY <2>1, <2>2 DEF Opens
<1>4. CASE PlainIf(t)  BY <1>4 DEF PlainIf, Stays
<1>5. ASSUME EndSection, start' = start, Directive
      PROVE  Closes \/ Stays
  <2>1. CASE ~prot /\ if_level = 1
    <3>1. prot' = TRUE /\ end' = Append(end, i)
      BY <1>5, <2>1, EndSectionCloses
    <3>2. prot = FALSE
      BY <1>2, <2>1
    <3> QED BY <1>5, <3>1, <3>2 DEF Closes
  <2>2. CASE ~(~prot /\ if_level = 1)
    BY <1>5, <2>2, EndSectionKeeps DEF Stays
  <2> QED BY <2>1, <2>2
<1>6. CASE Else(t)
  <2>1. Directive
    BY <1>6 DEF Else, Directive
  <2> QED BY <1>5, <1>6, <2>1 DEF Else
<1>7. CASE Endif(t)
  <2>1. Directive
    BY <1>7 DEF Endif, Directive
  <2> QED BY <1>5, <1>7, <2>1 DEF Endif
<1>8. CASE Default(t)  BY <1>8 DEF Default, Stays
<1> QED BY <1>1, <1>3, <1>4, <1>6, <1>7, <1>8

(* What a scan step does to a list it appends to. *)
LEMMA AppendFacts ==
  ASSUME NEW s \in Seq(Pos), NEW x \in Pos
  PROVE  /\ Len(Append(s, x)) = Len(s) + 1
         /\ Append(s, x)[Len(s) + 1] = x
         /\ \A k \in 1 .. Len(s) : Append(s, x)[k] = s[k]
  OBVIOUS

(* Positions in the lists are numbers. *)
LEMMA SectionTypes ==
  ASSUME SectionsTypeOK
  PROVE  /\ Len(start) \in Nat /\ Len(end) \in Nat
         /\ \A k \in 1 .. Len(start) : start[k] \in Pos /\ start[k] \in Nat
         /\ \A k \in 1 .. Len(end) : end[k] \in Pos /\ end[k] \in Nat
  BY NTokensAssumption DEF SectionsTypeOK, Pos

(* The scan adds no oddity back: a source that is not odd never was. *)
LEMMA OddGrows == SectionsTypeOK /\ Scan /\ odd' = {} => odd = {}
<1> SUFFICES ASSUME SectionsTypeOK, Scan, odd' = {} PROVE odd = {}
  OBVIOUS
<1>1. i \in Pos /\ tokens[i] \in Kinds
  BY TokenKind DEF Scan
<1>2. Effect(tokens[i], i)
  BY <1>1, ReadsEffect DEF Scan
<1> QED BY <1>2 DEF Effect

LEMMA ScanPaired == SectionsTypeOK /\ InSync /\ Paired /\ Scan => Paired'
<1> SUFFICES ASSUME SectionsTypeOK, InSync, Paired, Scan PROVE Paired'
  OBVIOUS
<1>1. i \in Pos /\ i \in Nat /\ Scanned = i /\ Scanned' = i + 1
  BY TokenKind DEF Scan, Scanned, SectionsTypeOK
<1>2. /\ Len(end) <= Len(start)
      /\ ~prot => Len(end) < Len(start)
      /\ \A k \in 1 .. Len(start) : start[k] < i
      /\ \A k \in 1 .. Len(end) : start[k] < end[k] /\ end[k] < i
      /\ odd = {} => \A k \in 1 .. Len(end) :
                       k < Len(start) => end[k] < start[k + 1]
  BY <1>1 DEF Paired
<1>3. /\ Len(start) \in Nat /\ Len(end) \in Nat
      /\ \A k \in 1 .. Len(start) : start[k] \in Nat
      /\ \A k \in 1 .. Len(end) : end[k] \in Nat
      /\ start \in Seq(Pos) /\ end \in Seq(Pos)
  BY SectionTypes DEF SectionsTypeOK
<1>4. odd' = {} => odd = {}
  BY OddGrows
<1>5. CASE Opens
  <2>1. prot' = FALSE /\ start' = Append(start, i) /\ end' = end
    BY <1>5 DEF Opens
  <2>2. /\ Len(start') = Len(start) + 1 /\ start'[Len(start) + 1] = i
        /\ \A k \in 1 .. Len(start) : start'[k] = start[k]
    BY <1>1, <1>3, <2>1, AppendFacts
  <2>3. Len(end') <= Len(start') /\ Len(end') < Len(start')
    BY <1>2, <1>3, <2>1, <2>2
  <2>4. \A k \in 1 .. Len(start') : start'[k] < i + 1
    BY <1>1, <1>2, <1>3, <2>2
  <2>5. \A k \in 1 .. Len(end') : start'[k] < end'[k] /\ end'[k] < i + 1
    BY <1>1, <1>2, <1>3, <2>1, <2>2
  <2>6. odd' = {} => \A k \in 1 .. Len(end') :
                       k < Len(start') => end'[k] < start'[k + 1]
    <3> SUFFICES ASSUME odd = {}, NEW k \in 1 .. Len(end), k < Len(start')
                 PROVE  end[k] < start'[k + 1]
      BY <1>4, <2>1
    <3>1. CASE k = Len(start)  BY <1>2, <2>2, <3>1
    <3>2. CASE k < Len(start)
      <4>1. end[k] < start[k + 1] /\ k + 1 \in 1 .. Len(start)
        BY <1>2, <1>3, <3>2
      <4> QED BY <2>2, <4>1
    <3> QED BY <1>2, <1>3, <2>2, <3>1, <3>2
  <2> QED BY <1>1, <2>3, <2>4, <2>5, <2>6 DEF Paired
<1>6. CASE Closes
  <2>1. /\ prot = FALSE /\ prot' = TRUE
        /\ start' = start /\ end' = Append(end, i)
    BY <1>6 DEF Closes
  <2>2. /\ Len(end') = Len(end) + 1 /\ end'[Len(end) + 1] = i
        /\ \A k \in 1 .. Len(end) : end'[k] = end[k]
    BY <1>1, <1>3, <2>1, AppendFacts
  <2>3. Len(end) < Len(start)
    BY <1>2, <2>1
  <2>4. \A k \in 1 .. Len(start') : start'[k] < i + 1
    BY <1>1, <1>2, <1>3, <2>1
  <2>5. \A k \in 1 .. Len(end') : start'[k] < end'[k] /\ end'[k] < i + 1
    BY <1>1, <1>2, <1>3, <2>1, <2>2, <2>3
  <2>6. odd' = {} => \A k \in 1 .. Len(end') :
                       k < Len(start') => end'[k] < start'[k + 1]
    <3> SUFFICES ASSUME odd = {}, NEW k \in 1 .. Len(end'), k < Len(start)
                 PROVE  end'[k] < start[k + 1]
      BY <1>4, <2>1
    <3>1. Len(start) = Len(end) + 1
      BY <2>1 DEF InSync
    <3>2. k \in 1 .. Len(end)
      BY <1>3, <3>1
    <3> QED BY <1>2, <2>2, <3>2
  <2>7. Len(end') <= Len(start')
    BY <1>3, <2>1, <2>2, <2>3
  <2> QED BY <1>1, <2>1, <2>4, <2>5, <2>6, <2>7 DEF Paired
<1>7. CASE Stays
  <2>1. prot' = prot /\ start' = start /\ end' = end
    BY <1>7 DEF Stays
  <2>2. /\ \A k \in 1 .. Len(start) : start[k] < i + 1
        /\ \A k \in 1 .. Len(end) : end[k] < i + 1
    BY <1>1, <1>2, <1>3
  <2> QED BY <1>1, <1>2, <1>4, <2>1, <2>2 DEF Paired
<1> QED BY <1>5, <1>6, <1>7, ScanMoves

(***************************************************************************)
(* The calls found so far are those the preprocessor hides.                *)
(***************************************************************************)
LEMMA HiddenGrows ==
  ASSUME SectionsTypeOK, Scan
  PROVE  /\ Directive => hidden' = hidden
         /\ tokens[i] = "call" /\ at > 0 => hidden' = hidden \cup {i}
         /\ ~(tokens[i] = "call" /\ at > 0) => hidden' = hidden
<1>1. i \in Pos /\ tokens[i] \in Kinds
  BY TokenKind DEF Scan
<1>2. Effect(tokens[i], i)
  BY <1>1, ReadsEffect DEF Scan
<1> QED BY <1>2 DEF Effect, Directive

(* Scanning a token moves no earlier token into a section or out of it. *)
LEMMA SectionsKeep ==
  ASSUME SectionsTypeOK, InSync, Paired, Scan, odd' = {}, InSync',
         NEW p \in Pos, p < i
  PROVE  InSection(p)' <=> InSection(p)
<1>1. i \in Nat /\ i \in Pos /\ Scanned = i /\ p \in Nat
  BY TokenKind, NTokensAssumption DEF Scan, Scanned, SectionsTypeOK, Pos
<1>2. /\ Len(start) \in Nat /\ Len(end) \in Nat
      /\ \A k \in 1 .. Len(start) : start[k] \in Nat
      /\ \A k \in 1 .. Len(end) : end[k] \in Nat
      /\ start \in Seq(Pos) /\ end \in Seq(Pos) /\ prot \in BOOLEAN
  BY SectionTypes DEF SectionsTypeOK
<1>3. odd = {}
  BY OddGrows
<1>4. Len(start) = IF prot THEN Len(end) ELSE Len(end) + 1
  BY <1>3 DEF InSync
<1>5. Len(start') = IF prot' THEN Len(end') ELSE Len(end') + 1
  BY DEF InSync
<1>6. CASE Opens
  <2>1. prot' = FALSE /\ start' = Append(start, i) /\ end' = end
    BY <1>6 DEF Opens
  <2>2. /\ Len(start') = Len(start) + 1 /\ start'[Len(start) + 1] = i
        /\ \A k \in 1 .. Len(start) : start'[k] = start[k]
    BY <1>1, <1>2, <2>1, AppendFacts
  <2>3. prot = TRUE /\ Len(start) = Len(end)
    BY <1>2, <1>4, <1>5, <2>1, <2>2
  <2>4. InSection(p) <=> \E k \in 1 .. Len(end) : start[k] <= p /\ p <= end[k]
    BY <2>3 DEF InSection
  <2>5. InSection(p)' <=> \E k \in 1 .. Len(end) : start'[k] <= p /\ p <= end[k]
    <3>1. ~(start'[Len(start')] <= p)
      BY <1>1, <1>2, <2>2
    <3> QED BY <2>1, <3>1 DEF InSection
  <2>6. \A k \in 1 .. Len(end) : start'[k] = start[k]
    BY <2>2, <2>3
  <2> QED BY <2>4, <2>5, <2>6
<1>7. CASE Closes
  <2>1. /\ prot = FALSE /\ prot' = TRUE
        /\ start' = start /\ end' = Append(end, i)
    BY <1>7 DEF Closes
  <2>2. /\ Len(end') = Len(end) + 1 /\ end'[Len(end) + 1] = i
        /\ \A k \in 1 .. Len(end) : end'[k] = end[k]
    BY <1>1, <1>2, <2>1, AppendFacts
  <2>3. Len(start) = Len(end) + 1
    BY <1>4, <2>1
  <2>4. InSection(p) <=>
          \/ \E k \in 1 .. Len(end) : start[k] <= p /\ p <= end[k]
          \/ start[Len(end) + 1] <= p
    BY <2>1, <2>3 DEF InSection
  <2>5. InSection(p)' <=>
          \E k \in 1 .. Len(end') : start[k] <= p /\ p <= end'[k]
    BY <2>1 DEF InSection
  <2>6. (\E k \in 1 .. Len(end') : start[k] <= p /\ p <= end'[k]) <=>
          \/ \E k \in 1 .. Len(end) : start[k] <= p /\ p <= end'[k]
          \/ start[Len(end) + 1] <= p /\ p <= end'[Len(end) + 1]
    BY <1>2, <2>2
  <2>7. p <= end'[Len(end) + 1]
    BY <1>1, <2>2
  <2> QED BY <2>2, <2>4, <2>5, <2>6, <2>7
<1>8. CASE Stays
  BY <1>8 DEF Stays, InSection
<1> QED BY <1>6, <1>7, <1>8, ScanMoves

(* A call is in a section when it is scanned iff the preprocessor hides it. *)
LEMMA CallScanned ==
  ASSUME SectionsTypeOK, InSync, Paired, Scan, odd' = {}, tokens[i] = "call",
         NEW p \in Pos, p = i
  PROVE  InSection(p)' <=> at > 0
<1>1. i \in Nat /\ Scanned = i
  BY DEF Scan, Scanned, SectionsTypeOK
<1>2. /\ Len(start) \in Nat /\ Len(end) \in Nat
      /\ \A k \in 1 .. Len(start) : start[k] \in Nat
      /\ \A k \in 1 .. Len(end) : end[k] \in Nat
      /\ prot \in BOOLEAN /\ at \in Nat
  BY SectionTypes DEF SectionsTypeOK
<1>3. odd = {}
  BY OddGrows
<1>4. prot' = prot /\ start' = start /\ end' = end
  BY ScanMoves DEF Opens, Closes, Stays, Directive
<1>5. InSection(p)' <=> \/ \E k \in 1 .. Len(end) : start[k] <= p /\ p <= end[k]
                        \/ ~prot /\ start[Len(start)] <= p
  BY <1>4 DEF InSection
<1>6. ~ \E k \in 1 .. Len(end) : start[k] <= p /\ p <= end[k]
  BY <1>1, <1>2 DEF Paired
<1>7. ~prot => start[Len(start)] <= p
  BY <1>1, <1>2 DEF Paired
<1>8. prot <=> at = 0
  BY <1>3 DEF InSync
<1> QED BY <1>2, <1>5, <1>6, <1>7, <1>8

LEMMA ScanFound == /\ SectionsTypeOK /\ InSync /\ Paired /\ HiddenFound
                   /\ Scan /\ InSync'
                   => HiddenFound'
<1> SUFFICES ASSUME SectionsTypeOK, InSync, Paired, HiddenFound, Scan, InSync'
             PROVE  HiddenFound'
  OBVIOUS
<1>0. progress' = "scan" /\ i' = i + 1 /\ tokens' = tokens
  BY DEF Scan
<1> SUFFICES ASSUME odd' = {}
             PROVE  hidden' = {p \in Pos : /\ p < i + 1
                                           /\ tokens[p] = "call"
                                           /\ InSection(p)'}
  BY <1>0 DEF HiddenFound, Scanned, Pos
<1>1. i \in Pos /\ i \in Nat /\ Scanned = i
  BY TokenKind DEF Scan, Scanned, SectionsTypeOK
<1>2. hidden = {p \in Pos : p < i /\ tokens[p] = "call" /\ InSection(p)}
  BY <1>1, OddGrows DEF HiddenFound
<1>3. \A p \in Pos : p < i => (InSection(p)' <=> InSection(p))
  BY SectionsKeep
<1>4. \A p \in Pos : p < i + 1 <=> p < i \/ p = i
  BY <1>1, NTokensAssumption DEF Pos
<1>5. CASE tokens[i] = "call" /\ at > 0
  <2>1. hidden' = hidden \cup {i}
    BY <1>5, HiddenGrows
  <2>2. \A p \in Pos : p = i => InSection(p)'
    BY <1>5, CallScanned
  <2> QED BY <1>1, <1>2, <1>3, <1>4, <1>5, <2>1, <2>2
<1>6. CASE ~(tokens[i] = "call" /\ at > 0)
  <2>1. hidden' = hidden
    BY <1>6, HiddenGrows
  <2>2. \A p \in Pos : p = i => ~(tokens[i] = "call" /\ InSection(p)')
    BY <1>6, CallScanned
  <2> QED BY <1>1, <1>2, <1>3, <1>4, <2>1, <2>2
<1> QED BY <1>5, <1>6

(***************************************************************************)
(* The collection.                                                         *)
(***************************************************************************)
LEMMA GatheredNext ==
  ASSUME NEW n \in Nat
  PROVE  /\ Gathered(0) = {}
         /\ Gathered(n + 1) = Gathered(n) \cup CallsIn(start[n + 1], end[n + 1])
<1>1. 1 .. 0 = {} /\ 1 .. n + 1 = (1 .. n) \cup {n + 1}
  OBVIOUS
<1>2. Gathered(0) = {}
  BY <1>1 DEF Gathered
<1>3. Gathered(n + 1) = UNION {CallsIn(start[k], end[k]) : k \in (1 .. n) \cup {n + 1}}
  BY <1>1 DEF Gathered
<1> QED BY <1>2, <1>3 DEF Gathered

LEMMA ScanStep == SectionsInv /\ Scan => SectionsInv'
<1> SUFFICES ASSUME SectionsInv, Scan PROVE SectionsInv'
  OBVIOUS
<1>1. SectionsTypeOK /\ InSync /\ Paired /\ HiddenFound /\ Collecting
  BY DEF SectionsInv
<1>2. SectionsTypeOK' /\ InSync' /\ Paired'
  BY <1>1, ScanType, ScanSync, ScanPaired
<1>3. HiddenFound'
  BY <1>1, <1>2, ScanFound
<1>4. Collecting'
  <2>1. progress = "scan" /\ progress' = "scan" /\ i < NTokens /\ i' = i + 1
        /\ unsafe_calls' = unsafe_calls
    BY DEF Scan
  <2>2. unsafe_calls' = {} /\ i' <= NTokens
    BY <1>1, <2>1, NTokensAssumption DEF Collecting, SectionsTypeOK
  <2> QED BY <2>1, <2>2 DEF Collecting
<1> QED BY <1>2, <1>3, <1>4 DEF SectionsInv

(* After the scan the lists and the reading stay what they are. *)
Settled == /\ progress' \in {"collect", "done", "undefined"}
           /\ Scanned = NTokens
           /\ UNCHANGED <<tokens, if_level, prot, start, end, depth, at,
                          hidden, odd>>

LEMMA SettledKeeps ==
  ASSUME SectionsInv, Settled, i' \in Nat, unsafe_calls' \in SUBSET Pos
  PROVE  SectionsTypeOK' /\ InSync' /\ Paired' /\ HiddenFound'
<1>1. Scanned' = NTokens /\ Scanned = NTokens
  BY DEF Settled, Scanned
<1>2. SectionsTypeOK'
  BY DEF Settled, SectionsInv, SectionsTypeOK
<1>3. InSync'
  BY DEF Settled, SectionsInv, InSync
<1>4. Paired'
  BY <1>1 DEF Settled, SectionsInv, Paired
<1>5. HiddenFound'
  <2>1. \A p \in Pos : InSection(p)' <=> InSection(p)
    BY DEF Settled, InSection
  <2> QED BY <1>1, <2>1 DEF Settled, SectionsInv, HiddenFound, Pos
<1> QED BY <1>2, <1>3, <1>4, <1>5

LEMMA AfterScanStep ==
  SectionsInv /\ (NoSection \/ Sections \/ Collect \/ MissingEnd \/ Finish) => SectionsInv'
<1> SUFFICES ASSUME SectionsInv,
                    NoSection \/ Sections \/ Collect \/ MissingEnd \/ Finish
             PROVE  SectionsInv'
  OBVIOUS
<1> USE DEF code, history
<1>1. /\ Len(start) \in Nat /\ Len(end) \in Nat /\ Len(end) <= Len(start)
      /\ i \in Nat /\ start \in Seq(Pos) /\ end \in Seq(Pos)
      /\ unsafe_calls \in SUBSET Pos
  BY SectionTypes DEF SectionsInv, SectionsTypeOK, Paired
<1>2. Gathered(0) = {}
  BY GatheredNext
<1>3. CASE NoSection
  <2>1. Settled /\ i' = i /\ unsafe_calls' = unsafe_calls
    BY <1>3 DEF NoSection, Settled, Scanned
  <2>2. unsafe_calls = {} /\ Len(start) = 0 /\ progress' = "done"
    BY <1>3 DEF NoSection, SectionsInv, Collecting
  <2>3. Len(end) = 0
    BY <1>1, <2>2
  <2>4. Gathered(0)' = {}
    BY <1>2, <2>1 DEF Settled, Gathered, CallsIn, Pos
  <2>5. Collecting'
    BY <2>1, <2>2, <2>3, <2>4 DEF Collecting, Settled
  <2> QED BY <1>1, <2>1, <2>5, SettledKeeps DEF SectionsInv
<1>4. CASE Sections
  <2>1. Settled /\ i' = 1 /\ unsafe_calls' = unsafe_calls /\ progress' = "collect"
    BY <1>4 DEF Sections, Settled, Scanned
  <2>2. unsafe_calls = {}
    BY <1>4 DEF Sections, SectionsInv, Collecting
  <2>3. Len(start) >= 1
    BY <1>1, <1>4 DEF Sections
  <2>4. Gathered(i - 1)' = {}
    BY <1>2, <2>1 DEF Settled, Gathered, CallsIn, Pos
  <2>5. Collecting'
    BY <1>1, <2>1, <2>2, <2>3, <2>4 DEF Collecting, Settled
  <2> QED BY <1>1, <2>1, <2>5, SettledKeeps DEF SectionsInv
<1>5. CASE Collect
  <2>1. /\ progress = "collect" /\ progress' = "collect" /\ i' = i + 1
        /\ i <= Len(start) /\ i <= Len(end)
        /\ unsafe_calls' = unsafe_calls \cup CallsIn(start[i], end[i])
        /\ UNCHANGED <<tokens, if_level, prot, start, end, depth, at,
                       hidden, odd>>
    BY <1>5 DEF Collect
  <2>2. Settled
    BY <2>1 DEF Settled, Scanned
  <2>3. unsafe_calls = Gathered(i - 1) /\ i >= 1
    BY <1>1, <2>1 DEF SectionsInv, Collecting
  <2>4. unsafe_calls' = Gathered(i)
    <3>1. i - 1 \in Nat /\ (i - 1) + 1 = i
      BY <1>1, <2>3
    <3> QED BY <2>1, <2>3, <3>1, GatheredNext
  <2>5. Gathered(i - 1)' = Gathered(i)
    <3>1. (i - 1)' = i
      BY <1>1, <2>1
    <3> QED BY <2>1, <3>1 DEF Gathered, CallsIn, Pos
  <2>6. Collecting'
    BY <1>1, <2>1, <2>3, <2>4, <2>5 DEF Collecting
  <2>7. unsafe_calls' \in SUBSET Pos
    BY <1>1, <2>1 DEF CallsIn
  <2> QED BY <1>1, <2>1, <2>2, <2>6, <2>7, SettledKeeps DEF SectionsInv
<1>6. CASE MissingEnd
  <2>1. Settled /\ i' = i /\ unsafe_calls' = unsafe_calls
        /\ progress' = "undefined"
    BY <1>6 DEF MissingEnd, Settled, Scanned
  <2>2. Collecting'
    BY <2>1 DEF Collecting
  <2> QED BY <1>1, <2>1, <2>2, SettledKeeps DEF SectionsInv
<1>7. CASE Finish
  <2>1. Settled /\ i' = i /\ unsafe_calls' = unsafe_calls /\ progress' = "done"
        /\ progress = "collect" /\ i > Len(start)
    BY <1>7 DEF Finish, Settled, Scanned
  <2>2. /\ i \in 1 .. Len(start) + 1 /\ i <= Len(end) + 1
        /\ unsafe_calls = Gathered(i - 1)
    BY <2>1 DEF SectionsInv, Collecting
  <2>3. Len(start) = Len(end) /\ i - 1 = Len(start)
    BY <1>1, <2>1, <2>2
  <2>4. Gathered(Len(start))' = Gathered(Len(start))
    BY <2>1 DEF Settled, Gathered, CallsIn, Pos
  <2>5. Collecting'
    BY <2>1, <2>2, <2>3, <2>4 DEF Collecting, Settled
  <2> QED BY <1>1, <2>1, <2>5, SettledKeeps DEF SectionsInv
<1> QED BY <1>3, <1>4, <1>5, <1>6, <1>7

(* Every reachable state of the scan and of the collection satisfies the   *)
(* inductive invariant.                                                    *)
THEOREM InvCorrect == SectionsSpec => []SectionsInv
<1>1. SectionsInv /\ [SectionsNext]_sectionVars => SectionsInv'
  <2> SUFFICES ASSUME SectionsInv, [SectionsNext]_sectionVars PROVE SectionsInv'
    OBVIOUS
  <2>1. CASE Scan  BY <2>1, ScanStep
  <2>2. CASE NoSection \/ Sections \/ Collect \/ MissingEnd \/ Finish
    BY <2>2, AfterScanStep
  <2>3. CASE UNCHANGED sectionVars
    BY <2>3 DEF sectionVars, code, history, SectionsInv, SectionsTypeOK, InSync, Paired, Scanned,
                HiddenFound, InSection, Collecting, Gathered, CallsIn, Pos
  <2> QED BY <2>1, <2>2, <2>3 DEF SectionsNext
<1> QED BY InvInitial, <1>1, PTL DEF SectionsSpec

(* In a source of any length, an end is recorded only for a start before   *)
(* it, whatever the conditionals of the source look like.                  *)
THEOREM EndsCorrect == SectionsSpec => []EndsHaveStarts
<1>1. SectionsInv => EndsHaveStarts
  BY DEF SectionsInv, Paired, EndsHaveStarts
<1> QED BY InvCorrect, <1>1, PTL

LEMMA BalancedOutside == SectionsInv /\ Balanced /\ odd = {} => prot /\ at = 0
<1> SUFFICES ASSUME SectionsInv, Balanced, odd = {} PROVE prot /\ at = 0
  OBVIOUS
<1>1. at = 0
  BY DEF SectionsInv, SectionsTypeOK, Balanced
<1> QED BY <1>1 DEF SectionsInv, InSync

(* In a balanced source that uses only the negative form and does not nest *)
(* it, the starts and ends are as many, and delimit disjoint sections in   *)
(* the order of the source.                                                *)
THEOREM SectionsCorrect == SectionsSpec => []SectionsPaired
<1>1. SectionsInv => SectionsPaired
  <2> SUFFICES ASSUME SectionsInv, Balanced, odd = {}
               PROVE  /\ Len(start) = Len(end)
                      /\ \A k \in 1 .. Len(start) :
                            /\ start[k] < end[k]
                            /\ k < Len(start) => end[k] < start[k + 1]
    BY DEF SectionsPaired
  <2>1. prot
    BY BalancedOutside
  <2>2. Len(start) = Len(end)
    BY <2>1 DEF SectionsInv, InSync
  <2> QED BY <2>2 DEF SectionsInv, Paired
<1> QED BY InvCorrect, <1>1, PTL

(* In such a source the calls found are exactly those the preprocessor     *)
(* hides when WARD_ENABLED is defined.                                     *)
THEOREM CallsCorrect == SectionsSpec => []FindsHiddenCalls
<1>1. SectionsInv => FindsHiddenCalls
  <2> SUFFICES ASSUME SectionsInv, progress = "done", Balanced, odd = {}
               PROVE  unsafe_calls = hidden
    BY DEF FindsHiddenCalls
  <2>1. prot
    BY BalancedOutside
  <2>2. Len(start) = Len(end) /\ unsafe_calls = Gathered(Len(start))
    BY DEF SectionsInv, Collecting
  <2>3. \A p \in Pos : InSection(p) <=>
           \E k \in 1 .. Len(start) : start[k] <= p /\ p <= end[k]
    BY <2>1, <2>2 DEF InSection
  <2>4. hidden = {p \in Pos : tokens[p] = "call" /\ InSection(p)}
    <3>1. \A p \in Pos : p < Scanned
      BY NTokensAssumption DEF Scanned, Pos
    <3> QED BY <3>1 DEF SectionsInv, HiddenFound
  <2> QED BY <2>2, <2>3, <2>4 DEF Gathered, CallsIn
<1> QED BY InvCorrect, <1>1, PTL
=============================================================================
