--------------------------- MODULE UnsafeSections ---------------------------
(***************************************************************************)
(* FindUnsafeSections of src/src/analyzer.cc: one pass over the tokens of  *)
(* a source that finds the parts to be compiled without guards, and the    *)
(* collection of the calls made in them.  The code does not parse the      *)
(* conditionals: it keeps one counter (if_level) and one flag (prot), and  *)
(* takes every #if whose text holds WARD_ENABLED for the start of a part.  *)
(*                                                                         *)
(* Beside the code's variables the module reads the same tokens the way    *)
(* the preprocessor does, in three history variables (depth, at, hidden).  *)
(* The properties compare the two.                                         *)
(***************************************************************************)
EXTENDS Integers, Sequences

CONSTANTS NTokens,   \* tokens in the source
          Kind       \* the kinds of token that occur in it

(* "ifndef ward" stands for #ifndef WARD_ENABLED and #if !defined(...);    *)
(* "ifdef ward" for the positive forms; "call" for a call of one of the    *)
(* functions in wardfuncs; "other" for a token the scan does not look at.  *)
Kinds == {"ifndef ward", "ifdef ward", "if", "else", "elif", "endif",
          "call", "other"}

ASSUME NTokensAssumption == NTokens \in Nat
ASSUME KindAssumption == Kind \subseteq Kinds

Pos == 0 .. NTokens - 1

VARIABLES tokens,        \* the source
          progress,         \* "scan", "collect", "done" or "undefined"
          i,             \* loop variable: token of the scan, then section
          if_level, prot,
          start, end,    \* sec->start and sec->end, positions of directives
          unsafe_calls,  \* source->unsafe_calls, as the set of its positions
          depth,         \* history: open conditionals
          at,            \* history: the depth of the group hidden by
                         \*   WARD_ENABLED, 0 when there is none
          hidden,        \* history: calls compiled without WARD_ENABLED only
          odd            \* history: what the source has that the scan is
                         \*   not written for

code == <<i, if_level, prot, start, end>>
history == <<depth, at, hidden, odd>>
sectionVars == <<tokens, progress, code, unsafe_calls, history>>

SectionsInit ==
    /\ tokens \in [Pos -> Kind]
    /\ progress = "scan"
    /\ i = 0 /\ if_level = 0 /\ prot = TRUE
    /\ start = <<>> /\ end = <<>> /\ unsafe_calls = {}
    /\ depth = 0 /\ at = 0 /\ hidden = {} /\ odd = {}

-----------------------------------------------------------------------------
(* The preprocessor's reading of token t at position p. *)
Reads(t, p) ==
    /\ depth' = CASE t \in {"if", "ifdef ward", "ifndef ward"} -> depth + 1
                  [] t = "endif" /\ depth > 0 -> depth - 1
                  [] OTHER -> depth
    /\ at' = CASE t = "ifndef ward" /\ at = 0 -> depth + 1
               [] t \in {"else", "elif", "endif"} /\ at = depth -> 0
               [] OTHER -> at
    /\ hidden' = IF t = "call" /\ at > 0 THEN hidden \cup {p} ELSE hidden
    /\ odd' = odd \cup (IF t = "endif" /\ depth = 0 THEN {"stray"} ELSE {})
                  \cup (IF t = "ifdef ward" THEN {"positive"} ELSE {})
                  \cup (IF t \in {"ifdef ward", "ifndef ward"} /\ at > 0
                           THEN {"nested"} ELSE {})

(* case SymPPIf, with WARD_ENABLED in its text, whatever the sense of it. *)
WardIf(t) == /\ t \in {"ifndef ward", "ifdef ward"}
             /\ prot' = FALSE
             /\ if_level' = 1
             /\ start' = Append(start, i)
             /\ UNCHANGED end

(* Mutant: conditionals inside a section are not counted. *)
UncountedIf(t) == /\ t = "if"
                  /\ UNCHANGED <<if_level, prot, start, end>>

PlainIf(t) == /\ t = "if"
              /\ if_level' = IF if_level > 0 THEN if_level + 1 ELSE if_level
              /\ UNCHANGED <<prot, start, end>>

(* Mutant: an inner #else or #endif ends the section. *)
EndAnyLevel == IF ~prot
               THEN prot' = TRUE /\ end' = Append(end, i)
               ELSE UNCHANGED <<prot, end>>

(* if (!prot && if_level == 1) { prot = true; sec->end->add(i); } *)
EndSection == IF ~prot /\ if_level = 1
              THEN prot' = TRUE /\ end' = Append(end, i)
              ELSE UNCHANGED <<prot, end>>

Else(t) == /\ t \in {"else", "elif"}
           /\ EndSection
           /\ UNCHANGED <<if_level, start>>

(* Mutant: only #else and #elif end a section. *)
EndifKeeps(t) == /\ t = "endif"
                 /\ if_level' = IF if_level > 0 THEN if_level - 1 ELSE if_level
                 /\ UNCHANGED <<prot, start, end>>

Endif(t) == /\ t = "endif"
            /\ EndSection
            /\ if_level' = IF if_level > 0 THEN if_level - 1 ELSE if_level
            /\ UNCHANGED start

Default(t) == /\ t \in {"call", "other"}
              /\ UNCHANGED <<if_level, prot, start, end>>

Scan == /\ progress = "scan" /\ i < NTokens
        /\ LET t == tokens[i]
           IN  /\ WardIf(t) \/ PlainIf(t) \/ Else(t) \/ Endif(t) \/ Default(t)
               /\ Reads(t, i)
        /\ i' = i + 1
        /\ UNCHANGED <<tokens, progress, unsafe_calls>>

(* sec->start->len() == 0: the source has no section, and gets no list. *)
NoSection == /\ progress = "scan" /\ i = NTokens /\ start = <<>>
             /\ progress' = "done"
             /\ UNCHANGED <<tokens, code, unsafe_calls, history>>

Sections == /\ progress = "scan" /\ i = NTokens /\ start # <<>>
            /\ progress' = "collect"
            /\ i' = 1
            /\ UNCHANGED <<tokens, if_level, prot, start, end, unsafe_calls,
                           history>>

(* FindCalls(funcmap, source, sec->start->at(i), sec->end->at(i), false) *)
CallsIn(first, last) == {p \in Pos : first <= p /\ p <= last /\ tokens[p] = "call"}

Collect == /\ progress = "collect" /\ i <= Len(start) /\ i <= Len(end)
           /\ unsafe_calls' = unsafe_calls \cup CallsIn(start[i], end[i])
           /\ i' = i + 1
           /\ UNCHANGED <<tokens, progress, if_level, prot, start, end, history>>

(* A start without an end: sec->end->at(i) is out of range.  A build with  *)
(* contracts has failed the ensure before; the other reads past the list.  *)
MissingEnd == /\ progress = "collect" /\ i <= Len(start) /\ i > Len(end)
              /\ progress' = "undefined"
              /\ UNCHANGED <<tokens, code, unsafe_calls, history>>

Finish == /\ progress = "collect" /\ i > Len(start)
          /\ progress' = "done"
          /\ UNCHANGED <<tokens, code, unsafe_calls, history>>

SectionsNext == Scan \/ NoSection \/ Sections \/ Collect \/ MissingEnd \/ Finish

SectionsSpec == SectionsInit /\ [][SectionsNext]_sectionVars

-----------------------------------------------------------------------------
SectionsTypeOK ==
    /\ tokens \in [Pos -> Kind]
    /\ progress \in {"scan", "collect", "done", "undefined"}
    /\ i \in Nat /\ if_level \in Nat /\ prot \in BOOLEAN
    /\ start \in Seq(Pos) /\ end \in Seq(Pos)
    /\ unsafe_calls \in SUBSET Pos /\ hidden \in SUBSET Pos
    /\ depth \in Nat /\ at \in 0 .. depth
    /\ odd \in SUBSET {"stray", "positive", "nested"}

(* The whole source has been read and its conditionals are closed. *)
Balanced == (progress = "scan" => i = NTokens) /\ depth = 0 /\ "stray" \notin odd

(* Comment of Step 4 in main.cc: the calls found are those in the parts    *)
(* surrounded by #ifndef WARD_ENABLED, in every balanced source that uses  *)
(* only that form and does not nest it.                                    *)
FindsHiddenCalls ==
    progress = "done" /\ Balanced /\ odd = {} => unsafe_calls = hidden

(* The postcondition of the code, "ward sections did not match up", in the *)
(* sources the scan is written for, and that every section it finds is a   *)
(* section: it opens before it closes, and closes before the next opens.   *)
SectionsPaired ==
    Balanced /\ odd = {} =>
      /\ Len(start) = Len(end)
      /\ \A k \in 1 .. Len(start) :
            /\ start[k] < end[k]
            /\ k < Len(start) => end[k] < start[k + 1]

(* In any source at all, unbalanced or nested, an end is recorded only for *)
(* a start that came before it, so the list of ends is never the longer.   *)
EndsHaveStarts ==
    /\ Len(end) <= Len(start)
    /\ \A k \in 1 .. Len(end) : start[k] < end[k]

(* analyzer.cc:269 states this of every source.  A section nested in a     *)
(* section breaks it.                                                      *)
SectionsMatchUp == Balanced => Len(start) = Len(end)

(* main.cc:139-140: only the parts under #ifndef WARD_ENABLED or           *)
(* #if !defined(WARD_ENABLED) are found, in a balanced source.             *)
OnlyHiddenCalls ==
    progress = "done" /\ Balanced /\ "nested" \notin odd
       => unsafe_calls \subseteq hidden

-----------------------------------------------------------------------------
(* The inductive invariant.  While the source has nothing odd, the flag    *)
(* and the counter of the scan say where the preprocessor's reading is.    *)
Scanned == IF progress = "scan" THEN i ELSE NTokens

InSync == odd = {} => /\ prot <=> at = 0
                      /\ at > 0 => if_level = depth - at + 1
                      /\ Len(start) = IF prot THEN Len(end) ELSE Len(end) + 1

Paired == /\ Len(end) <= Len(start)
          /\ ~prot => Len(end) < Len(start)
          /\ \A k \in 1 .. Len(start) : start[k] < Scanned
          /\ \A k \in 1 .. Len(end) : start[k] < end[k] /\ end[k] < Scanned
          /\ odd = {} => \A k \in 1 .. Len(end) :
                           k < Len(start) => end[k] < start[k + 1]

InSection(p) == \/ \E k \in 1 .. Len(end) : start[k] <= p /\ p <= end[k]
                \/ ~prot /\ start[Len(start)] <= p

HiddenFound ==
    odd = {} => hidden = {p \in Pos : /\ p < Scanned
                                      /\ tokens[p] = "call"
                                      /\ InSection(p)}

(* What Collect has gathered when the section list is done up to section n. *)
Gathered(n) == UNION {CallsIn(start[k], end[k]) : k \in 1 .. n}

Collecting ==
    /\ progress = "scan" => unsafe_calls = {} /\ i <= NTokens
    /\ progress = "collect" => /\ i \in 1 .. Len(start) + 1
                               /\ i <= Len(end) + 1
                               /\ unsafe_calls = Gathered(i - 1)
    /\ progress = "done" => /\ Len(start) = Len(end)
                            /\ unsafe_calls = Gathered(Len(start))

SectionsInv == SectionsTypeOK /\ InSync /\ Paired /\ HiddenFound /\ Collecting
=============================================================================
