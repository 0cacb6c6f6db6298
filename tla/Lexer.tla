------------------------------- MODULE Lexer -------------------------------
(***************************************************************************)
(* Tokenize (src/src/lexer.re): the text of a source is cut into tokens by *)
(* the longest match of a list of regular expressions, one token per turn  *)
(* of the loop.  It ends at the first NUL, which stands behind the text or *)
(* in it.  When it has ended, the scan of module Scanner follows.          *)
(*                                                                         *)
(* Characters that no rule tells apart are one character: there is one     *)
(* digit, one blank, one "@" that no token begins with, and a whole word   *)
(* such as "if" is one letter.                                             *)
(***************************************************************************)
EXTENDS Scanner

VARIABLES text,    \* source->filedata, with the NUL that ends it
          cursor, result, error

lexer == <<text, cursor, result, error>>

EOLs == {"CR", "LF"}
Digit == {"0"}
Alpha == {"a", "e", "f", "x", "L", "U", "if", "static", "endif"}
Alnum == Alpha \cup Digit
Hex == Digit \cup {"a", "e", "f"}
IntSuffix == {"L", "U"}
AnySuffix == {"L", "U", "f"}   \* Mutant: a number may end as any other
FloatSuffix == {"L", "f"}
OpChars == {"-", ".", "/", "*"}
LongOps == {<<"-", "-">>, <<".", ".", ".">>}
Others == {" ", "(", "{", "}", "'", "\"", "\\", "#", "@"}
any == Alnum \cup OpChars \cup Others     \* all but NUL and line ends
Char == any \cup EOLs \cup {"NUL"}

Keyword == [w \in {"if", "static"} |-> IF w = "static" THEN "Static" ELSE "Other"]
Bracket == [c \in {"(", "{", "}"} |->
              CASE c = "(" -> "LPar" [] c = "{" -> "LBrace" [] c = "}" -> "RBrace"]
Directive == [w \in {"if", "endif"} |-> IF w = "if" THEN "PPIf" ELSE "PPEndif"]

-----------------------------------------------------------------------------
(* Where the rules end that begin at p, as the place after the last        *)
(* character; the NUL behind the text ends every run.                      *)
Run(t, S, p) == First({q \in p .. Len(t) : t[q] \notin S})

Opt(t, S, p) == IF t[p] \in S THEN p + 1 ELSE p

At(t, p) == IF p <= Len(t) THEN t[p] ELSE "NUL"

ExpEnds(t, p) ==
    LET digits == Opt(t, {"-"}, p + 1)
    IN  {p} \cup IF At(t, p) = "e" /\ At(t, digits) \in Digit
                 THEN {Run(t, Digit, digits)} ELSE {}

(* Integers; numbers with an exponent or a point. *)
NumberEnds(t, p) ==
    LET d == Run(t, Digit, p)
        hex == /\ t[p] = "0" /\ At(t, p + 1) = "x" /\ At(t, p + 2) \in Hex
        point == t[d] = "." /\ (d > p \/ At(t, d + 1) \in Digit)
    IN  (IF hex THEN {Run(t, IntSuffix, Run(t, Hex, p + 2))} ELSE {})
        \cup (IF d > p THEN {Run(t, IntSuffix, d)} ELSE {})
        \cup (IF d > p THEN {Opt(t, FloatSuffix, e) : e \in ExpEnds(t, d) \ {d}}
                       ELSE {})
        \cup (IF point THEN {Opt(t, FloatSuffix, e) :
                               e \in ExpEnds(t, Run(t, Digit, d + 1))} ELSE {})

CharEnds(t, o) ==
    LET anych == any \ {"'", "\\"}
        escaped == At(t, o + 1) = "\\" /\ At(t, o + 2) \in any
        last == IF escaped THEN Run(t, anych, o + 3)
                ELSE IF At(t, o + 1) \in anych THEN o + 2 ELSE o
    IN  IF t[o] = "'" /\ last > o /\ t[last] = "'" THEN {last + 1} ELSE {}

StringEnds(t, o) ==
    LET ends[q \in o + 1 .. Len(t)] ==
          IF t[q] = "\"" THEN {q + 1}
          ELSE IF t[q] = "\\"
               THEN IF At(t, q + 1) \in any THEN ends[q + 2] ELSE {}
          ELSE IF t[q] \in any THEN ends[q + 1] ELSE {}
    IN  IF t[o] = "\"" THEN ends[o + 1] ELSE {}

LiteralEnds(t, p) ==
    NumberEnds(t, p)
      \cup UNION {CharEnds(t, o) \cup StringEnds(t, o) : o \in {p, Opt(t, {"L"}, p)}}

OpEnds(t, p) ==
    (IF t[p] \in OpChars THEN {p + 1} ELSE {})
      \cup {p + Len(op) : op \in {o \in LongOps : \A k \in 1 .. Len(o) :
                                    At(t, p + k - 1) = o[k]}}

(* The second scanner: up to the end of the comment, or past the NUL. *)
BlockComment(t, p) ==
    LET closed == {q \in p + 2 .. Len(t) - 1 : t[q] = "*" /\ t[q + 1] = "/"}
        stops == {q \in p .. Len(t) : q \in closed \/ t[q] = "NUL"}
    IN  IF First(stops) \in closed THEN First(stops) + 2 ELSE First(stops) + 1

CommentEnds(t, p) ==
    IF t[p] = "/" /\ At(t, p + 1) = "*" THEN {BlockComment(t, p)}
    ELSE IF t[p] = "/" /\ At(t, p + 1) = "/" /\ At(t, p + 2) \in any
    THEN {Run(t, any, p + 2)} ELSE {}

EOLEnds(t, p) == IF t[p] \notin EOLs THEN {}
                 ELSE {IF t[p] = "CR" THEN Opt(t, {"LF"}, p + 1) ELSE p + 1}

(* Blanks, and a backslash with the blanks between it and the line's end.  *)
BlankEnds(t, p) ==
    IF t[p] = " " \/ (t[p] = "\\" /\ t[Run(t, {" "}, p + 1)] \in EOLs)
    THEN {Run(t, {" "}, p + 1)} ELSE {}

(* A directive takes the rest of its line. *)
DirectiveSym(t, p) ==
    LET from == Run(t, {" "}, p + 1)
        to == Run(t, Alnum, from)
    IN  IF to = from + 1 /\ t[from] \in DOMAIN Directive
        THEN Directive[t[from]] ELSE "PPOther"

WordSym(t, p) == IF Run(t, Alnum, p) = p + 1 /\ t[p] \in DOMAIN Keyword
                 THEN Keyword[t[p]] ELSE "Ident"

(* All that the rules match at p: the end and the symbol. *)
Candidates(t, p) ==
    LET as(ends, sym) == {[end |-> e, sym |-> sym] : e \in ends}
    IN  as(IF t[p] \in Alpha THEN {Run(t, Alnum, p)} ELSE {}, WordSym(t, p))
        \cup as(LiteralEnds(t, p), "Other") \cup as(OpEnds(t, p), "Other")
        \cup as(CommentEnds(t, p), "Comment")
        \cup as(EOLEnds(t, p), "EOL") \cup as(BlankEnds(t, p), "WS")
        \cup as(IF t[p] = "#" THEN {Run(t, any, p)} ELSE {}, DirectiveSym(t, p))
        \cup as(IF t[p] \in DOMAIN Bracket THEN {p + 1} ELSE {},
                IF t[p] \in DOMAIN Bracket THEN Bracket[t[p]] ELSE "Other")

BAD(p) == [end |-> p + 1, sym |-> "BAD"]

Match(t, p) == IF Candidates(t, p) = {} THEN BAD(p)
               ELSE CHOOSE c \in Candidates(t, p) :
                      \A d \in Candidates(t, p) : d.end <= c.end

TokenAt(t, p) ==
    [sym |-> Match(t, p).sym, str |-> SubSeq(t, p, Match(t, p).end - 1)]

EOFToken == [sym |-> "EOF", str |-> <<>>]

-----------------------------------------------------------------------------
(* What is read from a file, with the NUL behind it. *)
IsText(t) == /\ t \in Spelling /\ Len(t) \in Nat \ {0}
             /\ t[Len(t)] = "NUL"

(* While it lexes, source->tokens is NULL: here a list of no tokens. *)
LexInit == /\ IsText(text)
           /\ cursor = 1 /\ result = <<>> /\ error = FALSE
           /\ tokens = <<EOFToken>> /\ pos = 1 /\ funcs = <<>>
           /\ phase = "lex"

(* Mutant: the NUL that ends a comment does not end the text. *)
DoneAtNul(t, p) == At(t, p) = "NUL"

(* At a NUL, or behind the one that ended a comment. *)
Done(t, p) == At(t, p) = "NUL" \/ (p > 1 /\ t[p - 1] = "NUL")

PushToken == /\ phase = "lex" /\ ~Done(text, cursor)
             /\ result' = Append(result, TokenAt(text, cursor))
             /\ error' = (error \/ Match(text, cursor) = BAD(cursor))
             /\ cursor' = Match(text, cursor).end
             /\ UNCHANGED <<text, tokens, scan, phase>>

PushEOF == /\ phase = "lex" /\ Done(text, cursor)
           /\ tokens' = Append(result, EOFToken)
           /\ phase' = "scan"
           /\ UNCHANGED <<lexer, scan>>

Tokenize == PushToken \/ PushEOF

LexNext == Tokenize \/ (ScanNext /\ UNCHANGED lexer)

LexSpec == LexInit /\ [][LexNext]_<<lexer, tokens, scan, phase>>

-----------------------------------------------------------------------------
(* What Tokenize makes of a text, in one step. *)
Lexed(t) ==
    LET from[p \in 1 .. Len(t) + 1] ==
          IF Done(t, p) THEN <<EOFToken>>
          ELSE <<TokenAt(t, p)>> \o from[Match(t, p).end]
    IN  from[1]

Text(ts) ==
    LET upTo[n \in 0 .. Len(ts)] == IF n = 0 THEN <<>>
                                    ELSE upTo[n - 1] \o ts[n].str
    IN  upTo[Len(ts)]

Lexing == phase = "lex" \/ tokens # Append(result, EOFToken)

(* No character of a source is lost between its tokens, up to the first    *)
(* NUL; behind that NUL nothing is kept, and it is kept itself exactly if  *)
(* it ends a comment.  The tokens end with the one EOF that the scanning   *)
(* loops look for, and Tokenize reports an error exactly if one is BAD.    *)
TokensHoldText ==
    /\ Text(result) = SubSeq(text, 1, cursor - 1)
    /\ \A p \in 1 .. cursor - 2 : text[p] # "NUL"
    /\ error <=> \E k \in 1 .. Len(result) : result[k].sym = "BAD"
    /\ IsTokenList(tokens)
    /\ ~Lexing /\ cursor > 1 /\ text[cursor - 1] = "NUL" =>
          result[Len(result)].sym = "Comment"

(* What the loop of Tokenize keeps: every character before the cursor is   *)
(* in a token, in order, and a NUL among them is the last and ends a       *)
(* comment; the scan begins when the list is complete.  Inductive for      *)
(* LexSpec (Tokenize, lexer.re).                                           *)
LexInv ==
    /\ IsText(text) /\ cursor \in 1 .. Len(text) + 1
    /\ result \in Seq([sym : Symbol \ {"EOF"}, str : Spelling])
    /\ Text(result) = SubSeq(text, 1, cursor - 1)
    /\ \A p \in 1 .. cursor - 2 : text[p] # "NUL"
    /\ error \in BOOLEAN
    /\ error <=> \E k \in 1 .. Len(result) : result[k].sym = "BAD"
    /\ cursor > 1 /\ text[cursor - 1] = "NUL" =>
         Len(result) > 0 /\ result[Len(result)].sym = "Comment"
    /\ ScanInv
    /\ phase = "lex" => pos = 1 /\ funcs = <<>>

RenamedAt(k) == [tokens EXCEPT ![k].str = <<"U">> \o @]

(* Putting UNSAFE_ in front of a name changes no other token for the next  *)
(* run, unless the name begins right behind a number (which then takes the *)
(* U for its suffix): the strings that Main step 8 puts in place of others *)
(* are the tokens the next run will find.                                  *)
RenamingHolds ==
    phase = "scan" /\ pos = 1 /\ ~Lexing =>
      /\ Lexed(Append(Text(tokens), "NUL")) = tokens
      /\ \A k \in 1 .. Len(tokens) :
           /\ tokens[k].sym = "Ident"
           /\ k > 1 => LET s == tokens[k - 1].str IN s[Len(s)] \notin Alnum
           => Lexed(Append(Text(RenamedAt(k)), "NUL")) = RenamedAt(k)
=============================================================================
