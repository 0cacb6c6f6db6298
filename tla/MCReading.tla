----------------------------- MODULE MCReading -----------------------------
(* All command lines of up to four arguments over one tree, and some       *)
(* complete ones over several.  The tree has a directory in a directory,   *)
(* a link to a file, a link to the tree itself, a file that is no source   *)
(* and perhaps one that cannot be read; the output directory is there or   *)
(* not, and may hold an old output file.                                   *)
EXTENDS Reading, Lexer, TLC

Src == <<"src">>
Out == <<"out">>
InSrc(name) == <<Src, <<name>>>>

Tree == (<<Src>> :> Dir)
     @@ (InSrc("a.c") :> File(<<"text">>))
     @@ (InSrc("sub") :> Dir)
     @@ (<<Src, <<"sub">>, <<"b.h">>>> :> File(<<"text">>))
     @@ (InSrc("l.h") :> Link(InSrc("a.c")))
     @@ (InSrc("loop") :> Link(<<Src>>))
     @@ (InSrc("README") :> File(<<"text">>))

Trees == {Tree,
          Tree @@ (<<Out>> :> Dir),
          Tree @@ (<<Out>> :> Dir) @@ (<<Out, <<"a.c">>>> :> File(<<"old">>)),
          Tree @@ (<<Out>> :> File(<<"text">>)),
          Tree @@ (<<<<"lnk">>>> :> Link(<<Src>>)),
          [Tree EXCEPT ![InSrc("a.c")] = File(Unreadable)]}

Orders == {<<<<"out">>, <<"src">>, <<"a.c">>, <<"l.h">>, <<"sub">>, <<"loop">>,
             <<"README">>, <<"b.h">>>>,
           <<<<"b.h">>, <<"README">>, <<"loop">>, <<"sub">>, <<"l.h">>, <<"a.c">>,
             <<"src">>, <<"out">>>>}

Argument == {<<"-o">>, <<"-o", "out">>, <<"-i">>, <<"-l">>, <<"-h">>, <<"-x">>, Src,
             <<"src", "/", "a.c">>, <<"out">>}

Input == {Src, <<"src", "/">>, <<"src", "/", "a.c">>, <<"src", "/", "loop", "/", "sub">>,
          <<"src", "/", "a.c", "/">>, <<"lnk">>, <<"src", "/", "loop">>}
Output == {Out, <<"out", "/">>, <<"out", "/", "gen">>, Src, <<"src", "/", "sub">>}

CommandLines == {<<<<"-o">>, out, in>> : out \in Output, in \in Input}
           \cup {<<in1, <<"-i">>, in2>> : in1 \in Input, in2 \in Input}

ReadInit ==
    /\ Start /\ order \in Orders /\ closeNull \in {"returns", "aborts"}
    /\ \/ args \in UNION {[1 .. n -> Argument] : n \in 0 .. 4} /\ fs = Tree
          /\ closeNull = "returns" /\ order[1] = <<"out">>
       \/ args \in CommandLines /\ fs \in Trees

-----------------------------------------------------------------------------
(* The texts: all short ones, and longer ones of the characters of one     *)
(* kind of token. *)
Strings(chars, n) == UNION {[1 .. k -> chars] : k \in 0 .. n}

Texts ==
    {Append(s, "NUL") : s \in
       Strings(Char, 2) \cup Strings({"0", "a", "-", "\"", "@", " ", "LF", "{"}, 3)
         \cup Strings({"/", "*", "a", "LF", "NUL"}, 5)
         \cup Strings({"\"", "'", "\\", "a"}, 5) \cup Strings({"L", "\"", "'", "a"}, 4)
         \cup Strings({"#", "if", "endif", " ", "\\", "CR", "LF"}, 4)
         \cup Strings({"0", ".", "e", "x", "L", "-"}, 4)}

MCLexInit == text \in Texts /\ LexInit

-----------------------------------------------------------------------------
(* Every token list made of up to MaxPieces of the pieces that FindInline- *)
(* Functions tells apart: complete functions, prototypes that swallow what *)
(* follows, names that are lost, braces without a match.                   *)
CONSTANT MaxPieces \* bound: pieces of a token list

Tokens(syms) == [k \in 1 .. Len(syms) |-> [sym |-> syms[k], str |-> <<>>]]
Name == <<[sym |-> "Ident", str |-> <<"F">>]>>

Pieces == {Tokens(<<"Static", "EOL", "Inline", "WS">>), Tokens(<<"EXPORT_INLINE">>),
           Name \o Tokens(<<"LPar">>), Tokens(<<"LBrace">>), Tokens(<<"RBrace">>),
           Tokens(<<"Static">>) \o Name \o Tokens(<<"WS", "LPar">>),
           Tokens(<<"EXPORT_INLINE">>) \o Name \o Tokens(<<"LPar", "LBrace">>)}

TokenLists ==
    {Append(Seqs!FlattenSeq(ps), EOFToken) :
       ps \in UNION {[1 .. n -> Pieces] : n \in 0 .. MaxPieces}}

MCScanInit == tokens \in TokenLists /\ ScanInit

-----------------------------------------------------------------------------
(* One of the three in each behaviour; what is lexed is scanned as well.   *)
VARIABLE inUse

everything == <<reading, lexer, tokens, scan, phase, inUse>>

NothingToRead == /\ Start /\ args = <<>> /\ fs = Tree /\ closeNull = "returns"
                 /\ order = CHOOSE o \in Orders : TRUE

NothingToLex == text = <<"NUL">> /\ cursor = 1 /\ result = <<>> /\ error = FALSE

NothingToScan == /\ tokens = <<EOFToken>> /\ pos = 1 /\ funcs = <<>>
                 /\ phase = "called"

MCInit ==
    \/ inUse = "arguments" /\ ReadInit /\ NothingToLex /\ NothingToScan
    \/ inUse = "text" /\ MCLexInit /\ NothingToRead
    \/ inUse = "tokens" /\ MCScanInit /\ NothingToLex /\ NothingToRead

MCNext ==
    /\ \/ inUse = "arguments" /\ ReadNext /\ UNCHANGED <<lexer, tokens, scan, phase>>
       \/ inUse = "text" /\ LexNext /\ UNCHANGED reading
       \/ inUse = "tokens" /\ ScanNext /\ UNCHANGED <<lexer, reading>>
    /\ UNCHANGED inUse

(* Nothing but Tokenize and FindInlineFunctions can stop their loops. *)
MCSpec == /\ MCInit /\ [][MCNext]_everything
          /\ WF_<<lexer, tokens, scan, phase>>(LexNext)
=============================================================================
