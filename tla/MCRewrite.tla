----------------------------- MODULE MCRewrite -----------------------------
(* Headers that define the root P, the functions F and g and the           *)
(* blacklisted C, in every order and with every call relation among them;  *)
(* one section, and another after the first run, that calls one of them.   *)
(* Headers that define F in a section.                                     *)
EXTENDS Rewrite

Bare(syms) == [i \in 1 .. Len(syms) |-> Token(syms[i], <<>>)]
Name(n) == <<Token("Ident", <<n>>)>>

Call(n) == Name(n) \o Bare(<<"WS", "LPar", "RPar", "Semicolon">>)
MaybeCall(n, S) == IF n \in S THEN Call(n) ELSE <<>>

Args == Bare(<<"LPar", "RPar">>)
Def(n, S) ==
    (IF n = "F" THEN Bare(<<"Static", "WS", "Inline", "WS">>)
                ELSE Bare(<<"EXPORT_INLINE", "WS">>))
      \o Name(n) \o Args \o Bare(<<"LBrace", "LBrace">>)
      \o MaybeCall("P", S) \o MaybeCall("g", S) \o MaybeCall("C", S)
      \o Bare(<<"RBrace">>) \o MaybeCall("F", S) \o Bare(<<"RBrace">>)
      \o (IF n = "P" THEN Bare(<<"WS">>) ELSE Bare(<<"EOL", "Other", "EOL">>))

(* A function with a blank after its name, which is not found, and a       *)
(* prototype at the end.                                                   *)
Lost == Bare(<<"EXPORT_INLINE", "WS">>) \o Name("h") \o Bare(<<"WS">>) \o Args
          \o Bare(<<"LBrace">>) \o Call("F") \o Bare(<<"RBrace", "EOL">>)
Prototype == Bare(<<"Static", "EOL", "Inline", "WS">>) \o Name("h") \o Args
               \o Bare(<<"Semicolon", "EOL">>)

(* A comment over two lines. *)
Remark == <<Token("Comment", <<"LF">>)>>

MCHeader ==
    {Remark \o Lost \o Def(o[1], callees[o[1]]) \o Def(o[2], callees[o[2]])
       \o Def(o[3], callees[o[3]]) \o Def("C", {"P"})
       \o Bare(<<"Static", "WS", "Other">>) \o Prototype \o Bare(<<"EOF">>) :
          o \in {<<"P", "F", "g">>, <<"g", "P", "F">>},
          callees \in {[P |-> {}, F |-> f, g |-> g] :
                          f \in SUBSET {"P", "g", "C"}, g \in SUBSET {"P", "F"}}}

Section(toks) == <<Token("PPIf", <<"WARD_ENABLED">>), nl>> \o toks
                   \o Bare(<<"EOL", "PPEndif", "EOL">>)

MCNewSection == {Section(Call("F")), Section(Call("g") \o Call("C")),
                 Section(Name("F") \o Bare(<<"Semicolon">>) \o Call("P"))}

SectionHeader ==
    {Def("P", {}) \o Def("g", {}) \o Section(Def("F", S)) \o Bare(<<"EOF">>) :
       S \in SUBSET {"P", "g"}}

OneCall == {Call("F"), <<>>}

(* More than any of these headers has. *)
MCLine == 1 .. 60

MCRoots == {<<"P">>}
MCBlacklist == {<<"C">>}
=============================================================================
