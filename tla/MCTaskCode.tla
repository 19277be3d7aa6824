----------------------------- MODULE MCTaskCode -----------------------------
(***************************************************************************)
(* Texts for TaskCode: every text of a few tokens, and the text of the     *)
(* compiler's own test.                                                    *)
(***************************************************************************)
EXTENDS TaskCode

Token(tag, data) == [tag |-> tag, data |-> data]

\* Every way blocks, jumps and one plain item nest...
FlowTokens ==
    {Token(tag, 0) : tag \in {"while", "break", "continue"} \cup BlockTags}
      \cup {Token("int", 1)}

\* ...and every order in which variables and strings are met.
HeapTokens ==
    {Token("store", 1), Token("load", 1), Token("load", 2),
     Token("string", 1), Token("string", 2), Token("builtin", 7)}

\* 0 =i loop { i 3 < ! if { break } atomic { "hello " logs i logi " world"
\* logi } i 1 - =i }, with lt, not, logs, logi, sub as builtins 3, 4, 5, 6, 7.
Doctest ==
    << Token("int", 0), Token("store", 1), Token("loop", 0),
       Token("load", 1), Token("int", 3), Token("builtin", 3),
       Token("builtin", 4), Token("if", 0), Token("break", 0), End(8),
       Token("atomic", 0), Token("string", 1), Token("builtin", 5),
       Token("load", 1), Token("builtin", 6), Token("string", 2),
       Token("builtin", 6), End(11),
       Token("load", 1), Token("int", 1), Token("builtin", 7),
       Token("store", 1), End(3) >>

MCTokens ==
    FlowTokens \cup HeapTokens
      \cup {Doctest[k] : k \in {k \in 1 .. Len(Doctest) : Doctest[k].tag # "close"}}
MCBounds ==
    {[tokens |-> FlowTokens, length |-> 6], [tokens |-> HeapTokens, length |-> 3]}
MCExamples == {Doctest}

\* "hello " and " world"
MCChars == <<6, 6>>
MCBytes == <<6, 6>>

=============================================================================
