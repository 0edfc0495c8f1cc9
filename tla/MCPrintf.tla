------------------------------ MODULE MCPrintf ------------------------------
(***************************************************************************)
(* Directives for model checking Printf: every conversion, every qualifier *)
(* where it matters, flags alone and where one overrides another.          *)
(***************************************************************************)
EXTENDS Printf

MCDirectives ==
    {d \in [flags : {{}, {"-", "0"}, {"#", "0"}, {"+", " ", "0"}, {" ", "#"}},
            width : {Absent, Literal(<<1, 0>>), Star(6), Star(-6)},
            precision : {Absent, Literal(<<>>), Literal(<<3>>), Star(-1)},
            qualifier : {"none", "h", "l", "L"},
            conversion : Numeric \cup {"c", "s", "n", "%", "end", "k"}] :
        /\ d.qualifier # "none" => d.conversion \in {"d", "u", "x"}
        /\ d.conversion \in {"i", "X", "o", "n", "%", "end", "k"} =>
              d.flags \in {{}, {"#", "0"}} /\ d.precision.from # "star"
        /\ d.width = Star(6) => d.precision.from # "none"}

MCStrings == {<<>>, <<"a", "b", "c", "d">>}
MCLongs == {-128, -32, -8, 0, 100}
=============================================================================
