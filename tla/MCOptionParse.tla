--------------------------- MODULE MCOptionParse ---------------------------
(* Options of list and of config-wq, and every short line of arguments for   *)
(* them.                                                                     *)
EXTENDS OptionParse

O(short, long, type) == [short |-> short, long |-> long, type |-> type]

MCTable == {
    <<O("d", <<"d", "evice">>, "string"), O("g", <<"g", "roup">>, "string"),
      O("G", <<"g", "roup", "s">>, "boolean"), O("i", <<"i", "d", "le">>, "boolean")>>,
    <<O("g", <<"g", "roup", "-id">>, "number"), O("n", <<"n", "ame">>, "string"),
      O("m", <<"m", "ode">>, "string"), O("c", <<"m", "ax-batch-size">>, "number")>>}

A(dash, text) == [dash |-> dash, text |-> text]

MCArgument == {
    A(0, <<"x">>), A(0, <<"8">>), A(2, <<>>), A(1, <<"1">>), A(1, <<"h">>),
    A(1, <<"d">>), A(1, <<"i", "G">>), A(1, <<"i", "d">>), A(1, <<"i", "d", "le">>),
    A(1, <<"i", "d", "x">>), A(1, <<"g", "8">>), A(1, <<"n", "h">>),
    A(2, <<"g", "roup">>), A(2, <<"g", "roup", "s">>), A(2, <<"g", "roup", "=", "8">>),
    A(2, <<"g", "roup", "s", "=", "x">>), A(2, <<"g", "roup", "=">>), A(2, <<"g">>),
    A(2, <<"n">>), A(2, <<"n", "=", "x">>), A(2, <<"m">>), A(2, <<"=", "8">>),
    A(2, <<"n", "o-", "g", "roup">>), A(2, <<"n", "o-", "g">>),
    A(2, <<"n", "o-", "g", "roup", "=", "x">>), A(2, <<"help">>)}

CONSTANT MaxArgs
MCCommandLine == UNION {[1..n -> MCArgument] : n \in 0..MaxArgs}

MCPiece == {"n", "o-", "=", "d", "evice", "g", "roup", "G", "s", "i", "le", "-id", "ame",
            "m", "ode", "c", "ax-batch-size", "x", "8", "1", "h", "help"}

MCNumberOf == (A(0, <<"8">>) :> 8) @@ (A(1, <<"1">>) :> -1) @@ (A(0, <<>>) :> 0)
=============================================================================
