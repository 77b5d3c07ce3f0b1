------------------------------- MODULE MCLoader -------------------------------
(* A and B both import C, A twice, and B without the extension.               *)
EXTENDS Loader

CONSTANTS a, b, c

Plain(d) == [dll |-> d, exact |-> TRUE]
Bare(d) == [dll |-> d, exact |-> FALSE]

Fork == (a :> <<Plain(c), Plain(c)>>) @@ (b :> <<Bare(c)>>) @@ (c :> <<>>)
=============================================================================
