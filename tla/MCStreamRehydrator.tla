-------------------------- MODULE MCStreamRehydrator --------------------------
(* Small instances of StreamRehydrator.                                    *)
EXTENDS StreamRehydrator, TLC

Symbols == {"[", "]", "A", "_", "1", "n"}
Known == <<"[", "A", "_", "1", "]">>
KnownToo == <<"[", "A", "_", "1", "1", "]">>

\* A value that itself contains a bracket, and a longer one.
TwoNames == Known :> <<"x", "[">> @@ KnownToo :> <<"x", "x", "x">>

\* Single characters, and chunks that hold or cut a placeholder.
Pieces ==
    {<<>>, Known, KnownToo, <<"x">> \o Known, Known \o <<"[", "A">>, <<"_", "1", "]">>}
    \cup {<<c>> : c \in Symbols}
=============================================================================
