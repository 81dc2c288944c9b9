-------------------------- MODULE MCRequestLifecycle --------------------------
(* Small instances of RequestLifecycle.                                     *)
EXTENDS RequestLifecycle, TLC
CONSTANTS r1, r2
Symmetry == Permutations(Requests)
Ask(personal, passed) == [personal |-> personal, passed |-> passed]
SomePrompts ==
    {Ask(<<>>, TRUE), Ask(<<TRUE>>, TRUE), Ask(<<TRUE>>, FALSE), Ask(<<FALSE>>, TRUE),
     Ask(<<TRUE, TRUE>>, TRUE), Ask(<<FALSE, TRUE>>, FALSE)}
=============================================================================
