---------------------------- MODULE StreamContract ----------------------------
(***************************************************************************)
(* What the streaming hook promises the client: before the first text it   *)
(* decides whether the answer is restored or passed on as it is, and never *)
(* mixes the two; the client sees text only as a growing beginning of that *)
(* answer and at the end all of it, wherever the stream is cut in chunks.  *)
(***************************************************************************)
EXTENDS SequencesExt

CONSTANTS
    Chunks,      \* texts that a chunk may carry
    Restored(_)  \* a text with the values in place of the placeholders

VARIABLES
    kind,      \* "undecided", "restored" or "verbatim"
    received,  \* text of the model so far
    shown,     \* text of the client so far
    ended

contractVars == <<kind, received, shown, ended>>

Final(text) == IF kind = "restored" THEN Restored(text) ELSE text

Init == kind = "undecided" /\ received = <<>> /\ shown = <<>> /\ ended = FALSE

Decide ==
    /\ kind = "undecided"
    /\ kind' \in {"restored", "verbatim"}
    /\ UNCHANGED <<received, shown, ended>>

Receive(c) ==
    /\ kind # "undecided" /\ ~ended
    /\ received' = received \o c
    /\ IsPrefix(shown, shown')
    /\ IsPrefix(shown', Final(received'))
    /\ UNCHANGED <<kind, ended>>

End ==
    /\ kind # "undecided" /\ ~ended
    /\ ended' = TRUE
    /\ IsPrefix(shown, shown')
    /\ shown' = Final(received)
    /\ UNCHANGED <<kind, received>>

Next == Decide \/ (\E c \in Chunks : Receive(c)) \/ End

Spec == Init /\ [][Next]_contractVars
=============================================================================
