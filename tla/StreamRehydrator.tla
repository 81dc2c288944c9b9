--------------------------- MODULE StreamRehydrator ---------------------------
(***************************************************************************)
(* callbacks/stream_rehydrator.py in the streaming hook of                 *)
(* callbacks/base_router.py.  A text is a sequence of classes of           *)
(* characters: "[", "]", "A" for an upper case letter, "_", "1" for a      *)
(* digit, "n" for a newline, "x" for any other.                            *)
(***************************************************************************)
EXTENDS Naturals, SequencesExt

CONSTANTS
    Mapping,   \* the request's mapping: placeholders to texts
    Chunks,    \* texts of a chunk
    MaxText    \* bound: length of the answer

Characters == {"[", "]", "A", "_", "1", "n", "x"}

ASSUME StreamAssumption ==
    /\ Chunks \subseteq Seq(Characters)
    /\ \A p \in DOMAIN Mapping : p \in Seq(Characters) /\ Mapping[p] \in Seq(Characters)
    /\ MaxText \in Nat

VARIABLES
    mode,      \* "asking" for the mapping, then "restoring" or "bypass"; "ended"
    buffer,    \* StreamRehydrator.buffer
    template,  \* whether some chunk with text has come: last_chunk
    restored,  \* whether the mode was "restoring"
    received, shown

streamVars == <<mode, buffer, template, restored, received, shown>>

-----------------------------------------------------------------------------
\* _PLACEHOLDER_PATTERN, \[[A-Z][A-Z_]*_\d+\]
IsPlaceholder(s) ==
    \E k \in 3 .. Len(s) - 2 :
        /\ s[1] = "[" /\ s[2] = "A" /\ s[k] = "_" /\ s[Len(s)] = "]"
        /\ \A i \in 3 .. k - 1 : s[i] \in {"A", "_"}
        /\ \A i \in k + 1 .. Len(s) - 1 : s[i] = "1"

Found(text, i) == {j \in i .. Len(text) : IsPlaceholder(SubSeq(text, i, j))}

Value(p) == IF p \in DOMAIN Mapping THEN Mapping[p] ELSE p

\* sub() with the mapping: placeholders it does not know are kept.  They
\* cannot overlap: each contains "[" only as its first character.
Piece(text, i) ==
    IF Found(text, i) # {} THEN Value(SubSeq(text, i, CHOOSE j \in Found(text, i) : TRUE))
    ELSE IF \E h \in 1 .. i : \E j \in Found(text, h) : i <= j THEN <<>>
    ELSE <<text[i]>>

Rehydrated(text) == FlattenSeq([i \in DOMAIN text |-> Piece(text, i)])

\* Digits are not part of an incomplete placeholder.
WrongPartial(text) ==
    {i \in DOMAIN text :
        /\ text[i] = "["
        /\ \A j \in i + 1 .. Len(text) :
              text[j] \in {"A", "_"} \/ (j = Len(text) /\ text[j] = "n")}

\* _PARTIAL_PATTERN, \[[A-Z_\d]*$ (the $ matches before a last newline too).
Partial(text) ==
    {i \in DOMAIN text :
        /\ text[i] = "["
        /\ \A j \in i + 1 .. Len(text) :
              text[j] \in {"A", "_", "1"} \/ (j = Len(text) /\ text[j] = "n")}

SafeLength(text) ==
    IF Partial(text) = {} THEN Len(text) ELSE (CHOOSE i \in Partial(text) : TRUE) - 1

-----------------------------------------------------------------------------
StreamInit ==
    /\ mode = "asking"
    /\ buffer = <<>> /\ template = FALSE /\ restored = FALSE
    /\ received = <<>> /\ shown = <<>>

\* get_mapping; None, or an empty mapping, passes the stream on as it is.
GotMapping ==
    /\ mode = "asking" /\ Mapping # <<>>
    /\ mode' = "restoring" /\ restored' = TRUE
    /\ UNCHANGED <<buffer, template, received, shown>>

NoMapping ==
    /\ mode = "asking"
    /\ mode' = "bypass"
    /\ UNCHANGED <<buffer, template, restored, received, shown>>

Bypass(c) ==
    /\ mode = "bypass" /\ Len(received \o c) <= MaxText
    /\ received' = received \o c /\ shown' = shown \o c
    /\ UNCHANGED <<mode, buffer, template, restored>>

\* process_chunk(); a chunk for which nothing can be shown is not passed on.
Process(c) ==
    LET text == buffer \o c
        safe == SafeLength(text)
    IN  /\ mode = "restoring" /\ Len(received \o c) <= MaxText
        /\ received' = received \o c
        /\ buffer' = SubSeq(text, safe + 1, Len(text))
        /\ shown' = shown \o Rehydrated(SubSeq(text, 1, safe))
        /\ template' = TRUE
        /\ UNCHANGED <<mode, restored>>

\* The buffer is not flushed.
WrongFlush ==
    /\ mode \in {"restoring", "bypass"}
    /\ mode' = "ended"
    /\ UNCHANGED <<buffer, template, restored, received, shown>>

\* flush_remaining(), in a copy of the last chunk with text.
Flush ==
    /\ mode \in {"restoring", "bypass"}
    /\ mode' = "ended" /\ buffer' = <<>>
    /\ shown' = IF template THEN shown \o Rehydrated(buffer) ELSE shown
    /\ UNCHANGED <<template, restored, received>>

StreamNext ==
    \/ GotMapping \/ NoMapping
    \/ \E c \in Chunks : Bypass(c) \/ Process(c)
    \/ Flush

StreamSpec == StreamInit /\ [][StreamNext]_streamVars

-----------------------------------------------------------------------------
HeldBack(text) == text[1] = "[" /\ \A i \in DOMAIN text : text[i] # "]"

\* What is shown and what is held back together are the restored answer, at
\* every moment; only a text that a placeholder could begin with is held back
\* (process_chunk).
NothingLost ==
    /\ mode = "restoring" => shown \o Rehydrated(buffer) = Rehydrated(received)
    /\ buffer # <<>> => HeldBack(buffer)

\* What makes NothingLost inductive: the text that is not held back has been
\* shown, restored, and no placeholder begins in it and ends after it.
Passed == SubSeq(received, 1, Len(received) - Len(buffer))

Settled(text) ==
    \A i \in DOMAIN text : text[i] = "[" =>
        \E j \in i + 1 .. Len(text) : text[j] \notin {"A", "_", "1"}

StreamInv ==
    /\ mode \in {"asking", "restoring", "bypass", "ended"}
    /\ restored \in BOOLEAN /\ template \in BOOLEAN
    /\ buffer \in Seq(Characters) /\ received \in Seq(Characters)
    /\ shown \in Seq(Characters)
    /\ Len(buffer) <= Len(received) /\ received = Passed \o buffer
    /\ mode = "restoring" =>
          /\ restored /\ shown = Rehydrated(Passed)
          /\ ~template => buffer = <<>>
          /\ IF buffer = <<>> THEN Settled(received) ELSE HeldBack(buffer)
    /\ mode = "bypass" => ~restored /\ buffer = <<>> /\ shown = received
    /\ mode = "asking" => ~restored /\ received = <<>> /\ shown = <<>> /\ ~template
    /\ mode = "ended" => buffer = <<>>

\* The hook keeps the contract (async_post_call_streaming_iterator_hook).
Contract == INSTANCE StreamContract WITH
    Restored <- Rehydrated,
    kind <- IF mode = "asking" THEN "undecided"
            ELSE IF restored THEN "restored" ELSE "verbatim",
    ended <- mode = "ended"
ContractSpec == Contract!Spec
=============================================================================
