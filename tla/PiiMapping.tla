------------------------------ MODULE PiiMapping ------------------------------
(***************************************************************************)
(* clawvault/masker.py, clawvault/restorer.py and the mappings they keep   *)
(* in Redis (storage/redis_client.py), called the way                      *)
(* callbacks/base_router.py calls them: once for the whole prompt and, if  *)
(* it has several messages, once more for each message.  The requests are  *)
(* those of one session, since no key is shared by two sessions and every  *)
(* session has its own range of numbers.  One type of entity stands for    *)
(* all: types are numbered independently.  A text is the sequence of the   *)
(* personal values found in it, a placeholder [TYPE_n] its number n        *)
(* counted from the start of the session's range, a mapping a function     *)
(* from placeholders to values; the empty one is a key that is not there.  *)
(* pc[r] names what request r waits for:                                   *)
(*   "reading"  the mapping known so far                                   *)
(*   "storing"  the SET of its own key                                     *)
(*   "merging"  the GET, and "writing" the SET, of the session's key       *)
(*   "waiting"  the model's answer                                         *)
(***************************************************************************)
EXTENDS Naturals, FiniteSets, SequencesExt

CONSTANTS
    Requests,   \* requests of the session, each with its own request id
    Values,     \* personal data
    Prompts,    \* prompts: sequences of messages
    MaskerRedis,\* whether the masker was given a Redis client
    Faults,     \* what may fail: see Failures
    MaxFaults,  \* bound: failures of the session
    MaxActive,  \* bound: requests of the session open at once
    MaxNumber   \* bound: placeholders of the session

Failures == {"read", "store", "merge", "restore", "expire_request", "expire_session"}
Numbers == 1 .. MaxNumber

ASSUME PiiAssumption ==
    /\ Prompts \subseteq Seq(Seq(Values)) \ {<<>>}
    /\ MaskerRedis \in BOOLEAN /\ Faults \subseteq Failures
    /\ MaxFaults \in Nat /\ MaxActive \in Nat /\ MaxNumber \in Nat

VARIABLES
    pc,          \* what each request waits for ("idle": not begun)
    prompt,      \* its messages
    part,        \* the text being masked: 0 is the whole prompt
    fresh,       \* the placeholders of that text
    fetched,     \* the session's mapping it has read in order to extend it
    sent,        \* pairs <<placeholder, value>>: what was replaced in its messages
    got,         \* pairs <<value, value>>: what was replaced, what the client sees
    requestKey,  \* Redis: the mapping of each request
    sessionKey,  \* Redis: the mapping of the session
    hit,         \* history: what has failed for each request, or "overlap"
    faults       \* failures so far

progress == <<pc, prompt, part>>
masking == <<fresh, fetched, sent>>
redis == <<requestKey, sessionKey>>
history == <<hit, faults>>
vars == <<progress, masking, got, redis, history>>

-----------------------------------------------------------------------------
Empty == [n \in {} |-> n]
Mappings == UNION {[N -> Values] : N \in SUBSET Numbers}
Image(f) == {f[n] : n \in DOMAIN f}
Occurring(text) == {text[i] : i \in DOMAIN text}

\* v occurs in the text before w does.
Before(text, v, w) ==
    \E i \in DOMAIN text : text[i] = v /\ \A j \in 1 .. i : text[j] # w

\* The counters start at 1 whatever the mapping holds.
WrongNumberings(known, text) ==
    LET new == Occurring(text) \ Image(known)
    IN  {a \in [Occurring(text) -> Numbers] :
            /\ \A v \in Occurring(text) \ new :
                  a[v] \in DOMAIN known /\ known[a[v]] = v
            /\ \A v \in new : \A k \in 1 .. a[v] - 1 : \E w \in new : a[w] = k
            /\ \A v, w \in new : v # w =>
                  /\ a[v] # a[w]
                  /\ Before(text, v, w) => a[v] < a[w]}

\* _apply_placeholders(): a value of the mapping keeps its placeholder; the
\* others are numbered in the order of the text, after all numbers in use.
\* A value with two placeholders gets either.
Numberings(known, text) ==
    LET new == Occurring(text) \ Image(known)
    IN  {a \in [Occurring(text) -> Numbers] :
            /\ \A v \in Occurring(text) \ new :
                  a[v] \in DOMAIN known /\ known[a[v]] = v
            /\ \A v \in new :
                  /\ \A n \in DOMAIN known : n < a[v]
                  /\ \A k \in 1 .. a[v] - 1 :
                        (\E n \in DOMAIN known : k <= n) \/ (\E w \in new : a[w] = k)
            /\ \A v, w \in new : v # w =>
                  /\ a[v] # a[w]
                  /\ Before(text, v, w) => a[v] < a[w]}

Inverted(a) == [n \in {a[v] : v \in DOMAIN a} |-> CHOOSE v \in DOMAIN a : a[v] = n]
Pairs(a) == {<<a[v], v>> : v \in DOMAIN a}

\* Forgets what the session knew.
WrongMerged(new, old) == new

\* update_session_mapping(): what is new wins.
Merged(new, old) ==
    [n \in DOMAIN new \cup DOMAIN old |-> IF n \in DOMAIN new THEN new[n] ELSE old[n]]

\* The session's mapping first.
WrongLookup(r) == IF sessionKey # Empty THEN sessionKey ELSE requestKey[r]

\* Without the session's mapping.
WrongFallback(r) == requestKey[r]

\* get_mapping(): the session's mapping only if the request has none.
Lookup(r) == IF requestKey[r] # Empty THEN requestKey[r] ELSE sessionKey

Single(r) == Len(prompt[r]) = 1
Text(r) ==
    IF Single(r) THEN prompt[r][1]
    ELSE IF part[r] = 0 THEN FlattenSeq(prompt[r]) ELSE prompt[r][part[r]]

LastText(r) == Single(r) \/ part[r] = Len(prompt[r])
Open(r) == pc[r] \notin {"idle", "done", "lost"}

Init ==
    /\ pc = [r \in Requests |-> "idle"]
    /\ prompt = [r \in Requests |-> <<>>]
    /\ part = [r \in Requests |-> 0]
    /\ fresh = [r \in Requests |-> Empty]
    /\ fetched = [r \in Requests |-> Empty]
    /\ sent = [r \in Requests |-> {}]
    /\ got = [r \in Requests |-> {}]
    /\ requestKey = [r \in Requests |-> Empty]
    /\ sessionKey = Empty
    /\ hit = [r \in Requests |-> {}] /\ faults = 0

\* One of the failures that are looked at happens to the requests R.
Fails(failure, R) ==
    /\ failure \in Faults /\ faults < MaxFaults
    /\ faults' = faults + 1
    /\ hit' = [r \in Requests |-> IF r \in R THEN hit[r] \cup {failure} ELSE hit[r]]

-----------------------------------------------------------------------------
Begin(r, p) ==
    /\ pc[r] = "idle"
    /\ LET others == {u \in Requests : Open(u)}
       IN  /\ Cardinality(others) < MaxActive
           /\ hit' = [u \in Requests |->
                        IF others # {} /\ u \in others \cup {r}
                        THEN hit[u] \cup {"overlap"} ELSE hit[u]]
    /\ prompt' = [prompt EXCEPT ![r] = p]
    /\ pc' = [pc EXCEPT ![r] = "reading"]
    /\ UNCHANGED <<part, masking, got, redis, faults>>

\* mask() returns; the hook sends the prompt or masks the next message.
Advance(r) ==
    /\ pc' = [pc EXCEPT ![r] = IF LastText(r) THEN "waiting" ELSE "reading"]
    /\ part' = [part EXCEPT ![r] = IF LastText(r) THEN @ ELSE @ + 1]
    /\ UNCHANGED prompt

MaskNothing(r) ==
    /\ pc[r] = "reading" /\ Occurring(Text(r)) = {}
    /\ Advance(r)
    /\ UNCHANGED <<masking, got, redis, history>>

\* The whole of several messages is masked for the router only.
Number(r, known) ==
    \E a \in Numberings(known, Text(r)) :
        /\ fresh' = [fresh EXCEPT ![r] = Inverted(a)]
        /\ sent' = [sent EXCEPT ![r] = IF part[r] = 0 /\ ~LastText(r) THEN @
                                       ELSE @ \cup Pairs(a)]
        /\ IF MaskerRedis
           THEN pc' = [pc EXCEPT ![r] = "storing"] /\ UNCHANGED <<prompt, part>>
           ELSE Advance(r)
        /\ UNCHANGED <<fetched, got, redis>>

Read(r) ==
    /\ pc[r] = "reading" /\ Occurring(Text(r)) # {}
    /\ Number(r, IF MaskerRedis THEN Lookup(r) ELSE Empty)
    /\ UNCHANGED history

ReadFails(r) ==
    /\ MaskerRedis /\ Fails("read", {r})
    /\ pc[r] = "reading" /\ Occurring(Text(r)) # {}
    /\ Number(r, Empty)

Store(r) ==
    /\ pc[r] = "storing"
    /\ requestKey' = [requestKey EXCEPT ![r] = fresh[r]]
    /\ pc' = [pc EXCEPT ![r] = "merging"]
    /\ UNCHANGED <<prompt, part, masking, got, sessionKey, history>>

\* A command that timed out may have been executed.
StoreFails(r) ==
    /\ Fails("store", {r})
    /\ pc[r] = "storing"
    /\ \E m \in {requestKey[r], fresh[r]} : requestKey' = [requestKey EXCEPT ![r] = m]
    /\ Advance(r)
    /\ UNCHANGED <<masking, got, sessionKey>>

Fetch(r) ==
    /\ pc[r] = "merging"
    /\ fetched' = [fetched EXCEPT ![r] = sessionKey]
    /\ pc' = [pc EXCEPT ![r] = "writing"]
    /\ UNCHANGED <<prompt, part, fresh, sent, got, redis, history>>

Write(r) ==
    /\ pc[r] = "writing"
    /\ sessionKey' = Merged(fresh[r], fetched[r])
    /\ Advance(r)
    /\ UNCHANGED <<masking, got, requestKey, history>>

MergeFails(r) ==
    /\ Fails("merge", {r})
    /\ \/ pc[r] = "merging" /\ UNCHANGED sessionKey
       \/ pc[r] = "writing" /\ sessionKey' \in {sessionKey, Merged(fresh[r], fetched[r])}
    /\ Advance(r)
    /\ UNCHANGED <<masking, got, requestKey>>

\* restore(), or get_mapping for a stream.  The answer uses every placeholder.
Restore(r) ==
    /\ pc[r] = "waiting"
    /\ LET mapping == Lookup(r)
       IN  got' = [got EXCEPT ![r] =
                     {<<pair[2], mapping[pair[1]]>> :
                        pair \in {q \in sent[r] : q[1] \in DOMAIN mapping}}]
    /\ pc' = [pc EXCEPT ![r] = "done"]
    /\ UNCHANGED <<prompt, part, masking, redis, history>>

\* The client sees the placeholders.
RestoreFails(r) ==
    /\ Fails("restore", {r})
    /\ pc[r] = "waiting"
    /\ pc' = [pc EXCEPT ![r] = "lost"]
    /\ UNCHANGED <<prompt, part, masking, got, redis>>

\* After 30 minutes, while the model answers.
ExpireRequest(r) ==
    /\ Fails("expire_request", {r})
    /\ pc[r] = "waiting" /\ requestKey[r] # Empty
    /\ requestKey' = [requestKey EXCEPT ![r] = Empty]
    /\ UNCHANGED <<progress, masking, got, sessionKey>>

ExpireSession ==
    /\ Fails("expire_session", Requests)
    /\ sessionKey # Empty
    /\ sessionKey' = Empty
    /\ UNCHANGED <<progress, masking, got, requestKey>>

-----------------------------------------------------------------------------
MaskStep(r) ==
    \/ \E p \in Prompts : Begin(r, p)
    \/ MaskNothing(r)
    \/ Read(r)
    \/ ReadFails(r)

RedisStep(r) ==
    \/ Store(r)
    \/ StoreFails(r)
    \/ Fetch(r)
    \/ Write(r)
    \/ MergeFails(r)

AnswerStep(r) ==
    \/ Restore(r)
    \/ RestoreFails(r)
    \/ ExpireRequest(r)

Next ==
    \/ \E r \in Requests : MaskStep(r) \/ RedisStep(r) \/ AnswerStep(r)
    \/ ExpireSession

Spec == Init /\ [][Next]_vars

-----------------------------------------------------------------------------
\* Type invariant.  No request has masked more messages than it has.
TypeOK ==
    /\ pc \in [Requests -> {"idle", "reading", "storing", "merging", "writing",
                            "waiting", "done", "lost"}]
    /\ prompt \in [Requests -> Prompts \cup {<<>>}]
    /\ part \in [Requests -> Nat]
    /\ fresh \in [Requests -> Mappings] /\ fetched \in [Requests -> Mappings]
    /\ sent \in [Requests -> SUBSET (Numbers \X Values)]
    /\ got \in [Requests -> SUBSET (Values \X Values)]
    /\ requestKey \in [Requests -> Mappings] /\ sessionKey \in Mappings
    /\ hit \in [Requests -> SUBSET (Failures \cup {"overlap"})]
    /\ faults \in Nat
    /\ \A r \in Requests : part[r] <= Len(prompt[r])

\* None of these has happened to the requests R.
Spared(R, what) == \A r \in R : hit[r] \cap what = {}

\* The request's own key was written and is there.
KeyKept(r) == Spared({r}, {"store", "expire_request"})

\* Its messages were numbered one after the other.
NumberedOnce(r) ==
    Single(r) \/ (Len(prompt[r]) = 2 /\ Spared({r}, {"read", "store"}))

\* The session's mapping stands in for it: requests of one message came one
\* after the other and each knew the numbers given before it.
SessionOrderly ==
    /\ Spared(Requests, {"overlap", "read", "expire_session"})
    /\ \A r \in Requests : prompt[r] # <<>> => Single(r)

\* No placeholder of an answer is replaced by another value than the one it
\* stood for in the prompt, as long as the request has its own key or the
\* session is orderly: restore() after mask(), with other requests of the
\* session in between.
NeverForeign ==
    \A r \in Requests : (KeyKept(r) /\ NumberedOnce(r)) \/ SessionOrderly =>
        \A pair \in got[r] : pair[1] = pair[2]

\* An answer that was restored shows every value (requirement FR-2.5), as long
\* as the request has its own key or its part of an orderly session's.
AllRestored ==
    \A r \in Requests :
        /\ pc[r] = "done" /\ Single(r)
        /\ KeyKept(r) \/ (SessionOrderly /\ Spared({r}, {"store", "merge"}))
        => \A pair \in sent[r] : <<pair[2], pair[2]>> \in got[r]

OneToOne(pairs) ==
    \A p, q \in pairs : p[1] = q[1] <=> p[2] = q[2]

\* In the messages of a request a placeholder stands for one value and a value
\* has one placeholder (masker.py, _apply_placeholders): whatever fails when
\* it is one message, and with two as long as the second is numbered after the
\* first.
RequestOneToOne ==
    \A r \in Requests :
        pc[r] = "waiting" /\ NumberedOnce(r) => OneToOne(sent[r])

\* And so it is in the whole session (requirement FR-2.7) when requests come
\* one after the other and every mapping is read and written.
SessionOneToOne ==
    SessionOrderly /\ Spared(Requests, {"store", "merge"}) =>
        OneToOne(UNION {sent[r] : r \in Requests})

\* What makes them inductive, with a masker that has Redis.
PairsOf(mapping) == {<<n, mapping[n]>> : n \in DOMAIN mapping}
Saving(r) == pc[r] \in {"storing", "merging", "writing"}

\* The whole of several messages leaves no pair; until the second message is
\* numbered the pairs are those of the last mapping, which it always holds.
PairsInv(r) ==
    /\ pc[r] = "idle" <=> prompt[r] = <<>>
    /\ Single(r) \/ prompt[r] = <<>> => part[r] = 0
    /\ pc[r] # "done" => got[r] = {}
    /\ IF Single(r) THEN pc[r] = "reading" => sent[r] = {}
       ELSE part[r] = 0 \/ (part[r] = 1 /\ pc[r] = "reading") => sent[r] = {}
    /\ Single(r) \/ part[r] = 1 \/ (part[r] = 2 /\ pc[r] = "reading") =>
          sent[r] = {} \/ sent[r] = PairsOf(fresh[r])
    /\ Single(r) /\ Saving(r) => sent[r] = PairsOf(fresh[r])
    /\ sent[r] # {} => fresh[r] # Empty /\ PairsOf(fresh[r]) \subseteq sent[r]
    /\ NumberedOnce(r) => OneToOne(sent[r])

\* The key of a request, from the SET in store_mapping() on while it is kept.
KeyInv(r) ==
    /\ pc[r] = "idle" \/ (Single(r) /\ pc[r] = "reading") => requestKey[r] = Empty
    /\ Single(r) => requestKey[r] \in {Empty, fresh[r]}
    /\ \/ pc[r] \in {"merging", "writing"} /\ Spared({r}, {"store"})
       \/ pc[r] = "reading" /\ sent[r] # {} /\ Spared({r}, {"store"})
       \/ pc[r] = "waiting" /\ sent[r] # {} /\ KeyKept(r)
       => requestKey[r] = fresh[r]

\* The mapping of an orderly session grows, and never gives a number that is
\* in use to another value.
Agree(f, g) == \A n \in DOMAIN f \cap DOMAIN g : f[n] = g[n]

SessionInv ==
    /\ \A r, u \in Requests : Open(r) /\ Open(u) => r = u
    /\ \A r \in Requests :
          /\ pc[r] = "writing" => fetched[r] = sessionKey
          /\ Saving(r) \/ (pc[r] = "waiting" /\ sent[r] # {}) => Agree(fresh[r], sessionKey)
          /\ ~Saving(r) /\ Spared({r}, {"store", "merge"}) =>
                sent[r] \subseteq PairsOf(sessionKey)
    /\ Spared(Requests, {"store", "merge"}) =>
          OneToOne(PairsOf(sessionKey) \cup UNION {sent[r] : r \in Requests})

MaskingInv ==
    /\ \A r \in Requests : PairsInv(r) /\ KeyInv(r)
    /\ SessionOrderly => SessionInv
    /\ NeverForeign /\ AllRestored

\* The session's mapping does not change the meaning of a placeholder
\* (update_session_mapping's description).
MergeKeepsKeys ==
    [][\A n \in DOMAIN sessionKey \cap DOMAIN sessionKey' :
          sessionKey'[n] = sessionKey[n]]_vars
=============================================================================
