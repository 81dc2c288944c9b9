--------------------------- MODULE SessionHistory ---------------------------
(***************************************************************************)
(* SessionRouting with a history variable: for each session the model its  *)
(* last request was given under a session policy, and that request's time, *)
(* since the last time the session's lock was cleared.                     *)
(***************************************************************************)
EXTENDS SessionRouting

VARIABLE served

hvars == <<vars, served>>

Unserved == [model |-> None, stamp |-> 0]

HInit == Init /\ served = [s \in Sessions |-> Unserved]

Serve(r) ==
    /\ Apply(r)
    /\ served' = [served EXCEPT
                    ![job[r].session] = [model |-> answer', stamp |-> job[r].stamp]]

Forget(s) ==
    /\ ClearSession(s)
    /\ served' = [served EXCEPT ![s] = Unserved]

Reconfigure ==
    /\ UpdateLocks
    /\ served' = IF reload.clear THEN [s \in Sessions |-> Unserved] ELSE served

Other ==
    /\ \/ \E r \in Requests :
             \/ \E s \in Sessions \cup {NoSession} : AskTrivial(r, s) \/ Ask(r, s)
             \/ \E score \in Scores : Classified(r, score)
             \/ ClassifierFailed(r)
             \/ Select(r)
       \/ \E c \in Configs : Publish(c)
       \/ AssignTiers
       \/ UpdateRules
       \/ Tick
    /\ UNCHANGED served

HNext ==
    \/ \E r \in Requests : Serve(r)
    \/ \E s \in Sessions : Forget(s)
    \/ Reconfigure
    \/ Other

HSpec == HInit /\ [][HNext]_hvars

-----------------------------------------------------------------------------
(* Properties                                                              *)

Locks == [model : Models \cup {None}, score : Int, expires : Nat]

Steps == {"idle", "classifying", "selecting", "applying"}

\* Type invariant.  A request that wants the lock has a model, a session and
\* a session policy; at most one request is between two awaits.
TypeOK ==
    /\ pc \in [Requests -> Steps]
    /\ job \in [Requests ->
            [session : Sessions \cup {NoSession}, policy : Policies,
             fallback : Models \cup {None}, score : Int,
             model : Models \cup {None}, stamp : Nat]]
    /\ answer \in Models \cup {None}
    /\ routing \in Configs
    /\ rules \in Models
    /\ resolver \in [tiers : Tiers, strategy : Strategies, fallback : Models,
                     ttl : Nat \ {0}]
    /\ counter \in Nat
    /\ locks \in [Sessions -> Locks]
    /\ reload \in [phase : {"idle", "published", "locked", "unlocked"},
                   clear : BOOLEAN]
    /\ clock \in Nat /\ turns \in Nat /\ reloads \in Nat
    /\ served \in [Sessions -> [model : Models \cup {None}, stamp : Nat]]
    /\ \A r \in Requests : pc[r] = "applying" =>
          job[r].model # None /\ job[r].session # NoSession
          /\ job[r].policy # "per_turn"
    /\ \A r, u \in Requests : r # u /\ pc[r] \in {"selecting", "applying"} =>
          pc[u] \in {"idle", "classifying"}

\* A lock's score is always that of its model in the table in use, also across
\* reloads that move or remove the model (route_resolver.py:72, 117-118), so
\* that escalation never compares scores of two tables.
LockScores ==
    reload.phase # "locked" =>
        \A s \in Sessions : locks[s] # NoLock =>
            locks[s].score = TierScore(resolver.tiers, locks[s].model)

\* The lock of a session that was served is the model it was served with, and
\* lasts from then as long as some configuration says, whatever is reloaded.
LockLasts ==
    \A s \in Sessions : served[s].model # None =>
        /\ locks[s].model = served[s].model
        /\ \E c \in Configs : locks[s].expires >= served[s].stamp + c.ttl

(* The inductive strengthening: no request has read a clock of the future, *)
(* and locks are given a period of some configuration.                     *)
StampsPast ==
    /\ \A r \in Requests : job[r].stamp <= clock
    /\ \A s \in Sessions : served[s].stamp <= clock

PeriodKnown == \E c \in Configs : resolver.ttl = c.ttl

\* What every step of requests, reloads and the clock preserves
\* (route_resolver.py:64-118).
IInv == TypeOK /\ LockScores /\ LockLasts /\ StampsPast /\ PeriodKnown

\* The request asks within every configured period after the session's last.
InTime(r) ==
    LET last == served[job[r].session] IN
    last.model # None /\ \A c \in Configs : job[r].stamp < last.stamp + c.ttl

\* sticky, README.md:345: a request that follows the previous one of its session
\* within the period is given the same model, whatever the classifier returns,
\* whatever reloads of the table come in between (smart_router.py:146-165).
StickyKeepsModel ==
    [][\A r \in Requests :
          Serve(r) /\ job[r].policy = "sticky" /\ InTime(r)
              => answer' = served[job[r].session].model]_hvars

\* escalate_only, README.md:347: "later turns can only escalate the model, never
\* downgrade" -- measured in the table in use when the request is served.
NeverDowngrades ==
    [][\A r \in Requests :
          Serve(r) /\ job[r].policy = "escalate_only" /\ InTime(r)
              => TierScore(resolver.tiers, answer')
                   >= TierScore(resolver.tiers, served[job[r].session].model)]_hvars

\* "keeps the valid session locks" (route_resolver.py:103): a lock that has
\* expired is not valid again after a reload.
ReloadKeepsOnlyValidLocks ==
    [][UpdateLocks => \A s \in Sessions :
          locks[s] # NoLock /\ locks[s].expires <= clock
              => locks'[s] = NoLock \/ locks'[s].expires <= clock]_hvars
=============================================================================
