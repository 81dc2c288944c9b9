------------------------ MODULE SessionRoutingProofs ------------------------
(***************************************************************************)
(* Proofs about SessionHistory: the locks of sessions, for any number of   *)
(* requests, sessions, configurations and reloads.                         *)
(***************************************************************************)
EXTENDS SessionHistory, TLAPS

LEMMA TierFields ==
  ASSUME NEW tiers \in Tiers, NEW i \in DOMAIN tiers
  PROVE  tiers[i].score \in Nat /\ tiers[i].model \in Models
<1>1. tiers[i] \in Tier
  BY DEF Tiers
<1> QED
  BY <1>1 DEF Tier

\* A tier's score is a natural number, None is below all of them.
LEMMA TierScoreType ==
  ASSUME NEW tiers \in Tiers, NEW m
  PROVE  TierScore(tiers, m) \in Nat \cup {NoScore}
<1> DEFINE named == {i \in DOMAIN tiers : m \in {tiers[i].name, tiers[i].model}}
<1> DEFINE scores == {tiers[i].score : i \in {j \in named : \A k \in named : j <= k}}
<1>1. scores \subseteq Nat
  BY TierFields
<1>2. scores # {} => (CHOOSE score \in scores : TRUE) \in Nat
  BY <1>1
<1>3. TierScore(tiers, m) =
        IF scores = {} THEN NoScore ELSE CHOOSE score \in scores : TRUE
  BY DEF TierScore
<1> QED
  BY <1>2, <1>3

LEMMA NoScoreBelow == NoScore \in Int /\ \A n \in Nat : NoScore <= n /\ n # NoScore
  BY DEF NoScore

LEMMA ConfigFields ==
  ASSUME NEW c \in Configs
  PROVE  /\ c.policy \in Policies /\ c.strategy \in Strategies
         /\ c.fallback \in Models /\ c.ttl \in Nat \ {0}
         /\ c.trivial \in Models /\ c.tiers \in Tiers
  BY RoutingAssumption

\* What a resolved model can be.
LEMMA ResolvedModels ==
  ASSUME NEW tiers \in Tiers, NEW strategy, NEW fallback \in Models,
         NEW n \in Nat, NEW score \in Int
  PROVE  Resolved(tiers, strategy, fallback, n, score) \subseteq Models
<1>1. \A i \in DOMAIN tiers : tiers[i].model \in Models
  BY TierFields
<1>2. Candidates(tiers, score) \subseteq DOMAIN tiers
  BY DEF Candidates
<1>3. CASE Candidates(tiers, score) = {}
  BY <1>3 DEF Resolved
<1>4. CASE Candidates(tiers, score) # {}
  BY <1>1, <1>2, <1>4 DEF Resolved
<1>5. QED
  BY <1>3, <1>4

LEMMA CountedType ==
  ASSUME NEW tiers, NEW strategy, NEW n \in Nat, NEW score
  PROVE  Counted(tiers, strategy, n, score) \in Nat
  BY DEF Counted

LEMMA NoValues ==
  /\ NoLock \in Locks /\ NoLock.model = None
  /\ NoJob.session = NoSession /\ NoJob.policy = "per_turn"
  /\ NoJob.fallback = None /\ NoJob.score = NoScore
  /\ NoJob.model = None /\ NoJob.stamp = 0
  BY DEF NoLock, Locks, NoScore, NoJob, NewJob

-----------------------------------------------------------------------------
\* A new lock either keeps the model and score of a live one, which sticky and
\* a refused escalation do, or has the proposed model and its score.
LEMMA NextLockCases ==
  ASSUME TypeOK, NEW previous \in Locks, NEW policy, NEW m \in Models, NEW now \in Nat
  PROVE  LET next == NextLock(previous, policy, m, now)
             kept == /\ previous # NoLock /\ previous.expires > now
                     /\ policy = "sticky"
                        \/ ~CanEscalate(previous, m, TierScore(resolver.tiers, m))
         IN  /\ next \in Locks
             /\ next.expires = now + resolver.ttl
             /\ kept => next.model = previous.model /\ next.score = previous.score
             /\ ~kept => next.model = m /\ next.score = TierScore(resolver.tiers, m)
<1> DEFINE kept == /\ previous # NoLock /\ previous.expires > now
                   /\ policy = "sticky"
                      \/ ~CanEscalate(previous, m, TierScore(resolver.tiers, m))
<1>1. resolver.ttl \in Nat \ {0} /\ resolver.tiers \in Tiers
  BY DEF TypeOK
<1>2. now + resolver.ttl \in Nat
  BY <1>1
<1>3. TierScore(resolver.tiers, m) \in Int
  BY <1>1, TierScoreType DEF NoScore
<1>4. CASE kept
  <2>1. NextLock(previous, policy, m, now)
          = [previous EXCEPT !.expires = now + resolver.ttl]
    BY <1>4 DEF NextLock
  <2>2. QED
    BY <1>2, <1>4, <2>1 DEF Locks
<1>5. CASE ~kept
  <2>1. NextLock(previous, policy, m, now)
          = [model |-> m, score |-> TierScore(resolver.tiers, m),
             expires |-> now + resolver.ttl]
    BY <1>5 DEF NextLock
  <2>2. QED
    BY <1>2, <1>3, <1>5, <2>1 DEF Locks
<1>6. QED
  BY <1>4, <1>5

LEMMA InitIInv == HInit => IInv
<1> SUFFICES ASSUME HInit PROVE IInv
  OBVIOUS
<1>1. PICK c \in Configs : Init!(c)
  BY DEF HInit, Init
<1>2. /\ routing = c /\ rules = c.trivial /\ counter = 0
      /\ resolver = [tiers |-> c.tiers, strategy |-> c.strategy,
                      fallback |-> c.fallback, ttl |-> c.ttl]
      /\ reload = [phase |-> "idle", clear |-> FALSE]
  BY <1>1
<1>3. /\ pc = [r \in Requests |-> "idle"] /\ job = [r \in Requests |-> NoJob]
      /\ answer = None /\ locks = [s \in Sessions |-> NoLock]
      /\ clock = 0 /\ turns = 0 /\ reloads = 0
      /\ served = [s \in Sessions |-> Unserved]
  BY <1>1 DEF HInit
<1>4. NoJob \in [session : Sessions \cup {NoSession}, policy : Policies,
                 fallback : Models \cup {None}, score : Int,
                 model : Models \cup {None}, stamp : Nat]
  BY DEF NoJob, NewJob, Policies, NoScore
<1>5. TypeOK
  <2>1. resolver \in [tiers : Tiers, strategy : Strategies, fallback : Models,
                      ttl : Nat \ {0}]
    BY <1>2, ConfigFields
  <2>2. served \in [Sessions -> [model : Models \cup {None}, stamp : Nat]]
    BY <1>3 DEF Unserved
  <2>3. locks \in [Sessions -> Locks]
    BY <1>3, NoValues
  <2>4. rules \in Models /\ routing \in Configs /\ counter \in Nat
    BY <1>2, ConfigFields
  <2>5. reload \in [phase : {"idle", "published", "locked", "unlocked"},
                    clear : BOOLEAN]
    BY <1>2
  <2>6. QED
    BY <1>3, <1>4, <2>1, <2>2, <2>3, <2>4, <2>5 DEF TypeOK, Steps
<1>6. LockScores
  BY <1>3 DEF LockScores
<1>7. LockLasts
  BY <1>3 DEF LockLasts, Unserved
<1>8. StampsPast
  BY <1>3, NoValues DEF StampsPast, Unserved
<1>9. PeriodKnown
  BY <1>2 DEF PeriodKnown
<1> QED
  BY <1>5, <1>6, <1>7, <1>8, <1>9 DEF IInv

Jobs == [session : Sessions \cup {NoSession}, policy : Policies,
         fallback : Models \cup {None}, score : Int,
         model : Models \cup {None}, stamp : Nat]

\* Steps that read only: they leave the locks and the clock alone.
LEMMA ReadOnly ==
  ASSUME IInv, UNCHANGED <<resolver, locks, reload, clock, served>>,
         \A r \in Requests : job'[r].stamp <= clock
  PROVE  LockScores' /\ LockLasts' /\ StampsPast' /\ PeriodKnown'
  BY DEF IInv, LockScores, LockLasts, StampsPast, PeriodKnown

\* A request's own step: what it may write, and who runs.
LEMMA RequestTypes ==
  ASSUME TypeOK, NEW r \in Requests, Running(r), NEW j \in Jobs,
         NEW step \in Steps, NEW m \in Models \cup {None},
         step = "applying" =>
            j.model # None /\ j.session # NoSession /\ j.policy # "per_turn",
         pc' = [pc EXCEPT ![r] = step], job' = [job EXCEPT ![r] = j],
         answer' = m, counter' \in Nat, turns' \in Nat,
         UNCHANGED <<routing, rules, resolver, locks, reload, clock, reloads, served>>
  PROVE  TypeOK'
<1>1. /\ pc' \in [Requests -> Steps] /\ answer' \in Models \cup {None}
      /\ job' \in [Requests -> Jobs]
  BY DEF TypeOK, Jobs
<1>2. \A u \in Requests : u # r => pc'[u] = pc[u] /\ job'[u] = job[u]
  BY DEF TypeOK
<1>3. pc'[r] = step /\ job'[r] = j
  BY DEF TypeOK
<1>4. \A u \in Requests : pc'[u] = "applying" =>
         job'[u].model # None /\ job'[u].session # NoSession
         /\ job'[u].policy # "per_turn"
  BY <1>2, <1>3 DEF TypeOK
<1>5. \A t, u \in Requests : t # u /\ pc'[t] \in {"selecting", "applying"} =>
         pc'[u] \in {"idle", "classifying"}
  <2> SUFFICES ASSUME NEW t \in Requests, NEW u \in Requests, t # u,
                      pc'[t] \in {"selecting", "applying"}
               PROVE  pc'[u] \in {"idle", "classifying"}
    OBVIOUS
  <2>1. CASE t = r
    BY <1>2, <2>1 DEF Running
  <2>2. CASE t # r
    BY <1>2, <2>2 DEF Running
  <2>3. QED
    BY <2>1, <2>2
<1>6. QED
  BY <1>1, <1>4, <1>5 DEF TypeOK, Jobs

\* The stamp of a job after r has changed its own.
LEMMA RequestStamps ==
  ASSUME IInv, NEW r \in Requests, NEW j \in Jobs, j.stamp <= clock,
         job' = [job EXCEPT ![r] = j]
  PROVE  \A u \in Requests : job'[u].stamp <= clock
  BY DEF IInv, TypeOK, StampsPast

LEMMA JobType ==
  ASSUME TypeOK, NEW r \in Requests
  PROVE  job[r] \in Jobs /\ pc[r] \in Steps /\ clock \in Nat
  BY DEF TypeOK, Jobs

LEMMA RoutingType ==
  ASSUME TypeOK
  PROVE  /\ rules \in Models /\ routing \in Configs /\ clock \in Nat
         /\ routing.policy \in Policies /\ routing.fallback \in Models
         /\ routing.strategy \in Strategies /\ routing.trivial \in Models
         /\ routing.tiers \in Tiers /\ routing.ttl \in Nat \ {0}
<1>1. rules \in Models /\ routing \in Configs /\ clock \in Nat
  BY DEF TypeOK
<1>2. QED
  BY <1>1, ConfigFields

LEMMA AskTrivialIInv ==
  ASSUME IInv, NEW r \in Requests, NEW s \in Sessions \cup {NoSession},
         AskTrivial(r, s), UNCHANGED served
  PROVE  IInv'
<1> DEFINE j == NewJob(s, routing.policy, None, rules)
<1>1. TypeOK
  BY DEF IInv
<1>2. rules \in Models /\ routing.policy \in Policies /\ clock \in Nat
  BY <1>1, RoutingType
<1>3. j \in Jobs /\ j.stamp = 0
  <2>1. j = [session |-> s, policy |-> routing.policy, fallback |-> None,
             score |-> NoScore, model |-> rules, stamp |-> 0]
    BY DEF NewJob
  <2>2. NoScore \in Int /\ "per_turn" \in Policies
    BY DEF NoScore, Policies
  <2> HIDE DEF j
  <2>3. QED
    BY <1>2, <2>1, <2>2 DEF Jobs
<1>4. TypeOK'
  <2>1. /\ pc' = [pc EXCEPT ![r] = "selecting"] /\ job' = [job EXCEPT ![r] = j]
        /\ counter' \in Nat /\ turns' \in Nat /\ answer' \in Models \cup {None}
        /\ UNCHANGED <<routing, rules, resolver, locks, reload, clock, reloads, served>>
    BY <1>1 DEF AskTrivial, TypeOK, resolverVars, configVars
  <2>2. Running(r) /\ "selecting" \in Steps
    BY DEF AskTrivial, Steps
  <2> HIDE DEF j
  <2>3. QED
    BY <1>1, <1>3, <2>1, <2>2, RequestTypes
<1>5. \A u \in Requests : job'[u].stamp <= clock
  <2>1. j.stamp <= clock /\ job' = [job EXCEPT ![r] = j]
    BY <1>2, <1>3 DEF AskTrivial
  <2> HIDE DEF j
  <2>2. QED
    BY <1>3, <2>1, RequestStamps
<1>6. QED
  BY <1>4, <1>5, ReadOnly DEF AskTrivial, resolverVars, configVars, IInv

LEMMA AskIInv ==
  ASSUME IInv, NEW r \in Requests, NEW s \in Sessions \cup {NoSession},
         Ask(r, s), UNCHANGED served
  PROVE  IInv'
<1> DEFINE j == NewJob(s, "per_turn", routing.fallback, None)
<1>1. TypeOK
  BY DEF IInv
<1>2. routing.fallback \in Models /\ clock \in Nat
  BY <1>1, RoutingType
<1>3. j \in Jobs /\ j.stamp = 0
  <2>1. j = [session |-> s, policy |-> "per_turn", fallback |-> routing.fallback,
             score |-> NoScore, model |-> None, stamp |-> 0]
    BY DEF NewJob
  <2>2. NoScore \in Int /\ "per_turn" \in Policies
    BY DEF NoScore, Policies
  <2> HIDE DEF j
  <2>3. QED
    BY <1>2, <2>1, <2>2 DEF Jobs
<1>4. TypeOK'
  <2>1. /\ pc' = [pc EXCEPT ![r] = "classifying"] /\ job' = [job EXCEPT ![r] = j]
        /\ counter' \in Nat /\ turns' \in Nat /\ answer' \in Models \cup {None}
        /\ UNCHANGED <<routing, rules, resolver, locks, reload, clock, reloads, served>>
    BY <1>1 DEF Ask, TypeOK, resolverVars, configVars
  <2>2. Running(r) /\ "classifying" \in Steps
    BY DEF Ask, Steps
  <2> HIDE DEF j
  <2>3. QED
    BY <1>1, <1>3, <2>1, <2>2, RequestTypes
<1>5. \A u \in Requests : job'[u].stamp <= clock
  <2>1. j.stamp <= clock /\ job' = [job EXCEPT ![r] = j]
    BY <1>2, <1>3 DEF Ask
  <2> HIDE DEF j
  <2>2. QED
    BY <1>3, <2>1, RequestStamps
<1>6. QED
  BY <1>4, <1>5, ReadOnly DEF Ask, resolverVars, configVars, IInv

LEMMA ClassifiedIInv ==
  ASSUME IInv, NEW r \in Requests, NEW score \in Scores, Classified(r, score), UNCHANGED served
  PROVE  IInv'
<1> DEFINE j == [job[r] EXCEPT !.score = score, !.policy = routing.policy]
<1>1. TypeOK
  BY DEF IInv
<1>2. j \in Jobs /\ j.stamp = job[r].stamp
  BY <1>1, JobType, RoutingType, RoutingAssumption DEF Jobs
<1>3. job' = [job EXCEPT ![r] = j] /\ pc' = [pc EXCEPT ![r] = "selecting"]
  BY <1>1 DEF Classified, TypeOK
<1>4. job[r].stamp <= clock
  BY DEF IInv, StampsPast
<1> HIDE DEF j
<1>5. TypeOK'
  <2>1. /\ counter' \in Nat /\ turns' \in Nat /\ answer' \in Models \cup {None}
        /\ UNCHANGED <<routing, rules, resolver, locks, reload, clock, reloads, served>>
    BY <1>1 DEF Classified, TypeOK, resolverVars, configVars, bounds
  <2>2. Running(r) /\ "selecting" \in Steps
    BY DEF Classified, Steps
  <2>3. QED
    BY <1>1, <1>2, <1>3, <2>1, <2>2, RequestTypes
<1>6. \A u \in Requests : job'[u].stamp <= clock
  BY <1>2, <1>3, <1>4, RequestStamps
<1>7. QED
  BY <1>5, <1>6, ReadOnly DEF Classified, resolverVars, configVars, IInv

LEMMA ClassifierFailedIInv ==
  ASSUME IInv, NEW r \in Requests, ClassifierFailed(r), UNCHANGED served
  PROVE  IInv'
<1> DEFINE j == [job[r] EXCEPT !.model = job[r].fallback, !.policy = routing.policy]
<1>1. TypeOK
  BY DEF IInv
<1>2. j \in Jobs /\ j.stamp = job[r].stamp
  BY <1>1, JobType, RoutingType DEF Jobs
<1>3. job' = [job EXCEPT ![r] = j] /\ pc' = [pc EXCEPT ![r] = "selecting"]
  BY <1>1 DEF ClassifierFailed, TypeOK
<1>4. job[r].stamp <= clock
  BY DEF IInv, StampsPast
<1> HIDE DEF j
<1>5. TypeOK'
  <2>1. /\ counter' \in Nat /\ turns' \in Nat /\ answer' \in Models \cup {None}
        /\ UNCHANGED <<routing, rules, resolver, locks, reload, clock, reloads, served>>
    BY <1>1 DEF ClassifierFailed, TypeOK, resolverVars, configVars, bounds
  <2>2. Running(r) /\ "selecting" \in Steps
    BY DEF ClassifierFailed, Steps
  <2>3. QED
    BY <1>1, <1>2, <1>3, <2>1, <2>2, RequestTypes
<1>6. \A u \in Requests : job'[u].stamp <= clock
  BY <1>2, <1>3, <1>4, RequestStamps
<1>7. QED
  BY <1>5, <1>6, ReadOnly DEF ClassifierFailed, resolverVars, configVars, IInv

\* Whatever Select proposes is a model.
LEMMA ProposalTypes ==
  ASSUME TypeOK, NEW r \in Requests
  PROVE  Proposals(r) \subseteq Models
<1>1. /\ job[r].model \in Models \cup {None} /\ job[r].score \in Int
      /\ resolver.tiers \in Tiers /\ resolver.fallback \in Models /\ counter \in Nat
  BY JobType DEF TypeOK, Jobs
<1>2. Resolved(resolver.tiers, resolver.strategy, resolver.fallback, counter,
               job[r].score) \subseteq Models
  BY <1>1, ResolvedModels
<1>3. QED
  BY <1>1, <1>2 DEF Proposals

LEMMA SelectIInv ==
  ASSUME IInv, NEW r \in Requests, Select(r), UNCHANGED served
  PROVE  IInv'
<1>1. TypeOK
  BY DEF IInv
<1>2. /\ UNCHANGED <<routing, rules, resolver, locks, reload, clock, turns, reloads>>
      /\ Running(r)
  <2>1. Running(r)
    BY <1>1 DEF Select, TypeOK, Running
  <2>2. QED
    BY <2>1 DEF Select, configVars, bounds
<1>3. counter' \in Nat /\ turns' \in Nat
  BY <1>1, <1>2, CountedType DEF Select, TypeOK
<1>4. PICK m \in Proposals(r) :
         IF job[r].session = NoSession \/ job[r].policy = "per_turn"
         THEN /\ answer' = m
              /\ pc' = [pc EXCEPT ![r] = "idle"]
              /\ job' = [job EXCEPT ![r] = NoJob]
         ELSE /\ job' = [job EXCEPT ![r].model = m, ![r].stamp = clock]
              /\ pc' = [pc EXCEPT ![r] = "applying"]
              /\ UNCHANGED answer
  BY DEF Select
<1>5. m \in Models /\ m # None
  BY <1>1, <1>4, ProposalTypes, RoutingAssumption
<1>6. TypeOK' /\ \A u \in Requests : job'[u].stamp <= clock
  <2>1. CASE job[r].session = NoSession \/ job[r].policy = "per_turn"
    <3>1. NoJob \in Jobs /\ NoJob.stamp <= clock
      BY <1>1, RoutingType DEF NoJob, NewJob, Jobs, Policies, NoScore
    <3>2. "idle" \in Steps /\ "idle" # "applying"
      BY DEF Steps
    <3>3. pc' = [pc EXCEPT ![r] = "idle"] /\ job' = [job EXCEPT ![r] = NoJob]
          /\ answer' = m
      BY <1>4, <2>1
    <3>4. TypeOK'
      BY <1>1, <1>2, <1>3, <1>5, <3>1, <3>2, <3>3, RequestTypes
    <3>5. QED
      BY <3>1, <3>3, <3>4, RequestStamps
  <2>2. CASE ~(job[r].session = NoSession \/ job[r].policy = "per_turn")
    <3> DEFINE j == [job[r] EXCEPT !.model = m, !.stamp = clock]
    <3>1. /\ j \in Jobs /\ j.stamp = clock /\ j.model = m
          /\ j.session = job[r].session /\ j.policy = job[r].policy
      BY <1>1, <1>5, JobType DEF Jobs
    <3>2. pc' = [pc EXCEPT ![r] = "applying"] /\ job' = [job EXCEPT ![r] = j]
          /\ answer' = answer
      BY <1>1, <1>4, <2>2 DEF TypeOK
    <3> HIDE DEF j
    <3>3. "applying" \in Steps /\ answer \in Models \cup {None}
      BY <1>1 DEF Steps, TypeOK
    <3>4. TypeOK'
      BY <1>1, <1>2, <1>3, <1>5, <2>2, <3>1, <3>2, <3>3, RequestTypes
    <3>5. j.stamp <= clock
      BY <1>1, <3>1, RoutingType
    <3>6. QED
      BY <3>1, <3>2, <3>4, <3>5, RequestStamps
  <2>3. QED
    BY <2>1, <2>2
<1>7. QED
  BY <1>2, <1>6, ReadOnly DEF IInv

\* Serving a request stores the next lock and answers with its model.
LEMMA ServeFacts ==
  ASSUME IInv, NEW r \in Requests, Serve(r)
  PROVE  LET s == job[r].session
             lock == NextLock(locks[s], job[r].policy, job[r].model, job[r].stamp)
         IN  /\ s \in Sessions /\ locks[s] \in Locks /\ job[r].model \in Models
             /\ job[r].stamp \in Nat
             /\ lock \in Locks /\ lock.model \in Models \cup {None}
             /\ locks' = [locks EXCEPT ![s] = lock] /\ answer' = lock.model
             /\ served' = [served EXCEPT
                             ![s] = [model |-> lock.model, stamp |-> job[r].stamp]]
<1>1. TypeOK
  BY DEF IInv
<1>2. pc[r] = "applying" /\ job[r] \in Jobs
  BY <1>1, JobType DEF Serve, Apply
<1>3. /\ job[r].session \in Sessions /\ job[r].model \in Models
      /\ job[r].stamp \in Nat
  BY <1>1, <1>2 DEF TypeOK, Jobs
<1>4. locks[job[r].session] \in Locks
  BY <1>1, <1>3 DEF TypeOK
<1>5. NextLock(locks[job[r].session], job[r].policy, job[r].model, job[r].stamp) \in Locks
  BY <1>1, <1>3, <1>4, NextLockCases
<1>6. QED
  BY <1>3, <1>4, <1>5 DEF Serve, Apply, Locks

LEMMA ServeIInv ==
  ASSUME IInv, NEW r \in Requests, Serve(r)
  PROVE  IInv'
<1> DEFINE s == job[r].session
<1> DEFINE lock == NextLock(locks[s], job[r].policy, job[r].model, job[r].stamp)
<1>1. TypeOK
  BY DEF IInv
<1>2. /\ s \in Sessions /\ locks[s] \in Locks /\ job[r].model \in Models
      /\ job[r].stamp \in Nat /\ lock \in Locks /\ lock.model \in Models \cup {None}
      /\ locks' = [locks EXCEPT ![s] = lock] /\ answer' = lock.model
      /\ served' = [served EXCEPT
                      ![s] = [model |-> lock.model, stamp |-> job[r].stamp]]
  BY ServeFacts
<1>3. /\ pc' = [pc EXCEPT ![r] = "idle"] /\ job' = [job EXCEPT ![r] = NoJob]
      /\ UNCHANGED <<resolver, counter, routing, rules, reload, clock, turns, reloads>>
      /\ reload.phase # "locked"
  BY DEF Serve, Apply, configVars, bounds
<1>4. lock.expires = job[r].stamp + resolver.ttl
  BY <1>1, <1>2, NextLockCases
<1>5. lock # NoLock => lock.score = TierScore(resolver.tiers, lock.model)
  <2> DEFINE kept == /\ locks[s] # NoLock /\ locks[s].expires > job[r].stamp
                     /\ job[r].policy = "sticky"
                        \/ ~CanEscalate(locks[s], job[r].model,
                                        TierScore(resolver.tiers, job[r].model))
  <2>1. CASE kept
    <3>1. lock.model = locks[s].model /\ lock.score = locks[s].score
      BY <1>1, <1>2, <2>1, NextLockCases
    <3>2. locks[s].score = TierScore(resolver.tiers, locks[s].model)
      BY <1>2, <1>3, <2>1 DEF IInv, LockScores
    <3>3. QED
      BY <3>1, <3>2
  <2>2. CASE ~kept
    BY <1>1, <1>2, <2>2, NextLockCases
  <2>3. QED
    BY <2>1, <2>2
<1> HIDE DEF s, lock
<1>6. NoJob \in Jobs /\ NoJob.stamp = 0
  BY DEF NoJob, NewJob, Jobs, Policies, NoScore
<1>7. TypeOK'
  <2>1. /\ locks' \in [Sessions -> Locks] /\ answer' \in Models \cup {None}
        /\ served' \in [Sessions -> [model : Models \cup {None}, stamp : Nat]]
    BY <1>1, <1>2 DEF TypeOK
  <2>2. pc' \in [Requests -> Steps] /\ job' \in [Requests -> Jobs]
    BY <1>1, <1>3, <1>6 DEF TypeOK, Steps, Jobs
  <2>3. \A u \in Requests : pc'[u] = "applying" => pc[u] = "applying" /\ job'[u] = job[u]
    BY <1>1, <1>3 DEF TypeOK
  <2>4. \A t, u \in Requests : t # u /\ pc'[t] \in {"selecting", "applying"} =>
          pc'[u] \in {"idle", "classifying"}
    BY <1>1, <1>3 DEF TypeOK
  <2>5. QED
    BY <1>1, <1>3, <2>1, <2>2, <2>3, <2>4 DEF TypeOK, Jobs
<1>8. LockScores'
  BY <1>1, <1>2, <1>3, <1>5 DEF IInv, LockScores, TypeOK
<1>9. LockLasts'
  <2> SUFFICES ASSUME NEW q \in Sessions, served'[q].model # None
               PROVE  /\ locks'[q].model = served'[q].model
                      /\ \E c \in Configs :
                            locks'[q].expires >= served'[q].stamp + c.ttl
    BY DEF LockLasts
  <2>1. CASE q = s
    <3>1. locks'[q] = lock /\ served'[q].model = lock.model
          /\ served'[q].stamp = job[r].stamp
      BY <1>1, <1>2, <2>1 DEF TypeOK
    <3>2. PICK c \in Configs : resolver.ttl = c.ttl
      BY DEF IInv, PeriodKnown
    <3>3. resolver.ttl \in Nat
      BY <1>1 DEF TypeOK
    <3>4. lock.expires >= job[r].stamp + c.ttl
      BY <1>2, <1>4, <3>2, <3>3
    <3>5. QED
      BY <3>1, <3>4
  <2>2. CASE q # s
    BY <1>1, <1>2, <2>2 DEF IInv, LockLasts, TypeOK
  <2>3. QED
    BY <2>1, <2>2
<1>10. StampsPast'
  <2>1. job[r].stamp <= clock /\ clock \in Nat
    BY <1>1, RoutingType DEF IInv, StampsPast
  <2>2. \A u \in Requests : job'[u].stamp <= clock
    BY <1>1, <1>3, <1>6, <2>1 DEF IInv, StampsPast, TypeOK
  <2>3. \A q \in Sessions : served'[q].stamp <= clock
    BY <1>1, <1>2, <2>1 DEF IInv, StampsPast, TypeOK
  <2>4. QED
    BY <1>3, <2>2, <2>3 DEF StampsPast
<1>11. PeriodKnown'
  BY <1>3 DEF IInv, PeriodKnown
<1>12. QED
  BY <1>7, <1>8, <1>9, <1>10, <1>11 DEF IInv

LEMMA ForgetIInv ==
  ASSUME IInv, NEW s \in Sessions, Forget(s)
  PROVE  IInv'
<1>1. /\ locks' = [locks EXCEPT ![s] = NoLock]
      /\ served' = [served EXCEPT ![s] = Unserved]
      /\ UNCHANGED <<pc, job, answer, routing, rules, resolver, counter, reload,
                     clock, turns, reloads>>
  BY DEF Forget, ClearSession, requestVars, configVars, bounds
<1>2. TypeOK'
  BY <1>1, NoValues DEF IInv, TypeOK, Unserved
<1>3. LockScores' /\ LockLasts'
  BY <1>1 DEF IInv, TypeOK, LockScores, LockLasts, Unserved
<1>4. StampsPast' /\ PeriodKnown'
  BY <1>1, RoutingType DEF IInv, TypeOK, StampsPast, PeriodKnown, Unserved
<1>5. QED
  BY <1>2, <1>3, <1>4 DEF IInv

LEMMA PublishIInv ==
  ASSUME IInv, NEW c \in Configs, Publish(c), UNCHANGED served
  PROVE  IInv'
<1>1. /\ reload' = [phase |-> "published", clear |-> routing.policy # c.policy]
      /\ routing' = c /\ reloads' = reloads + 1
      /\ UNCHANGED <<pc, job, answer, resolver, counter, locks, rules, clock, turns, served>>
      /\ reload.phase = "idle"
  BY DEF Publish, requestVars, resolverVars
<1>2. TypeOK'
  BY <1>1 DEF IInv, TypeOK
<1>3. LockScores' /\ LockLasts' /\ StampsPast' /\ PeriodKnown'
  BY <1>1 DEF IInv, LockScores, LockLasts, StampsPast, PeriodKnown
<1>4. QED
  BY <1>2, <1>3 DEF IInv

LEMMA AssignTiersIInv ==
  ASSUME IInv, AssignTiers, UNCHANGED served
  PROVE  IInv'
<1>1. TypeOK /\ routing.tiers \in Tiers
  BY RoutingType DEF IInv
<1>2. /\ reload' = [reload EXCEPT !.phase = "locked"]
      /\ resolver' = [resolver EXCEPT !.tiers = routing.tiers]
      /\ UNCHANGED <<pc, job, answer, routing, counter, locks, rules, clock, turns,
                     reloads, served>>
  BY DEF AssignTiers, requestVars, bounds
<1>3. TypeOK'
  BY <1>1, <1>2 DEF TypeOK
<1>4. LockScores' /\ LockLasts' /\ StampsPast'
  BY <1>1, <1>2 DEF TypeOK, IInv, LockScores, LockLasts, StampsPast
<1>5. PeriodKnown'
  BY <1>1, <1>2 DEF TypeOK, IInv, PeriodKnown
<1>6. QED
  BY <1>3, <1>4, <1>5 DEF IInv

LEMMA ReconfigureIInv ==
  ASSUME IInv, Reconfigure
  PROVE  IInv'
<1>1. /\ TypeOK /\ clock \in Nat /\ routing \in Configs
      /\ routing.strategy \in Strategies /\ routing.fallback \in Models
      /\ routing.ttl \in Nat \ {0}
  BY RoutingType DEF IInv
<1>2. /\ reload' = [reload EXCEPT !.phase = "unlocked"]
      /\ resolver' = [resolver EXCEPT !.strategy = routing.strategy,
                                      !.fallback = routing.fallback,
                                      !.ttl = routing.ttl]
      /\ locks' = [s \in Sessions |->
                     IF reload.clear \/ locks[s] = NoLock THEN NoLock
                     ELSE [locks[s] EXCEPT
                             !.score = TierScore(resolver.tiers, locks[s].model),
                             !.expires = clock + routing.ttl]]
      /\ served' = IF reload.clear THEN [s \in Sessions |-> Unserved] ELSE served
      /\ UNCHANGED <<pc, job, answer, routing, counter, rules, clock, turns, reloads>>
  BY DEF Reconfigure, UpdateLocks, requestVars, bounds
<1>3. /\ resolver' \in [tiers : Tiers, strategy : Strategies, fallback : Models,
                        ttl : Nat \ {0}]
      /\ resolver'.tiers = resolver.tiers /\ resolver'.ttl = routing.ttl
  BY <1>1, <1>2 DEF TypeOK
<1>4. \A s \in Sessions :
         /\ locks'[s] \in Locks
         /\ locks'[s] # NoLock =>
               /\ ~reload.clear /\ locks[s] # NoLock
               /\ locks'[s].model = locks[s].model
               /\ locks'[s].score = TierScore(resolver.tiers, locks[s].model)
         /\ ~reload.clear /\ locks[s] # NoLock =>
               /\ locks'[s].model = locks[s].model
               /\ locks'[s].expires = clock + routing.ttl
  <2> SUFFICES ASSUME NEW s \in Sessions
               PROVE  /\ locks'[s] \in Locks
                      /\ locks'[s] # NoLock =>
                            /\ ~reload.clear /\ locks[s] # NoLock
                            /\ locks'[s].model = locks[s].model
                            /\ locks'[s].score = TierScore(resolver.tiers, locks[s].model)
                      /\ ~reload.clear /\ locks[s] # NoLock =>
                            /\ locks'[s].model = locks[s].model
                            /\ locks'[s].expires = clock + routing.ttl
    OBVIOUS
  <2>1. locks[s] \in Locks /\ clock + routing.ttl \in Nat
    BY <1>1 DEF TypeOK
  <2>2. TierScore(resolver.tiers, locks[s].model) \in Int
    BY <1>1, TierScoreType DEF TypeOK, NoScore
  <2>3. CASE reload.clear \/ locks[s] = NoLock
    BY <1>2, <2>3, NoValues
  <2>4. CASE ~(reload.clear \/ locks[s] = NoLock)
    <3>1. locks'[s] = [locks[s] EXCEPT
                         !.score = TierScore(resolver.tiers, locks[s].model),
                         !.expires = clock + routing.ttl]
      BY <1>2, <2>4
    <3>2. QED
      BY <2>1, <2>2, <2>4, <3>1 DEF Locks
  <2>5. QED
    BY <2>3, <2>4
<1>5. served' \in [Sessions -> [model : Models \cup {None}, stamp : Nat]]
  BY <1>1, <1>2 DEF TypeOK, Unserved
<1>6. locks' \in [Sessions -> Locks]
  BY <1>2, <1>4
<1>7. TypeOK'
  BY <1>1, <1>2, <1>3, <1>5, <1>6 DEF TypeOK
<1>8. LockScores'
  BY <1>3, <1>4 DEF LockScores
<1>9. LockLasts'
  <2> SUFFICES ASSUME NEW s \in Sessions, served'[s].model # None
               PROVE  /\ locks'[s].model = served'[s].model
                      /\ \E c \in Configs :
                            locks'[s].expires >= served'[s].stamp + c.ttl
    BY DEF LockLasts
  <2>1. ~reload.clear /\ served'[s] = served[s]
    BY <1>2 DEF Unserved
  <2>2. locks[s].model = served[s].model /\ served[s].stamp <= clock
        /\ served[s].stamp \in Nat
    BY <1>1, <2>1 DEF IInv, LockLasts, StampsPast, TypeOK
  <2>3. locks[s] # NoLock
    BY <2>1, <2>2, NoValues
  <2>4. locks'[s].expires >= served[s].stamp + routing.ttl
    BY <1>1, <1>4, <2>1, <2>2, <2>3
  <2>5. QED
    BY <1>1, <1>4, <2>1, <2>2, <2>3, <2>4
<1>10. StampsPast' /\ PeriodKnown'
  <2>1. \A r \in Requests : job'[r].stamp <= clock'
    BY <1>2 DEF IInv, StampsPast
  <2>2. \A s \in Sessions : served'[s].stamp <= clock'
    <3>1. CASE reload.clear
      BY <1>1, <1>2, <3>1 DEF Unserved
    <3>2. CASE ~reload.clear
      BY <1>2, <3>2 DEF IInv, StampsPast
    <3>3. QED
      BY <3>1, <3>2
  <2>3. PeriodKnown'
    BY <1>1, <1>3 DEF PeriodKnown
  <2>4. QED
    BY <2>1, <2>2, <2>3 DEF StampsPast
<1>11. QED
  BY <1>7, <1>8, <1>9, <1>10 DEF IInv

LEMMA UpdateRulesIInv ==
  ASSUME IInv, UpdateRules, UNCHANGED served
  PROVE  IInv'
<1>1. /\ reload' = [reload EXCEPT !.phase = "idle"] /\ rules' = routing.trivial
      /\ reload.phase = "unlocked"
      /\ UNCHANGED <<pc, job, answer, resolver, counter, locks, routing, clock, turns,
                     reloads, served>>
  BY DEF UpdateRules, requestVars, resolverVars, bounds
<1>2. TypeOK'
  BY <1>1, RoutingType DEF IInv, TypeOK
<1>3. LockScores' /\ LockLasts' /\ StampsPast' /\ PeriodKnown'
  BY <1>1 DEF IInv, LockScores, LockLasts, StampsPast, PeriodKnown
<1>4. QED
  BY <1>2, <1>3 DEF IInv

LEMMA TickIInv ==
  ASSUME IInv, Tick, UNCHANGED served
  PROVE  IInv'
<1>1. /\ clock' = clock + 1 /\ clock \in Nat
      /\ UNCHANGED <<pc, job, answer, resolver, counter, locks, routing, rules, reload,
                     turns, reloads, served>>
  BY RoutingType DEF Tick, requestVars, resolverVars, configVars, bounds, IInv
<1>2. TypeOK'
  BY <1>1 DEF IInv, TypeOK
<1>3. LockScores' /\ LockLasts' /\ PeriodKnown'
  BY <1>1 DEF IInv, LockScores, LockLasts, PeriodKnown
<1>4. StampsPast'
  BY <1>1 DEF IInv, TypeOK, StampsPast
<1>5. QED
  BY <1>2, <1>3, <1>4 DEF IInv

LEMMA NextIInv == IInv /\ [HNext]_hvars => IInv'
<1> SUFFICES ASSUME IInv, [HNext]_hvars PROVE IInv'
  OBVIOUS
<1>1. CASE \E r \in Requests : Serve(r)
  BY <1>1, ServeIInv
<1>2. CASE \E s \in Sessions : Forget(s)
  BY <1>2, ForgetIInv
<1>3. CASE Reconfigure
  BY <1>3, ReconfigureIInv
<1>4. CASE Other
  <2>1. UNCHANGED served
    BY <1>4 DEF Other
  <2>2. CASE \E r \in Requests : \E s \in Sessions \cup {NoSession} :
                AskTrivial(r, s) \/ Ask(r, s)
    BY <2>1, <2>2, AskTrivialIInv, AskIInv
  <2>3. CASE \E r \in Requests : \E score \in Scores : Classified(r, score)
    BY <2>1, <2>3, ClassifiedIInv
  <2>4. CASE \E r \in Requests : ClassifierFailed(r) \/ Select(r)
    BY <2>1, <2>4, ClassifierFailedIInv, SelectIInv
  <2>5. CASE \E c \in Configs : Publish(c)
    BY <2>1, <2>5, PublishIInv
  <2>6. CASE AssignTiers
    BY <2>1, <2>6, AssignTiersIInv
  <2>7. CASE UpdateRules
    BY <2>1, <2>7, UpdateRulesIInv
  <2>8. CASE Tick
    BY <2>1, <2>8, TickIInv
  <2>9. QED
    BY <1>4, <2>2, <2>3, <2>4, <2>5, <2>6, <2>7, <2>8 DEF Other
<1>5. CASE UNCHANGED hvars
  <2>1. UNCHANGED <<pc, job, answer, resolver, counter, locks, routing, rules, reload,
                    clock, turns, reloads, served>>
    BY <1>5 DEF hvars, vars, requestVars, resolverVars, configVars, bounds
  <2>2. TypeOK'
    BY <2>1 DEF IInv, TypeOK
  <2>3. LockScores' /\ LockLasts' /\ StampsPast' /\ PeriodKnown'
    BY <2>1 DEF IInv, LockScores, LockLasts, StampsPast, PeriodKnown
  <2>4. QED
    BY <2>2, <2>3 DEF IInv
<1>6. QED
  BY <1>1, <1>2, <1>3, <1>4, <1>5 DEF HNext

-----------------------------------------------------------------------------
\* IInv holds in every reachable state, for any number of requests, sessions
\* and configurations, whatever reloads come between the steps of a request.
THEOREM RoutingInvariant == HSpec => []IInv
<1>1. QED
  BY InitIInv, NextIInv, PTL DEF HSpec

\* Every variable keeps its type; a request that wants the lock has a session
\* policy (route_resolver.py:56-62).
THEOREM RoutingTypeOK == HSpec => []TypeOK
<1>1. IInv => TypeOK
  BY DEF IInv
<1>2. QED
  BY <1>1, RoutingInvariant, PTL

\* Escalation never compares scores of two tables (route_resolver.py:117-118).
THEOREM RoutingLockScores == HSpec => []LockScores
<1>1. IInv => LockScores
  BY DEF IInv
<1>2. QED
  BY <1>1, RoutingInvariant, PTL

\* A session in use keeps its lock (route_resolver.py:78, 92, 119).
THEOREM RoutingLockLasts == HSpec => []LockLasts
<1>1. IInv => LockLasts
  BY DEF IInv
<1>2. QED
  BY <1>1, RoutingInvariant, PTL

\* A request served in time finds the lock of its session live.
LEMMA InTimeIsLive ==
  ASSUME IInv, NEW r \in Requests, Serve(r), InTime(r)
  PROVE  LET s == job[r].session
         IN  /\ locks[s].model = served[s].model /\ locks[s] # NoLock
             /\ locks[s].expires > job[r].stamp
<1> DEFINE s == job[r].session
<1>1. s \in Sessions /\ locks[s] \in Locks /\ job[r].stamp \in Nat
  BY ServeFacts
<1>2. /\ served[s].model # None
      /\ \A c \in Configs : job[r].stamp < served[s].stamp + c.ttl
  BY DEF InTime
<1>3. PICK c \in Configs : locks[s].expires >= served[s].stamp + c.ttl
  BY <1>1, <1>2 DEF IInv, LockLasts
<1>4. locks[s].model = served[s].model
  BY <1>1, <1>2 DEF IInv, LockLasts
<1>5. served[s].stamp \in Nat /\ c.ttl \in Nat /\ locks[s].expires \in Nat
  BY <1>1, ConfigFields DEF IInv, TypeOK, Locks
<1>6. locks[s].expires > job[r].stamp
  BY <1>1, <1>2, <1>3, <1>5
<1>7. QED
  BY <1>2, <1>4, <1>6, NoValues

\* README.md:345: under sticky a session in use stays on its model.
THEOREM RoutingSticky == HSpec => StickyKeepsModel
<1> DEFINE Step == \A r \in Requests :
             Serve(r) /\ job[r].policy = "sticky" /\ InTime(r)
                => answer' = served[job[r].session].model
<1>1. IInv /\ [HNext]_hvars => [Step]_hvars
  <2> SUFFICES ASSUME IInv, NEW r \in Requests, Serve(r),
                      job[r].policy = "sticky", InTime(r)
               PROVE  answer' = served[job[r].session].model
    BY DEF Step
  <2> DEFINE s == job[r].session
  <2>1. /\ locks[s].model = served[s].model /\ locks[s] # NoLock
        /\ locks[s].expires > job[r].stamp
    BY InTimeIsLive
  <2>2. /\ locks[s] \in Locks /\ job[r].model \in Models /\ job[r].stamp \in Nat
        /\ answer' = NextLock(locks[s], job[r].policy, job[r].model, job[r].stamp).model
    BY ServeFacts
  <2>3. TypeOK
    BY DEF IInv
  <2>4. QED
    BY <2>1, <2>2, <2>3, NextLockCases
<1>2. QED
  BY <1>1, RoutingInvariant, PTL DEF HSpec, StickyKeepsModel

\* README.md:347: under escalate_only a session in use never moves to a model
\* that the table in use scores lower.
THEOREM RoutingNeverDowngrades == HSpec => NeverDowngrades
<1> DEFINE Step == \A r \in Requests :
             Serve(r) /\ job[r].policy = "escalate_only" /\ InTime(r)
                => TierScore(resolver.tiers, answer')
                     >= TierScore(resolver.tiers, served[job[r].session].model)
<1>1. IInv /\ [HNext]_hvars => [Step]_hvars
  <2> SUFFICES ASSUME IInv, NEW r \in Requests, Serve(r),
                      job[r].policy = "escalate_only", InTime(r)
               PROVE  TierScore(resolver.tiers, answer')
                        >= TierScore(resolver.tiers, served[job[r].session].model)
    BY DEF Step
  <2> DEFINE s == job[r].session
  <2> DEFINE old == TierScore(resolver.tiers, locks[s].model)
  <2> DEFINE new == TierScore(resolver.tiers, job[r].model)
  <2>1. /\ locks[s].model = served[s].model /\ locks[s] # NoLock
        /\ locks[s].expires > job[r].stamp
    BY InTimeIsLive
  <2>2. /\ locks[s] \in Locks /\ job[r].model \in Models /\ job[r].stamp \in Nat
        /\ answer' = NextLock(locks[s], job[r].policy, job[r].model, job[r].stamp).model
        /\ s \in Sessions
    BY ServeFacts
  <2>3. TypeOK /\ resolver.tiers \in Tiers
    BY DEF IInv, TypeOK
  <2>4. locks[s].score = old
    BY <2>1, <2>2 DEF IInv, LockScores, Serve, Apply
  <2>5. old \in Nat \cup {NoScore} /\ new \in Nat \cup {NoScore}
    BY <2>3, TierScoreType
  <2>6. CASE ~CanEscalate(locks[s], job[r].model, new)
    <3>1. answer' = locks[s].model
      BY <2>1, <2>2, <2>3, <2>6, NextLockCases
    <3>2. QED
      BY <2>1, <2>5, <3>1, NoScoreBelow
  <2>7. CASE CanEscalate(locks[s], job[r].model, new)
    <3>1. answer' = job[r].model
      BY <2>2, <2>3, <2>7, NextLockCases
    <3>2. new >= old
      BY <2>4, <2>5, <2>7, NoScoreBelow DEF CanEscalate
    <3>3. QED
      BY <2>1, <3>1, <3>2
  <2>8. QED
    BY <2>6, <2>7
<1>2. QED
  BY <1>1, RoutingInvariant, PTL DEF HSpec, NeverDowngrades

=============================================================================
