-------------------------- MODULE PlanDispatchProofs --------------------------
(***************************************************************************)
(* Theorems about PlanSelection and PlanDispatch, for any configurations,  *)
(* chains and number of requests.                                          *)
(***************************************************************************)
EXTENDS PlanDispatch, FiniteSetTheorems, TLAPS

-----------------------------------------------------------------------------
(* What SelectBest chooses.                                                *)

\* A non-empty set of natural numbers has a least element.
LEMMA Least ==
    ASSUME NEW T, T \subseteq Nat, T # {}
    PROVE  \E m \in T : \A k \in T : m <= k
<1>. DEFINE Below == {0 .. k : k \in T}
<1>1. IsWellFoundedOn(StrictSubsetOrdering(Nat), FiniteSubsetsOf(Nat))
  BY FS_StrictSubsetOrderingWellFounded
<1>2. Below \subseteq FiniteSubsetsOf(Nat) /\ Below # {}
  <2>1. \A k \in T : IsFiniteSet(0 .. k) /\ 0 .. k \subseteq Nat
    BY FS_Interval
  <2>. QED BY <2>1 DEF FiniteSubsetsOf
<1>3. PICK B \in Below : \A C \in Below : ~ (<<C, B>> \in StrictSubsetOrdering(Nat))
  <2>. HIDE DEF Below
  <2>. QED BY <1>1, <1>2, WFMin, Zenon
<1>4. PICK m \in T : B = 0 .. m
  OBVIOUS
<1>5. ASSUME NEW k \in T PROVE m <= k
  <2>1. CASE k < m
    <3>1. 0 .. k \in Below /\ 0 .. k \subseteq B /\ m \in B /\ m \notin 0 .. k
      BY <1>4, <2>1
    <3>2. <<0 .. k, B>> \in StrictSubsetOrdering(Nat)
      BY <3>1, <1>4 DEF StrictSubsetOrdering
    <3>. QED BY <3>1, <3>2, <1>3
  <2>. QED BY <2>1
<1>. QED BY <1>5

LEMMA ClampRange ==
    ASSUME NEW x \in Int, NEW high \in Nat
    PROVE  Clamp(x, 0, high) \in Nat /\ Clamp(x, 0, high) <= high
BY DEF Clamp

\* A score is a natural number, so that scores can be compared and counted down.
LEMMA ScoreRange ==
    ASSUME NEW x, NEW p, IsModel(x), IsProfile(p)
    PROVE  Score(x, p) \in Nat /\ Score(x, p) <= 10000
<1>1. \A v \in Int \cup {Unknown} : Normalize(v) \in Int
  BY ClampRange DEF Normalize
<1>2. /\ p.weights.cost * (100 - Normalize(x.cost)) \in Int
      /\ p.weights.context * Normalize(x.context) \in Int
      /\ p.weights.benchmark * Normalize(x.benchmark) \in Int
  <2>1. /\ Normalize(x.cost) \in Int /\ Normalize(x.context) \in Int
        /\ Normalize(x.benchmark) \in Int
    BY <1>1 DEF IsModel
  <2>2. \A a, b \in Int : a * b \in Int
    OBVIOUS
  <2>. QED BY <2>1, <2>2 DEF IsProfile
<1>. DEFINE sum == p.weights.cost * (100 - Normalize(x.cost))
                   + p.weights.context * Normalize(x.context)
                   + p.weights.benchmark * Normalize(x.benchmark)
<1>3. sum \in Int
  BY <1>2
<1>4. Score(x, p) = Clamp(sum, 0, 10000)
  BY Zenon DEF Score
<1>. QED
  <2>. HIDE DEF sum
  <2>1. Clamp(sum, 0, 10000) \in Nat /\ Clamp(sum, 0, 10000) <= 10000
    BY <1>3, ClampRange
  <2>. QED BY <1>4, <2>1

\* Among finitely scored positions one comes first in the order of the sort.
LEMMA SortedFirst ==
    ASSUME NEW S, S \subseteq Nat, S # {}, NEW s \in [S -> Nat],
           \E top \in Nat : \A j \in S : s[j] <= top
    PROVE  \E m \in S : \A j \in S : m = j \/ s[m] > s[j] \/ (s[m] = s[j] /\ m < j)
<1>. PICK top \in Nat : \A j \in S : s[j] <= top
  OBVIOUS
<1>1. \A j \in S : s[j] \in Nat /\ s[j] <= top /\ j \in Nat
  OBVIOUS
<1>2. PICK i \in S : \A j \in S : s[j] <= s[i]
  <2>. DEFINE Lack == {top - s[j] : j \in S}
  <2>1. Lack \subseteq Nat /\ Lack # {}
    <3>1. \A j \in S : top - s[j] \in Nat
      BY <1>1
    <3>. QED BY <3>1
  <2>. HIDE DEF Lack
  <2>2. PICK l \in Lack : \A k \in Lack : l <= k
    BY <2>1, Least
  <2>3. PICK i \in S : l = top - s[i]
    BY DEF Lack
  <2>4. ASSUME NEW j \in S PROVE s[j] <= s[i]
    <3>1. l <= top - s[j]
      BY <2>2 DEF Lack
    <3>. QED BY <1>1, <3>1, <2>3
  <2>. QED BY <2>4
<1>3. PICK m \in S : s[m] = s[i] /\ \A k \in S : s[k] = s[i] => m <= k
  <2>. DEFINE Equal == {j \in S : s[j] = s[i]}
  <2>1. Equal \subseteq Nat /\ Equal # {}
    BY <1>1
  <2>. HIDE DEF Equal
  <2>2. \E m \in Equal : \A k \in Equal : m <= k
    BY <2>1, Least
  <2>. QED BY <2>2 DEF Equal
<1>4. ASSUME NEW j \in S
      PROVE  m = j \/ s[m] > s[j] \/ (s[m] = s[j] /\ m < j)
  BY <1>1, <1>2, <1>3
<1>. QED BY <1>4

\* The first of the sorted candidates is one of them, with the highest score.
LEMMA FirstIsBest ==
    ASSUME NEW models, NEW p, NEW S, S \subseteq Nat, S # {},
           NEW s \in [S -> Nat], \A i \in S : s[i] = Score(models[i], p),
           \E top \in Nat : \A j \in S : s[j] <= top
    PROVE  /\ First(models, p, S) \in S
           /\ \A j \in S : s[j] <= s[First(models, p, S)]
<1>. DEFINE Best(i) == \A j \in S \ {i} :
                \/ Score(models[i], p) > Score(models[j], p)
                \/ Score(models[i], p) = Score(models[j], p) /\ i < j
            f == First(models, p, S)
<1>1. f = CHOOSE i \in S : Best(i)
  BY Zenon DEF First
<1>2. \E m \in S : Best(m)
  <2>1. PICK m \in S : \A j \in S : m = j \/ s[m] > s[j] \/ (s[m] = s[j] /\ m < j)
    BY SortedFirst
  <2>. QED BY <2>1
<1>3. f \in S /\ Best(f)
  <2>. HIDE DEF Best, f
  <2>. QED BY <1>1, <1>2
<1>4. ASSUME NEW j \in S PROVE s[j] <= s[f]
  <2>. HIDE DEF f
  <2>1. s[j] \in Nat /\ s[f] \in Nat
    BY <1>3
  <2>. QED BY <1>3, <2>1
<1>. QED BY <1>3, <1>4

\* A model that can be chosen is one that meets the constraints.
LEMMA SelectFits ==
    ASSUME NEW c, WellFormed(c), NEW agent, agent.override = NoOverride,
           ProfileName(c, agent.profile) \in DOMAIN c.profiles,
           NEW p, p = c.profiles[ProfileName(c, agent.profile)],
           NEW candidates, candidates = {i \in DOMAIN c.models : Meets(c.models[i], p)},
           candidates # {}
    PROVE  \E i \in candidates :
              /\ SelectModel(c, agent) = c.models[i].name
              /\ \/ c.models[i].name \in p.prefer
                 \/ \A j \in candidates : Score(c.models[j], p) <= Score(c.models[i], p)
<1>. DEFINE preferred == {i \in candidates : c.models[i].name \in p.prefer}
            S == IF preferred # {} THEN preferred ELSE candidates
            i == First(c.models, p, S)
<1>1. DOMAIN c.models \subseteq Nat /\ \A j \in DOMAIN c.models : IsModel(c.models[j])
  <2>1. c.models \in Seq(Range(c.models)) /\ \A x \in Range(c.models) : IsModel(x)
    BY DEF WellFormed
  <2>2. \A j \in DOMAIN c.models : c.models[j] \in Range(c.models)
    BY DEF Range
  <2>. QED BY <2>1, <2>2
<1>2. IsProfile(p)
  BY DEF WellFormed
<1>3. S \subseteq candidates /\ S # {} /\ candidates \subseteq DOMAIN c.models
  OBVIOUS
<1>4. \A j \in S : Score(c.models[j], p) \in Nat /\ Score(c.models[j], p) <= 10000
  BY <1>1, <1>2, <1>3, ScoreRange
<1>5. i \in S /\ \A j \in S : Score(c.models[j], p) <= Score(c.models[i], p)
  <2>. DEFINE s == [j \in S |-> Score(c.models[j], p)]
  <2>. HIDE DEF S
  <2>1. S \subseteq Nat
    BY <1>1, <1>3
  <2>2. s \in [S -> Nat] /\ \A j \in S : s[j] = Score(c.models[j], p) /\ s[j] <= 10000
    BY <1>4
  <2>3. \E top \in Nat : \A j \in S : s[j] <= top
    BY <2>2
  <2>. HIDE DEF s
  <2>4. i \in S /\ \A j \in S : s[j] <= s[i]
    <3>1. S # {} /\ s \in [S -> Nat] /\ \A j \in S : s[j] = Score(c.models[j], p)
      BY <1>3, <2>2
    <3>. QED BY <2>1, <2>3, <3>1, FirstIsBest, Zenon
  <2>. QED BY <2>2, <2>4
<1>6. SelectModel(c, agent) = c.models[i].name
  BY Zenon DEF SelectModel, SelectBest
<1>7. c.models[i].name \in p.prefer \/ S = candidates
  BY <1>5
<1>. HIDE DEF i, S
<1>. QED BY <1>3, <1>5, <1>6, <1>7

\* Of the agents that share a name one is the last.
LEMMA LastNamedIsLast ==
    ASSUME NEW V, NEW agents \in Seq(V), NEW name, NEW n \in DOMAIN agents,
           agents[n].name = name
    PROVE  /\ LastNamed(agents, name) \in DOMAIN agents
           /\ agents[LastNamed(agents, name)].name = name
           /\ \A j \in DOMAIN agents : agents[j].name = name => j <= LastNamed(agents, name)
<1>. DEFINE Named == {j \in DOMAIN agents : agents[j].name = name}
            After == {Len(agents) - j : j \in Named}
            Last(i) == /\ agents[i].name = name
                       /\ \A j \in DOMAIN agents : agents[j].name = name => j <= i
<1>1. \A j \in Named : j \in Nat /\ Len(agents) - j \in Nat /\ Len(agents) \in Nat
  OBVIOUS
<1>2. After \subseteq Nat /\ After # {}
  <2>1. n \in Named
    OBVIOUS
  <2>. HIDE DEF Named
  <2>. QED BY <1>1, <2>1
<1>3. PICK l \in After : \A k \in After : l <= k
  <2>. HIDE DEF After
  <2>. QED BY <1>2, Least
<1>4. PICK i \in Named : l = Len(agents) - i
  OBVIOUS
<1>5. ASSUME NEW j \in Named PROVE j <= i
  <2>1. l <= Len(agents) - j
    BY <1>3
  <2>. HIDE DEF Named
  <2>. QED BY <1>1, <1>4, <2>1
<1>6. \E m \in DOMAIN agents : Last(m)
  BY <1>5
<1>7. LastNamed(agents, name) = CHOOSE m \in DOMAIN agents : Last(m)
  BY Zenon DEF LastNamed
<1>8. LastNamed(agents, name) \in DOMAIN agents /\ Last(LastNamed(agents, name))
  <2>. HIDE DEF Last
  <2>. QED BY <1>6, <1>7
<1>. QED BY <1>8

LEMMA SelectSuits ==
    ASSUME NEW c, WellFormed(c), NEW agent,
           agent.override = NoOverride =>
               ProfileName(c, agent.profile) \in DOMAIN c.profiles
    PROVE  Suits(c, agent, SelectModel(c, agent))
<1>. DEFINE p == c.profiles[ProfileName(c, agent.profile)]
            candidates == {i \in DOMAIN c.models : Meets(c.models[i], p)}
            meeting == {x \in Range(c.models) :
                          /\ x.available /\ x.cost <= p.maxCost
                          /\ x.context >= p.minContext
                          /\ Score(x, p) >= p.threshold}
            m == SelectModel(c, agent)
<1>1. \A i \in DOMAIN c.models : i \in candidates <=> c.models[i] \in meeting
  BY DEF Meets, Range
<1>2. CASE agent.override # NoOverride
  BY <1>2 DEF SelectModel, Suits
<1>3. CASE agent.override = NoOverride /\ candidates = {}
  <2>1. m = c.fallback
    BY <1>3 DEF SelectModel
  <2>2. meeting = {}
    <3>1. \A x \in Range(c.models) : \E i \in DOMAIN c.models : x = c.models[i]
      BY DEF Range
    <3>2. meeting \subseteq Range(c.models)
      OBVIOUS
    <3>. HIDE DEF candidates, meeting
    <3>. QED BY <1>1, <1>3, <3>1, <3>2
  <2>. HIDE DEF m
  <2>. QED BY <1>3, <2>1, <2>2 DEF Suits, m
<1>4. CASE agent.override = NoOverride /\ candidates # {}
  <2>1. PICK i \in candidates :
           /\ m = c.models[i].name
           /\ \/ c.models[i].name \in p.prefer
              \/ \A j \in candidates : Score(c.models[j], p) <= Score(c.models[i], p)
    BY <1>4, SelectFits
  <2>2. c.models[i] \in meeting /\ c.models[i].name = m
    BY <1>1, <2>1
  <2>3. ASSUME \A j \in candidates : Score(c.models[j], p) <= Score(c.models[i], p),
               NEW y \in meeting
        PROVE  Score(y, p) <= Score(c.models[i], p)
    <3>1. PICK j \in DOMAIN c.models : y = c.models[j]
      BY DEF Range
    <3>. QED BY <1>1, <2>3, <3>1
  <2>4. c.models[i].name \in p.prefer
           \/ \A y \in meeting : Score(y, p) <= Score(c.models[i], p)
    BY <2>1, <2>3
  <2>. HIDE DEF m
  <2>5. Suits(c, agent, m)
    BY <1>4, <2>2, <2>4 DEF Suits
  <2>. QED BY <2>5 DEF m
<1>. QED BY <1>2, <1>3, <1>4

\* Every model of a generated plan is one that the configuration calls for:
\* generate_all() and _select_model(), template_plan_generator.py:56-123.
THEOREM PlanFits ==
    ASSUME NEW c \in Configurations, Generates(c), NEW k \in DOMAIN Plan(c)
    PROVE  Fits(c, k, Plan(c)[k])
<1>. DEFINE agents == c.templates[k[1]]
            n == LastNamed(agents, k[2])
            m == Plan(c)[k]
<1>1. WellFormed(c)
  BY DispatchAssumption
<1>2. k \in Keys(c) /\ c.models # <<>> /\ m = SelectModel(c, agents[n])
  BY DEF Plan
<1>3. PICK t \in DOMAIN c.templates :
         \E o \in DOMAIN c.templates[t] : k = <<t, c.templates[t][o].name>>
  BY <1>2 DEF Keys
<1>4. PICK o \in DOMAIN agents : k[1] \in DOMAIN c.templates /\ agents[o].name = k[2]
  BY <1>3
<1>5. agents \in Seq(Range(agents))
  BY <1>1, <1>4 DEF WellFormed
<1>6. /\ n \in DOMAIN agents /\ agents[n].name = k[2]
      /\ \A j \in DOMAIN agents : agents[j].name = k[2] => j <= n
  <2>. HIDE DEF agents
  <2>. QED BY <1>4, <1>5, LastNamedIsLast
<1>7. Suits(c, agents[n], m)
  <2>. HIDE DEF n, m
  <2>1. agents[n].override = NoOverride =>
           ProfileName(c, agents[n].profile) \in DOMAIN c.profiles
    BY <1>2, <1>4, <1>6 DEF Generates
  <2>. QED BY <1>1, <1>2, <2>1, SelectSuits
<1>. HIDE DEF m, n
<1>8. Fits(c, k, m)
  BY <1>6, <1>7 DEF Fits
<1>. QED BY <1>8 DEF m

-----------------------------------------------------------------------------
(* The inductive invariant.                                                *)

\* Every chain has a length.
LEMMA ChainLength ==
    ASSUME NEW m \in DOMAIN Chains
    PROVE  Len(Chains[m]) \in Nat /\ Chains[m] \in Seq(Range(Chains[m])) /\ Chains[m] # NoChain
BY DispatchAssumption

LEMMA InitInv == Init => DispatchInv
<1>. SUFFICES ASSUME Init PROVE DispatchInv
  OBVIOUS
<1>1. TypeOK
  BY DispatchAssumption DEF Init, TypeOK, Ended
<1>2. Generates(config) /\ plan = Plan(config)
  BY DEF Init
<1>3. \A r \in Requests : RequestInv(r)
  BY DEF Init, RequestInv
<1>. QED BY <1>1, <1>2, <1>3 DEF DispatchInv

\* What the invariant sees of a request; one that did not move keeps it.
StateOf(r) == <<pc[r], reason[r], model[r], chain[r], index[r], heard[r], announced[r]>>

LEMMA DispatchFrame ==
    ASSUME NEW r \in Requests, RequestInv(r), StateOf(r)' = StateOf(r)
    PROVE  RequestInv(r)'
BY DEF RequestInv, StateOf

\* A request's first model, with the chain of a planned one.
LEMMA GetModelInv ==
    ASSUME DispatchInv, NEW r \in Requests, NEW k \in Asked \cup {NoAgent},
           pc[r] \in {"idle", "found"}, GetModel(r, k),
           key' = key \/ key' = [key EXCEPT ![r] = k]
    PROVE  DispatchInv'
<1>0. TypeOK /\ RequestInv(r)
  BY DEF DispatchInv
<1>1. /\ pc' = [pc EXCEPT ![r] = "calling"]
      /\ UNCHANGED <<plugin, config, plan, index, tries, heard, announced>>
  BY DEF GetModel, Send, failover
<1>2. /\ reason' = [reason EXCEPT ![r] = IF k \in DOMAIN plan THEN "plan" ELSE "unknown_agent"]
      /\ model' = [model EXCEPT ![r] = IF k \in DOMAIN plan THEN plan[k] ELSE FallbackModel]
  BY DEF GetModel, Send
<1>3. chain' = IF k \in DOMAIN plan /\ FailoverEnabled /\ plan[k] \in DOMAIN Chains
               THEN [chain EXCEPT ![r] = Chains[plan[k]]] ELSE chain
  BY DEF GetModel
<1>4. TypeOK'
  <2>1. DOMAIN chain' = Requests /\ DOMAIN model' = Requests
    BY <1>0, <1>2, <1>3 DEF TypeOK
  <2>2. /\ pc' \in [Requests -> {"idle", "found", "refused", "calling"} \cup Ended]
        /\ reason' \in [Requests -> {"none", "fallback", "unknown_agent", "plan"}]
        /\ key' \in [Requests -> Asked \cup {NoAgent}]
    BY <1>0, <1>1, <1>2 DEF TypeOK
  <2>. QED BY <1>0, <1>1, <2>1, <2>2 DEF TypeOK
<1>5. RequestInv(r)'
  <2>1. /\ chain[r] = NoChain /\ index[r] = 0 /\ heard[r] = 0 /\ announced[r] = <<>>
    BY <1>0 DEF RequestInv
  <2>2. /\ pc'[r] = "calling" /\ reason'[r] = IF k \in DOMAIN plan THEN "plan" ELSE "unknown_agent"
        /\ k \in DOMAIN plan => model'[r] = plan[k]
    BY <1>0, <1>1, <1>2 DEF TypeOK
  <2>3. CASE k \in DOMAIN plan /\ FailoverEnabled /\ plan[k] \in DOMAIN Chains
    <3>1. chain'[r] = Chains[plan[k]] /\ Len(Chains[plan[k]]) \in Nat
      BY <1>0, <1>3, <2>3, ChainLength DEF TypeOK
    <3>2. SubSeq(Chains[plan[k]], 1, 0) = <<>>
      BY <2>3, ChainLength
    <3>3. 0 = IF 0 < Len(Chains[plan[k]]) THEN 0 ELSE Len(Chains[plan[k]])
      BY <3>1
    <3>. QED BY <1>1, <2>1, <2>2, <2>3, <3>1, <3>2, <3>3 DEF RequestInv
  <2>4. CASE ~ (k \in DOMAIN plan /\ FailoverEnabled /\ plan[k] \in DOMAIN Chains)
    <3>1. chain'[r] = NoChain
      BY <1>3, <2>1, <2>4
    <3>. QED BY <2>2, <2>4, <3>1 DEF RequestInv
  <2>. QED BY <2>3, <2>4
<1>6. ASSUME NEW q \in Requests, q # r PROVE RequestInv(q)'
  <2>1. RequestInv(q)
    BY DEF DispatchInv
  <2>2. chain'[q] = chain[q]
    BY <1>0, <1>3, <1>6 DEF TypeOK
  <2>3. StateOf(q)' = StateOf(q)
    BY <1>0, <1>1, <1>2, <1>6, <2>2 DEF TypeOK, StateOf
  <2>. QED BY <2>1, <2>3, DispatchFrame
<1>. QED BY <1>1, <1>4, <1>5, <1>6 DEF DispatchInv

\* A failure that is heard of announces the next model of the chain, if there is
\* one.
LEMMA FailureKeeps ==
    ASSUME DispatchInv, NEW r \in Requests, FailureEvent(r), UNCHANGED <<reason, model, chain>>,
           pc[r] \in {"refused", "calling"}, pc'[r] \in {"calling", "rejected", "failed"},
           pc'[r] = "calling" => pc[r] = "calling"
    PROVE  RequestInv(r)'
<1>0. TypeOK /\ RequestInv(r)
  BY DEF DispatchInv
<1>1. heard'[r] = heard[r] + 1 /\ heard[r] \in Nat /\ index[r] \in Nat
  BY <1>0 DEF FailureEvent, TypeOK
<1>2. PICK name \in Reported :
         IF Rest(r, name) = <<>> THEN UNCHANGED <<index, announced>>
         ELSE /\ announced' = [announced EXCEPT ![r] = Append(@, Head(Rest(r, name)))]
              /\ index' = IF chain[r] = NoChain THEN index
                          ELSE [index EXCEPT ![r] = @ + 1]
  BY DEF FailureEvent
<1>3. CASE FailoverEnabled /\ reason[r] = "plan" /\ model[r] \in DOMAIN Chains
  <2>. DEFINE c == Chains[model[r]]
              n == index[r]
  <2>1. /\ chain[r] = c /\ announced[r] = SubSeq(c, 1, n)
        /\ n = IF heard[r] < Len(c) THEN heard[r] ELSE Len(c)
    BY <1>0, <1>3 DEF RequestInv
  <2>2. c \in Seq(Range(c)) /\ Len(c) \in Nat /\ c # NoChain
    BY <1>3, ChainLength
  <2>3. Rest(r, name) = SubSeq(c, n + 1, Len(c))
    BY <1>3, <2>1, <2>2 DEF Rest
  <2>4. n \in Nat
    BY <1>1
  <2>. HIDE DEF c, n
  <2>5. CASE heard[r] < Len(c)
    <3>1. n = heard[r] /\ n < Len(c) /\ n + 1 \in 1 .. Len(c)
      BY <1>1, <2>1, <2>2, <2>5
    <3>2. Rest(r, name) # <<>> /\ Head(Rest(r, name)) = c[n + 1]
      BY <2>2, <2>3, <2>4, <3>1
    <3>3. /\ announced'[r] = Append(announced[r], c[n + 1])
          /\ index'[r] = n + 1
      <4>1. announced' = [announced EXCEPT ![r] = Append(announced[r], c[n + 1])]
        BY <1>2, <3>2
      <4>2. index' = [index EXCEPT ![r] = index[r] + 1]
        BY <1>2, <2>1, <2>2, <3>2
      <4>3. announced'[r] = Append(announced[r], c[n + 1])
        BY <1>0, <4>1 DEF TypeOK
      <4>4. index'[r] = index[r] + 1
        BY <1>0, <4>2 DEF TypeOK
      <4>. QED BY <4>3, <4>4 DEF n
    <3>4. Append(SubSeq(c, 1, n), c[n + 1]) = SubSeq(c, 1, n + 1)
      BY <2>2, <2>4, <3>1
    <3>5. n + 1 = IF heard[r] + 1 < Len(c) THEN heard[r] + 1 ELSE Len(c)
      BY <1>1, <2>2, <2>4, <2>5, <3>1
    <3>6. /\ chain'[r] = c /\ model'[r] = model[r] /\ reason'[r] = "plan"
          /\ announced'[r] = SubSeq(c, 1, index'[r])
          /\ index'[r] = IF heard'[r] < Len(c) THEN heard'[r] ELSE Len(c)
      BY <1>1, <1>3, <2>1, <3>3, <3>4, <3>5
    <3>7. pc'[r] \notin {"idle", "found", "refused"}
      OBVIOUS
    <3>. QED BY <1>3, <3>6, <3>7 DEF RequestInv, c
  <2>6. CASE ~ (heard[r] < Len(c))
    <3>1. n = Len(c) /\ ~ (heard[r] + 1 < Len(c))
      BY <1>1, <2>1, <2>2, <2>6
    <3>2. Rest(r, name) = <<>>
      BY <2>2, <2>3, <3>1
    <3>3. index'[r] = n /\ announced'[r] = announced[r]
      BY <1>2, <3>2 DEF n
    <3>4. /\ chain'[r] = c /\ model'[r] = model[r] /\ reason'[r] = "plan"
          /\ announced'[r] = SubSeq(c, 1, index'[r])
          /\ index'[r] = IF heard'[r] < Len(c) THEN heard'[r] ELSE Len(c)
      BY <1>1, <1>3, <2>1, <3>1, <3>3
    <3>5. pc'[r] \notin {"idle", "found", "refused"}
      OBVIOUS
    <3>. QED BY <1>3, <3>4, <3>5 DEF RequestInv, c
  <2>. QED BY <2>5, <2>6
<1>4. CASE ~ (FailoverEnabled /\ reason[r] = "plan" /\ model[r] \in DOMAIN Chains)
  <2>1. chain[r] = NoChain
    BY <1>0, <1>4 DEF RequestInv
  <2>2. pc'[r] = "calling" => reason[r] # "none"
    BY <1>0 DEF RequestInv
  <2>. QED BY <1>4, <2>1, <2>2 DEF RequestInv
<1>. QED BY <1>3, <1>4

\* A failure moves no other request.
LEMMA FailureMoves ==
    ASSUME TypeOK, NEW r \in Requests,
           FailureEvent(r) \/ UNCHANGED <<index, heard, announced>>
    PROVE  /\ index' \in [Requests -> Nat] /\ heard' \in [Requests -> Nat]
           /\ DOMAIN announced' = Requests
           /\ \A q \in Requests : q # r =>
                 /\ index'[q] = index[q] /\ heard'[q] = heard[q]
                 /\ announced'[q] = announced[q]
<1>1. CASE UNCHANGED <<index, heard, announced>>
  BY <1>1 DEF TypeOK
<1>2. CASE FailureEvent(r)
  <2>1. heard' = [heard EXCEPT ![r] = heard[r] + 1] /\ heard[r] + 1 \in Nat
    BY <1>2 DEF FailureEvent, TypeOK
  <2>2. index' = index \/ index' = [index EXCEPT ![r] = index[r] + 1]
    BY <1>2 DEF FailureEvent
  <2>3. announced' = announced \/ \E a : announced' = [announced EXCEPT ![r] = a]
    BY <1>2 DEF FailureEvent
  <2>4. index[r] + 1 \in Nat
    BY DEF TypeOK
  <2>5. heard' \in [Requests -> Nat] /\ \A q \in Requests : q # r => heard'[q] = heard[q]
    BY <2>1 DEF TypeOK
  <2>6. index' \in [Requests -> Nat] /\ \A q \in Requests : q # r => index'[q] = index[q]
    BY <2>2, <2>4 DEF TypeOK
  <2>7. DOMAIN announced' = Requests
        /\ \A q \in Requests : q # r => announced'[q] = announced[q]
    BY <2>3 DEF TypeOK
  <2>. QED BY <2>5, <2>6, <2>7
<1>. QED BY <1>1, <1>2

\* A call fails, or a refused request is reported as one that did.
LEMMA FinishInv ==
    ASSUME DispatchInv, NEW r \in Requests, Finish(r)
    PROVE  DispatchInv'
<1>0. TypeOK /\ RequestInv(r)
  BY DEF DispatchInv
<1>1. UNCHANGED <<plugin, config, plan, key, reason, model, chain>>
  BY DEF Finish, Reject, Fail, Answered, metadata
<1>2. PICK place \in {"calling", "rejected", "done", "failed"} :
         /\ pc' = [pc EXCEPT ![r] = place]
         /\ place = "calling" => pc[r] = "calling"
         /\ place = "done" => UNCHANGED <<index, heard, announced, tries>>
  <2>1. CASE Reject(r)
    BY <2>1 DEF Reject
  <2>2. CASE Fail(r)
    <3>1. pc' = pc \/ pc' = [pc EXCEPT ![r] = "failed"]
      BY <2>2 DEF Fail
    <3>2. pc = [pc EXCEPT ![r] = "calling"]
      BY <1>0, <2>2 DEF Fail, TypeOK
    <3>. QED BY <2>2, <3>1, <3>2 DEF Fail
  <2>3. CASE Answered(r)
    BY <2>3 DEF Answered, metadata, failover
  <2>. QED BY <2>1, <2>2, <2>3 DEF Finish
<1>3. pc[r] \in {"refused", "calling"}
      /\ (FailureEvent(r) \/ UNCHANGED <<index, heard, announced>>)
  BY DEF Finish, Reject, Fail, Answered, metadata, failover
<1>4. /\ index' \in [Requests -> Nat] /\ heard' \in [Requests -> Nat]
      /\ DOMAIN announced' = Requests
      /\ \A q \in Requests : q # r =>
            /\ index'[q] = index[q] /\ heard'[q] = heard[q]
            /\ announced'[q] = announced[q]
  BY <1>0, <1>3, FailureMoves
<1>5. tries' \in [Requests -> 0 .. MaxRetries + 1]
  <2>1. CASE Fail(r)
    <3>1. tries[r] + 1 \in 0 .. MaxRetries + 1
      BY <1>0, <2>1, DispatchAssumption DEF Fail, TypeOK
    <3>. QED BY <1>0, <2>1, <3>1 DEF Fail, TypeOK
  <2>2. CASE ~ Fail(r)
    BY <1>0, <2>2 DEF Finish, Reject, Answered, failover, TypeOK
  <2>. QED BY <2>1, <2>2
<1>6. pc' \in [Requests -> {"idle", "found", "refused", "calling"} \cup Ended]
      /\ pc'[r] = place
  BY <1>0, <1>2 DEF TypeOK, Ended
<1>7. TypeOK'
  BY <1>0, <1>1, <1>4, <1>5, <1>6 DEF TypeOK
<1>8. RequestInv(r)'
  <2>1. CASE FailureEvent(r) /\ place # "done"
    BY <1>1, <1>2, <1>3, <1>6, <2>1, FailureKeeps
  <2>2. CASE UNCHANGED <<index, heard, announced>>
    BY <1>0, <1>1, <1>2, <1>6, <2>2 DEF RequestInv
  <2>. QED BY <1>2, <1>3, <2>1, <2>2
<1>9. ASSUME NEW q \in Requests, q # r PROVE RequestInv(q)'
  <2>1. pc'[q] = pc[q]
    BY <1>0, <1>2, <1>9 DEF TypeOK
  <2>2. StateOf(q)' = StateOf(q)
    BY <1>1, <1>4, <1>9, <2>1 DEF StateOf
  <2>. QED BY <2>2, DispatchFrame DEF DispatchInv
<1>. QED BY <1>1, <1>7, <1>8, <1>9 DEF DispatchInv

\* A step that changes nothing but where a request is, and which key it asked for.
LEMMA LookInv ==
    ASSUME DispatchInv, NEW r \in Requests, pc[r] = "idle",
           NEW place \in {"found", "refused"}, pc' = [pc EXCEPT ![r] = place],
           key' \in [Requests -> Asked \cup {NoAgent}],
           UNCHANGED <<plugin, config, plan, reason, model, metadata, failover>>
    PROVE  DispatchInv'
<1>0. TypeOK /\ RequestInv(r)
  BY DEF DispatchInv
<1>1. UNCHANGED <<plugin, config, plan, reason, model, chain, index, tries, heard, announced>>
  BY DEF metadata, failover
<1>2. TypeOK' /\ pc'[r] = place
  BY <1>0, <1>1 DEF TypeOK
<1>3. RequestInv(r)'
  BY <1>0, <1>1, <1>2 DEF RequestInv
<1>4. ASSUME NEW q \in Requests, q # r PROVE RequestInv(q)'
  <2>1. StateOf(q)' = StateOf(q)
    BY <1>0, <1>1, <1>4 DEF StateOf, TypeOK
  <2>. QED BY <2>1, DispatchFrame DEF DispatchInv
<1>. QED BY <1>1, <1>2, <1>3, <1>4 DEF DispatchInv

LEMMA NextInv == DispatchInv /\ [Next]_vars => DispatchInv'
<1>. SUFFICES ASSUME DispatchInv, [Next]_vars PROVE DispatchInv'
  OBVIOUS
<1>0. TypeOK
  BY DEF DispatchInv
<1>1. ASSUME NEW c \in Configurations, Reload(c) PROVE DispatchInv'
  <2>1. UNCHANGED <<plugin, pc, key, reason, model, chain, index, tries, heard, announced>>
    BY <1>1 DEF Reload, request, metadata, failover
  <2>2. TypeOK'
    BY <1>0, <1>1, <2>1 DEF Reload, TypeOK
  <2>3. \A q \in Requests : RequestInv(q)'
    BY <2>1, DispatchFrame DEF DispatchInv, StateOf
  <2>. QED BY <1>1, <2>2, <2>3 DEF Reload, DispatchInv
<1>2. ASSUME NEW r \in Requests, Unnamed(r) PROVE DispatchInv'
  <2>1. /\ UNCHANGED <<plugin, config, plan, key, chain, index, tries, heard, announced>>
        /\ pc[r] = "idle" /\ pc' = [pc EXCEPT ![r] = "calling"]
        /\ reason' = [reason EXCEPT ![r] = "fallback"]
        /\ model' = [model EXCEPT ![r] = FallbackModel]
    BY <1>2 DEF Unnamed, Send, metadata, failover
  <2>2. TypeOK'
    BY <1>0, <2>1 DEF TypeOK
  <2>3. pc'[r] = "calling" /\ reason'[r] = "fallback"
    BY <1>0, <2>1 DEF TypeOK
  <2>4. RequestInv(r)
    BY DEF DispatchInv
  <2>5. RequestInv(r)'
    BY <2>1, <2>3, <2>4 DEF RequestInv
  <2>6. ASSUME NEW q \in Requests, q # r PROVE RequestInv(q)'
    <3>1. StateOf(q)' = StateOf(q)
      BY <1>0, <2>1, <2>6 DEF StateOf, TypeOK
    <3>. QED BY <3>1, DispatchFrame DEF DispatchInv
  <2>. QED BY <2>1, <2>2, <2>5, <2>6 DEF DispatchInv
<1>3. ASSUME NEW r \in Requests, NEW k \in Asked, FindTemplate(r, k) PROVE DispatchInv'
  <2>1. key' \in [Requests -> Asked \cup {NoAgent}]
    BY <1>0, <1>3 DEF FindTemplate, TypeOK
  <2>2. PICK place \in {"found", "refused"} : pc' = [pc EXCEPT ![r] = place]
    BY <1>3 DEF FindTemplate
  <2>. QED BY <1>3, <2>1, <2>2, LookInv DEF FindTemplate
<1>4. ASSUME NEW r \in Requests, Blocked(r) PROVE DispatchInv'
  <2>1. key' \in [Requests -> Asked \cup {NoAgent}]
    BY <1>0, <1>4 DEF Blocked, TypeOK
  <2>. QED BY <1>4, <2>1, LookInv DEF Blocked
<1>5. ASSUME NEW r \in Requests, TransactionModel(r) PROVE DispatchInv'
  <2>1. key[r] \in Asked \cup {NoAgent}
    BY <1>0 DEF TypeOK
  <2>. QED BY <1>5, <2>1, GetModelInv DEF TransactionModel
<1>6. ASSUME NEW r \in Requests, NEW k \in Asked, AgentModel(r, k) PROVE DispatchInv'
  BY <1>6, GetModelInv DEF AgentModel
<1>7. CASE UNCHANGED vars
  <2>1. UNCHANGED <<plugin, config, plan, pc, key, reason, model, chain, index, tries,
                    heard, announced>>
    BY <1>7 DEF vars, request, metadata, failover
  <2>2. TypeOK' /\ Generates(config)' /\ plan' = Plan(config)'
    BY <2>1 DEF DispatchInv, TypeOK
  <2>3. \A q \in Requests : RequestInv(q)'
    BY <2>1, DispatchFrame DEF DispatchInv, StateOf
  <2>. QED BY <2>2, <2>3 DEF DispatchInv
<1>. QED BY <1>1, <1>2, <1>3, <1>4, <1>5, <1>6, <1>7, FinishInv DEF Next, Route

\* The plan is always the one the current configuration generates, whole, and
\* each request carries the chain of its planned model, with the index at the
\* number of failures it has heard of (plugin_loader.py:212,
\* transaction_router.py:300).
THEOREM DispatchInvariant == Spec => []DispatchInv
BY InitInv, NextInv, PTL DEF Spec

\* Whatever names the failures are reported under and whatever the other chains
\* say, those of a planned request announce its own chain, in order and once each
\* (transaction_router.py:300-335).
THEOREM AnnouncedInOrderHolds == Spec => []AnnouncedInOrder
<1>1. DispatchInv => AnnouncedInOrder
  BY DEF DispatchInv, RequestInv, AnnouncedInOrder, Follows
<1>. QED BY <1>1, DispatchInvariant, PTL

\* A planned model is one that the files call for at that moment, although the
\* plan may be replaced between the two looks (transaction_router.py:197, 203).
THEOREM FitsWhenSentHolds == Spec => FitsWhenSent
<1>1. ASSUME DispatchInv, NEW q \in Requests, NEW k, GetModel(q, k), key'[q] = k,
             NEW r \in Requests, reason[r] = "none", reason'[r] = "plan"
      PROVE  Fits(config, key'[r], model'[r])
  <2>1. r = q /\ k \in DOMAIN plan /\ model'[r] = plan[k]
    BY <1>1 DEF GetModel, Send, DispatchInv, TypeOK
  <2>2. config \in Configurations /\ Generates(config) /\ plan = Plan(config)
    BY <1>1 DEF DispatchInv, TypeOK
  <2>3. Fits(config, k, plan[k])
    BY <2>1, <2>2, PlanFits
  <2>. QED BY <1>1, <2>1, <2>3
<1>2. ASSUME DispatchInv, [Next]_vars, NEW r \in Requests,
             reason[r] = "none", reason'[r] = "plan"
      PROVE  Fits(config, key'[r], model'[r])
  <2>1. CASE \E q \in Requests : TransactionModel(q)
    BY <1>1, <1>2, <2>1 DEF TransactionModel
  <2>2. CASE \E q \in Requests : \E k \in Asked : AgentModel(q, k)
    <3>1. PICK q \in Requests, k \in Asked : AgentModel(q, k)
      BY <2>2
    <3>2. key'[q] = k
      BY <1>2, <3>1 DEF AgentModel, DispatchInv, TypeOK
    <3>. QED BY <1>1, <1>2, <3>1, <3>2 DEF AgentModel
  <2>3. CASE \E q \in Requests : Unnamed(q)
    BY <1>2, <2>3 DEF Unnamed, Send, DispatchInv, TypeOK
  <2>4. CASE UNCHANGED reason
    BY <1>2, <2>4
  <2>. QED BY <1>2, <2>1, <2>2, <2>3, <2>4
           DEF Next, vars, request, Reload, Route, Blocked, FindTemplate, Finish, Reject,
               Fail, Answered
<1>3. DispatchInv /\ [Next]_vars =>
         [\A r \in Requests : reason[r] = "none" /\ reason'[r] = "plan" =>
             Fits(config, key'[r], model'[r])]_vars
  BY <1>2
<1>. QED BY <1>3, DispatchInvariant, PTL DEF Spec, FitsWhenSent
=============================================================================
