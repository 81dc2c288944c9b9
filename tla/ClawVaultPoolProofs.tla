------------------------ MODULE ClawVaultPoolProofs ------------------------
(***************************************************************************)
(* Safety of the connection pool for every set of tasks and connections    *)
(* and every pool size.  IInv is inductive; the lemmas of the first        *)
(* section say what one move of a task through the semaphore does to the   *)
(* permits, the ones of the second what happens to one connection.  The    *)
(* last sections show that the pool implements RpcContract, with           *)
(* ContractInv on top of IInv: where each call's request and answer are.   *)
(***************************************************************************)
EXTENDS ClawVaultPool, FiniteSetTheorems, SequenceTheorems, TLAPS

(* Sequences without duplicates                                            *)

LEMMA TailFacts ==
    ASSUME NEW S, NEW s \in Seq(S), s # <<>>
    PROVE  /\ Tail(s) \in Seq(S)
           /\ Head(s) \in S
           /\ Len(Tail(s)) = Len(s) - 1
           /\ Head(s) = s[1] /\ 1 \in DOMAIN s
           /\ \A i \in DOMAIN Tail(s) : i + 1 \in DOMAIN s /\ Tail(s)[i] = s[i + 1]
           /\ ToSet(s) = ToSet(Tail(s)) \cup {Head(s)}
<1>1. /\ Tail(s) \in Seq(S) /\ Head(s) \in S /\ Head(s) = s[1] /\ 1 \in DOMAIN s
      /\ Len(Tail(s)) = Len(s) - 1
  OBVIOUS
<1>2. \A i \in DOMAIN Tail(s) : i + 1 \in DOMAIN s /\ Tail(s)[i] = s[i + 1]
  OBVIOUS
<1>3. \A i \in DOMAIN s : i = 1 \/ (i - 1 \in DOMAIN Tail(s) /\ Tail(s)[i - 1] = s[i])
  OBVIOUS
<1>4. ToSet(s) \subseteq ToSet(Tail(s)) \cup {Head(s)}
  BY <1>1, <1>3 DEF ToSet
<1>5. ToSet(Tail(s)) \cup {Head(s)} \subseteq ToSet(s)
  BY <1>1, <1>2 DEF ToSet
<1>6. QED
  BY <1>1, <1>2, <1>4, <1>5

LEMMA TailDistinct ==
    ASSUME NEW S, NEW s \in Seq(S), s # <<>>,
           \A i, j \in DOMAIN s : s[i] = s[j] => i = j
    PROVE  /\ \A i, j \in DOMAIN Tail(s) : Tail(s)[i] = Tail(s)[j] => i = j
           /\ ToSet(Tail(s)) = ToSet(s) \ {Head(s)}
<1>1. \A i \in DOMAIN Tail(s) : i \in Nat /\ i + 1 # 1
  OBVIOUS
<1>2. \A i, j \in DOMAIN Tail(s) : Tail(s)[i] = Tail(s)[j] => i = j
  BY TailFacts, <1>1
<1>3. Head(s) \notin ToSet(Tail(s))
  BY TailFacts, <1>1 DEF ToSet
<1>4. QED
  BY <1>2, <1>3, TailFacts

LEMMA AppendDistinct ==
    ASSUME NEW S, NEW s \in Seq(S), NEW e \in S
    PROVE  /\ Append(s, e) \in Seq(S)
           /\ Append(s, e) # <<>>
           /\ Len(Append(s, e)) = Len(s) + 1
           /\ ToSet(Append(s, e)) = ToSet(s) \cup {e}
           /\ /\ \A i, j \in DOMAIN s : s[i] = s[j] => i = j
              /\ e \notin ToSet(s)
              => \A i, j \in DOMAIN Append(s, e) :
                    Append(s, e)[i] = Append(s, e)[j] => i = j
<1>1. /\ Append(s, e) \in Seq(S) /\ Len(Append(s, e)) = Len(s) + 1
      /\ Append(s, e) # <<>>
  BY AppendProperties
<1>2. \A i \in DOMAIN s : i \in DOMAIN Append(s, e) /\ Append(s, e)[i] = s[i]
  OBVIOUS
<1>3. /\ Len(s) + 1 \in DOMAIN Append(s, e)
      /\ Append(s, e)[Len(s) + 1] = e
      /\ \A i \in DOMAIN Append(s, e) : i \in DOMAIN s \/ i = Len(s) + 1
  OBVIOUS
<1>4. ToSet(Append(s, e)) = ToSet(s) \cup {e}
  <2>1. ToSet(Append(s, e)) \subseteq ToSet(s) \cup {e}
    BY <1>2, <1>3 DEF ToSet
  <2>2. ToSet(s) \cup {e} \subseteq ToSet(Append(s, e))
    BY <1>2, <1>3 DEF ToSet
  <2>3. QED
    BY <2>1, <2>2
<1>5. ASSUME \A i, j \in DOMAIN s : s[i] = s[j] => i = j, e \notin ToSet(s),
             NEW i \in DOMAIN Append(s, e), NEW j \in DOMAIN Append(s, e),
             Append(s, e)[i] = Append(s, e)[j]
      PROVE  i = j
  BY <1>2, <1>3, <1>5 DEF ToSet
<1>6. QED
  BY <1>1, <1>4, <1>5

LEMMA RemoveAtFacts ==
    ASSUME NEW S, NEW s \in Seq(S), NEW k \in DOMAIN s,
           \A i, j \in DOMAIN s : s[i] = s[j] => i = j
    PROVE  /\ RemoveAt(s, k) \in Seq(S)
           /\ ToSet(RemoveAt(s, k)) = ToSet(s) \ {s[k]}
           /\ \A i, j \in DOMAIN RemoveAt(s, k) :
                 RemoveAt(s, k)[i] = RemoveAt(s, k)[j] => i = j
<1> DEFINE r == RemoveAt(s, k)
           at(i) == IF i < k THEN i ELSE i + 1
<1>1. k \in 1..Len(s) /\ Len(s) \in Nat
  OBVIOUS
<1>2. /\ SubSeq(s, 1, k - 1) \in Seq(S) /\ Len(SubSeq(s, 1, k - 1)) = k - 1
      /\ SubSeq(s, k + 1, Len(s)) \in Seq(S)
      /\ Len(SubSeq(s, k + 1, Len(s))) = Len(s) - k
      /\ \A i \in 1..(k - 1) : SubSeq(s, 1, k - 1)[i] = s[i]
      /\ \A i \in 1..(Len(s) - k) : SubSeq(s, k + 1, Len(s))[i] = s[i + k]
  BY <1>1
<1>3. /\ r \in Seq(S) /\ Len(r) = Len(s) - 1 /\ DOMAIN r = 1..(Len(s) - 1)
  <2>1. /\ r \in Seq(S)
        /\ Len(r) = Len(SubSeq(s, 1, k - 1)) + Len(SubSeq(s, k + 1, Len(s)))
    BY <1>2, ConcatProperties DEF RemoveAt
  <2>2. DOMAIN r = 1..Len(r)
    BY <2>1
  <2>3. Len(r) = Len(s) - 1
    <3>1. Len(r) = (k - 1) + (Len(s) - k)
      BY <1>2, <2>1, Zenon
    <3>2. (k - 1) + (Len(s) - k) = Len(s) - 1
      BY <1>1
    <3>3. QED
      BY <3>1, <3>2, Zenon
  <2>4. QED
    BY <2>1, <2>2, <2>3, Zenon
<1>4. ASSUME NEW i \in DOMAIN r
      PROVE  at(i) \in DOMAIN s /\ at(i) # k /\ r[i] = s[at(i)]
  <2> DEFINE a == SubSeq(s, 1, k - 1)
             b == SubSeq(s, k + 1, Len(s))
  <2> HIDE DEF a, b
  <2>1. i \in 1..(Len(s) - 1) /\ i \in Nat /\ k \in Nat
    BY <1>1, <1>3
  <2>2. /\ a \in Seq(S) /\ b \in Seq(S) /\ Len(a) = k - 1 /\ Len(b) = Len(s) - k
        /\ \A j \in 1..(k - 1) : a[j] = s[j]
        /\ \A j \in 1..(Len(s) - k) : b[j] = s[j + k]
    BY <1>2 DEF a, b
  <2>3. \A j \in 1..(Len(a) + Len(b)) :
           (a \o b)[j] = IF j <= Len(a) THEN a[j] ELSE b[j - Len(a)]
    BY <2>2, ConcatProperties
  <2>4. r[i] = IF i <= k - 1 THEN a[i] ELSE b[i - (k - 1)]
    <3>1. i \in 1..(Len(a) + Len(b))
      BY <1>1, <2>1, <2>2
    <3>2. r = a \o b
      BY DEF RemoveAt, a, b
    <3>3. QED
      BY <2>2, <2>3, <3>1, <3>2
  <2>5. CASE i < k
    <3>1. i \in 1..(k - 1) /\ i \in 1..Len(s) /\ i <= k - 1
      BY <1>1, <2>1, <2>5
    <3>2. r[i] = s[i]
      BY <2>2, <2>4, <3>1
    <3>3. QED
      BY <2>1, <2>5, <3>1, <3>2
  <2>6. CASE ~(i < k)
    <3>1. /\ i - (k - 1) \in 1..(Len(s) - k)
          /\ ~(i <= k - 1)
          /\ i - (k - 1) + k = i + 1
          /\ i + 1 \in 1..Len(s)
      BY <1>1, <2>1, <2>6
    <3>2. r[i] = b[i - (k - 1)]
      BY <2>4, <3>1
    <3>3. b[i - (k - 1)] = s[i + 1]
      BY <2>2, <3>1
    <3>4. QED
      BY <2>1, <2>6, <3>1, <3>2, <3>3
  <2>7. QED
    BY <2>5, <2>6
<1>5. \A i, j \in DOMAIN r : at(i) = at(j) => i = j
  BY <1>1, <1>3
<1>6. \A i, j \in DOMAIN r : r[i] = r[j] => i = j
  BY <1>4, <1>5
<1>7. ToSet(r) \subseteq ToSet(s) \ {s[k]}
  BY <1>4 DEF ToSet
<1>8. ASSUME NEW i \in DOMAIN s, i # k
      PROVE  \E j \in DOMAIN r : r[j] = s[i]
  <2>1. CASE i < k
    BY <1>1, <1>3, <1>4, <2>1
  <2>2. CASE i > k
    <3>1. i - 1 \in DOMAIN r /\ at(i - 1) = i
      BY <1>1, <1>3, <2>2
    <3>2. QED
      BY <1>4, <3>1
  <2>3. QED
    BY <1>8, <1>1, <2>1, <2>2
<1>9. ToSet(s) \ {s[k]} \subseteq ToSet(r)
  BY <1>8 DEF ToSet
<1>10. QED
  BY <1>3, <1>6, <1>7, <1>9
-----------------------------------------------------------------------------
(* The semaphore                                                           *)

Queued == {t \in Tasks : pc[t] = "queued"}

\* The part of TypeOK about the semaphore and the program counters.
PermitTypes ==
    /\ pc \in [Tasks -> Holding \cup {"idle", "queued"}]
    /\ permits \in 0..MaxConnections
    /\ waiters \in Seq(Tasks)

LEMMA HoldersFinite ==
    /\ IsFiniteSet(Holders) /\ Cardinality(Holders) \in Nat
    /\ IsFiniteSet(Users) /\ Cardinality(Users) \in Nat
    /\ Cardinality(Users) <= Cardinality(Holders)
<1>1. IsFiniteSet(Tasks) /\ Holders \subseteq Tasks /\ Users \subseteq Holders
  BY PoolAssumption DEF Holders, Users
<1>2. IsFiniteSet(Holders)
  BY <1>1, FS_Subset
<1>3. QED
  BY <1>1, <1>2, FS_Subset, FS_CardinalityType

LEMMA HoldersFinite2 == IsFiniteSet(Holders') /\ IsFiniteSet(Users')
<1>1. IsFiniteSet(Tasks) /\ Holders' \subseteq Tasks /\ Users' \subseteq Tasks
  BY PoolAssumption DEF Holders, Users
<1>2. QED
  BY <1>1, FS_Subset

\* Release: the permit goes to the first waiter, or back to the semaphore.
LEMMA ReleaseLemma ==
    ASSUME PermitTypes, PermitConservation,
           NEW t \in Tasks, pc[t] \in Holding, ReleaseBy(t)
    PROVE  /\ PermitTypes' /\ PermitConservation'
           /\ Users' = Users \ {t}
<1>1. t \in Holders /\ t \notin ToSet(waiters) /\ MaxConnections \in Nat
  BY PoolAssumption DEF PermitConservation, Holders, Holding
<1>2. CASE waiters = <<>>
  <2>1. /\ pc' = [u \in Tasks |-> IF u = t THEN "idle" ELSE pc[u]]
        /\ waiters' = <<>> /\ permits' = permits + 1
    BY <1>2 DEF ReleaseBy
  <2>2. Holders' = Holders \ {t} /\ Queued' = Queued /\ Users' = Users \ {t}
    BY <2>1, <1>1 DEF Holders, Queued, Users, Holding
  <2>3. Cardinality(Holders') = Cardinality(Holders) - 1
    BY <1>1, <2>2, HoldersFinite, FS_RemoveElement
  <2>4. permits' \in 0..MaxConnections
           /\ permits' + Cardinality(Holders') = MaxConnections
    <3>1. Cardinality(Holders') \in Nat
      BY HoldersFinite2, FS_CardinalityType
    <3>2. QED
      BY <1>1, <2>1, <2>3, <3>1, HoldersFinite DEF PermitConservation, PermitTypes
  <2>5. PermitTypes'
    BY <2>1, <2>4 DEF PermitTypes, Holding
  <2>6. QED
    BY <1>2, <2>1, <2>2, <2>4, <2>5 DEF PermitConservation, Queued
<1>3. CASE waiters # <<>>
  <2> DEFINE h == Head(waiters)
  <2>1. /\ h \in Tasks /\ pc[h] = "queued" /\ h # t
        /\ Tail(waiters) \in Seq(Tasks)
        /\ ToSet(Tail(waiters)) = ToSet(waiters) \ {h}
        /\ \A i, j \in DOMAIN Tail(waiters) :
              Tail(waiters)[i] = Tail(waiters)[j] => i = j
    BY <1>1, <1>3, TailFacts, TailDistinct
       DEF PermitTypes, PermitConservation, Holding
  <2>2. /\ pc' = [u \in Tasks |-> IF u = t THEN "idle"
                                  ELSE IF u = h THEN "granted" ELSE pc[u]]
        /\ waiters' = Tail(waiters) /\ permits' = permits
    BY <1>3 DEF ReleaseBy
  <2>3. /\ Holders' = (Holders \ {t}) \cup {h}
        /\ Queued' = Queued \ {h}
        /\ Users' = Users \ {t}
        /\ h \notin Holders \ {t}
    BY <2>1, <2>2 DEF Holders, Queued, Users, Holding
  <2>4. Cardinality(Holders') = Cardinality(Holders)
    <3>1. /\ IsFiniteSet(Holders \ {t})
          /\ Cardinality(Holders \ {t}) = Cardinality(Holders) - 1
      BY <1>1, HoldersFinite, FS_RemoveElement
    <3>2. Cardinality((Holders \ {t}) \cup {h}) = Cardinality(Holders \ {t}) + 1
      BY <2>3, <3>1, FS_AddElement
    <3>3. QED
      BY <2>3, <3>1, <3>2, HoldersFinite
  <2>5. PermitTypes'
    BY <2>1, <2>2 DEF PermitTypes, Holding
  <2>6. permits' = 0
    BY <1>3, <2>2 DEF PermitConservation
  <2>7. QED
    BY <2>1, <2>2, <2>3, <2>4, <2>5, <2>6 DEF PermitConservation, Queued
<1>4. QED
  BY <1>2, <1>3

\* Acquire: a free permit is taken, otherwise the task queues behind the others.
LEMMA AcquireLemma ==
    ASSUME PermitTypes, PermitConservation,
           NEW t \in Tasks, pc[t] = "idle", AcquireBy(t)
    PROVE  /\ PermitTypes' /\ PermitConservation'
           /\ Users' = Users
<1>1. t \notin Holders /\ t \notin ToSet(waiters) /\ MaxConnections \in Nat
  BY PoolAssumption DEF PermitConservation, Holders, Holding
<1>2. CASE permits > 0 /\ waiters = <<>>
  <2>1. /\ pc' = [pc EXCEPT ![t] = "granted"]
        /\ waiters' = waiters /\ permits' = permits - 1
    BY <1>2 DEF AcquireBy
  <2>2. Holders' = Holders \cup {t} /\ Queued' = Queued /\ Users' = Users
    BY <2>1, <1>1 DEF PermitTypes, Holders, Queued, Users, Holding
  <2>3. Cardinality(Holders') = Cardinality(Holders) + 1
    BY <1>1, <2>2, HoldersFinite, FS_AddElement
  <2>4. /\ permits' \in 0..MaxConnections
        /\ permits' + Cardinality(Holders') = MaxConnections
    BY <1>1, <1>2, <2>1, <2>3, HoldersFinite DEF PermitConservation, PermitTypes
  <2>5. PermitTypes'
    BY <2>1, <2>4 DEF PermitTypes, Holding
  <2>6. QED
    BY <1>2, <2>1, <2>2, <2>4, <2>5 DEF PermitConservation, Queued
<1>3. CASE ~(permits > 0 /\ waiters = <<>>)
  <2>1. /\ pc' = [pc EXCEPT ![t] = "queued"]
        /\ waiters' = Append(waiters, t) /\ permits' = permits
    BY <1>3 DEF AcquireBy
  <2>2. /\ waiters' \in Seq(Tasks) /\ ToSet(waiters') = ToSet(waiters) \cup {t}
        /\ \A i, j \in DOMAIN waiters' : waiters'[i] = waiters'[j] => i = j
    BY <1>1, <2>1, AppendDistinct DEF PermitTypes, PermitConservation
  <2>3. Holders' = Holders /\ Queued' = Queued \cup {t} /\ Users' = Users
    BY <2>1, <1>1 DEF PermitTypes, Holders, Queued, Users, Holding
  <2>4. permits' = 0
    BY <1>3, <2>1 DEF PermitConservation, PermitTypes
  <2>5. PermitTypes'
    BY <2>1, <2>2 DEF PermitTypes, Holding
  <2>6. QED
    BY <2>1, <2>2, <2>3, <2>4, <2>5 DEF PermitConservation, Queued
<1>4. QED
  BY <1>2, <1>3

\* A holder that goes on to another await keeps its permit.
LEMMA MoveLemma ==
    ASSUME PermitTypes, PermitConservation,
           NEW t \in Tasks, pc[t] \in Holding, NEW s \in Holding \ {"granted"},
           pc' = [pc EXCEPT ![t] = s], UNCHANGED <<permits, waiters>>
    PROVE  /\ PermitTypes' /\ PermitConservation'
           /\ Users' = Users \cup {t}
<1>1. Holders' = Holders /\ Queued' = Queued /\ Users' = Users \cup {t}
  BY DEF PermitTypes, Holders, Queued, Users, Holding
<1>2. PermitTypes'
  BY DEF PermitTypes
<1>3. QED
  BY <1>1, <1>2 DEF PermitConservation, Queued

LEMMA LeaveQueueLemma ==
    ASSUME PermitTypes, PermitConservation,
           NEW t \in Tasks, NEW kind, LeaveQueue(t, kind)
    PROVE  /\ PermitTypes' /\ PermitConservation'
           /\ Users' = Users
<1>1. PICK k \in DOMAIN waiters : waiters[k] = t /\ waiters' = RemoveAt(waiters, k)
  BY DEF LeaveQueue
<1>2. /\ waiters' \in Seq(Tasks) /\ ToSet(waiters') = ToSet(waiters) \ {t}
      /\ \A i, j \in DOMAIN waiters' : waiters'[i] = waiters'[j] => i = j
  BY <1>1, RemoveAtFacts DEF PermitTypes, PermitConservation
<1>3. /\ pc' = [pc EXCEPT ![t] = "idle"] /\ permits' = permits /\ pc[t] = "queued"
  BY DEF LeaveQueue
<1>4. Holders' = Holders /\ Queued' = Queued \ {t} /\ Users' = Users
  BY <1>3 DEF PermitTypes, Holders, Queued, Users, Holding
<1>5. waiters # <<>>
  BY <1>1 DEF PermitTypes
<1>6. PermitTypes'
  BY <1>2, <1>3 DEF PermitTypes
<1>7. QED
  BY <1>2, <1>3, <1>4, <1>5, <1>6 DEF PermitConservation, Queued
-----------------------------------------------------------------------------
(* Connections                                                             *)

\* The part of TypeOK about everything but the semaphore.
DataTypes ==
    /\ calls \in [Tasks -> Nat]
    /\ outcome \in [Tasks ->
            [kind : {"none", "result", "raised", "bypass", "cancelled"},
             of : CallIds \cup {<<>>}]]
    /\ conn \in [Tasks -> Conns \cup {None}]
    /\ idle \in Seq(Conns)
    /\ closer \in {"open", "draining", "done"}
    /\ link \in [Conns -> {"none", "up", "eof", "reset"}]
    /\ requests \in [Conns -> Seq(CallIds)]
    /\ answers \in [Conns -> Seq(Answer)]
    /\ orphans \in SUBSET CallIds
    /\ executed \in SUBSET CallIds
    /\ server \in {"up", "hung", "down"}
    /\ faults \in Nat

LEMMA TypeSplit == TypeOK <=> PermitTypes /\ DataTypes
BY DEF TypeOK, PermitTypes, DataTypes

LEMMA TypeSplit2 == PermitTypes' /\ DataTypes' => TypeOK'
BY DEF TypeOK, PermitTypes, DataTypes

\* Who owns which connection, and what travels on it.
LinkInv == ExclusiveUse /\ OpenOwned /\ CleanIdle /\ WireDiscipline

LEMMA IInvSplit ==
    IInv <=> PermitTypes /\ DataTypes /\ PermitConservation /\ SlotBound /\ LinkInv
BY TypeSplit DEF IInv, LinkInv

LEMMA IInvSplit2 ==
    PermitTypes' /\ DataTypes' /\ PermitConservation' /\ SlotBound' /\ LinkInv'
    => IInv'
BY TypeSplit2 DEF IInv, LinkInv

\* A step that leaves connections alone and starts or ends no use of one.
LEMMA FrameLemma ==
    ASSUME LinkInv, UNCHANGED <<conn, idle, link, requests, answers>>, InUse' = InUse
    PROVE  LinkInv'
<1>1. ExclusiveUse'
  BY DEF LinkInv, ExclusiveUse
<1>2. OpenOwned'
  BY DEF LinkInv, OpenOwned
<1>3. CleanIdle'
  BY DEF LinkInv, CleanIdle
<1>4. WireDiscipline'
  BY DEF LinkInv, WireDiscipline
<1>5. QED
  BY <1>1, <1>2, <1>3, <1>4 DEF LinkInv

\* The slots when the set of users does not grow and no connection is returned.
LEMMA SlotLemma ==
    ASSUME SlotBound, idle \in Seq(Conns), idle' \in Seq(Conns),
           Len(idle') <= Len(idle), Users' \subseteq Users
    PROVE  SlotBound'
<1>1. Cardinality(Users') <= Cardinality(Users) /\ Cardinality(Users') \in Nat
  BY HoldersFinite, FS_Subset, FS_CardinalityType
<1>2. Len(idle) \in Nat /\ Len(idle') \in Nat
  OBVIOUS
<1>3. QED
  BY <1>1, <1>2, HoldersFinite, PoolAssumption DEF SlotBound

LEMMA IdleInConns ==
    ASSUME DataTypes
    PROVE  ToSet(idle) \subseteq Conns /\ None \notin ToSet(idle)
BY PoolAssumption DEF DataTypes, ToSet

\* The first idle connection is nobody's and carries nothing.
LEMMA IdleHead ==
    ASSUME IInv, idle # <<>>
    PROVE  /\ Head(idle) \in Conns /\ Head(idle) \in ToSet(idle) /\ Head(idle) # None
           /\ Tail(idle) \in Seq(Conns) /\ Len(Tail(idle)) = Len(idle) - 1
           /\ Len(idle) \in Nat
           /\ ToSet(Tail(idle)) = ToSet(idle) \ {Head(idle)}
           /\ \A i, j \in DOMAIN Tail(idle) : Tail(idle)[i] = Tail(idle)[j] => i = j
           /\ \A t \in Tasks : conn[t] # Head(idle)
           /\ link[Head(idle)] # "none"
           /\ requests[Head(idle)] = <<>> /\ answers[Head(idle)] = <<>>
<1>1. idle \in Seq(Conns) /\ \A i, j \in DOMAIN idle : idle[i] = idle[j] => i = j
  BY DEF IInv, TypeOK, ExclusiveUse
<1>2. Head(idle) \in ToSet(idle)
  BY <1>1, TailFacts
<1>3. QED
  BY <1>1, <1>2, TailFacts, TailDistinct, PoolAssumption
     DEF IInv, ExclusiveUse, CleanIdle

\* A connection in use is open, not idle, and used by one task.
LEMMA UsedConn ==
    ASSUME IInv, NEW t \in Tasks, t \in InUse
    PROVE  /\ conn[t] \in Conns /\ conn[t] # None
           /\ conn[t] \notin ToSet(idle)
           /\ \A u \in Tasks : conn[u] = conn[t] => u = t
           /\ link[conn[t]] # "none"
BY DEF IInv, TypeOK, OpenOwned, ExclusiveUse

\* Closing the connection of a call leaves everybody else's alone.
LEMMA DiscardLemma ==
    ASSUME IInv, NEW t \in Tasks, t \in InUse, Discard(t), UNCHANGED poolVars
    PROVE  PermitTypes' /\ PermitConservation' /\ SlotBound' /\ LinkInv'
<1> DEFINE c == conn[t]
<1> USE IInvSplit
<1>1. /\ c \in Conns /\ c # None /\ c \notin ToSet(idle) /\ link[c] # "none"
      /\ \A u \in Tasks : conn[u] = c => u = t
  BY UsedConn
<1>2. /\ link' = [link EXCEPT ![c] = "none"]
      /\ requests' = [requests EXCEPT ![c] = <<>>]
      /\ answers' = [answers EXCEPT ![c] = <<>>]
      /\ conn' = [conn EXCEPT ![t] = None]
      /\ pc' = [pc EXCEPT ![t] = "discarding"]
      /\ idle' = idle /\ permits' = permits /\ waiters' = waiters
  BY DEF Discard, CloseConn, poolVars
<1>3. pc[t] \in Holding /\ t \in Users
  BY DEF InUse, Holding, Users
<1>4. PermitTypes' /\ PermitConservation' /\ Users' = Users \cup {t}
  BY <1>2, <1>3, MoveLemma DEF Holding
<1>5. SlotBound'
  BY <1>2, <1>3, <1>4 DEF SlotBound
<1>6. InUse' = InUse \ {t}
  BY <1>2 DEF InUse, PermitTypes
<1>7. ExclusiveUse'
  BY <1>1, <1>2, IdleInConns DEF LinkInv, ExclusiveUse, DataTypes
<1>8. OpenOwned'
  <2>1. \A u \in Tasks : conn'[u] # None <=> u \in InUse'
    BY <1>2, <1>6 DEF LinkInv, OpenOwned, DataTypes
  <2>2. ASSUME NEW d \in Conns
        PROVE  link'[d] # "none" <=>
                   d \in ToSet(idle') \/ \E u \in Tasks : conn'[u] = d
    <3>1. CASE d = c
      BY <1>1, <1>2, <3>1 DEF DataTypes
    <3>2. CASE d # c
      BY <1>1, <1>2, <3>2, PoolAssumption DEF LinkInv, OpenOwned, DataTypes
    <3>3. QED
      BY <3>1, <3>2
  <2>3. QED
    BY <2>1, <2>2 DEF OpenOwned
<1>9. CleanIdle'
  BY <1>1, <1>2 DEF LinkInv, CleanIdle, DataTypes
<1>10. WireDiscipline'
  BY <1>1, <1>2 DEF LinkInv, WireDiscipline, DataTypes
<1>11. QED
  BY <1>4, <1>5, <1>7, <1>8, <1>9, <1>10 DEF LinkInv

\* A closed connection taken out of the idle queue is nobody's any more.
LEMMA DropIdleLemma ==
    ASSUME IInv, idle # <<>>, idle' = Tail(idle), CloseConn(Head(idle)),
           conn' = conn, InUse' = InUse
    PROVE  LinkInv'
<1> DEFINE c == Head(idle)
<1> USE IInvSplit
<1>1. /\ c \in Conns /\ c # None /\ \A u \in Tasks : conn[u] # c
      /\ ToSet(idle') = ToSet(idle) \ {c}
      /\ \A i, j \in DOMAIN idle' : idle'[i] = idle'[j] => i = j
  BY IdleHead
<1>2. /\ link' = [link EXCEPT ![c] = "none"]
      /\ requests' = [requests EXCEPT ![c] = <<>>]
      /\ answers' = [answers EXCEPT ![c] = <<>>]
  BY DEF CloseConn
<1>3. ExclusiveUse'
  BY <1>1 DEF LinkInv, ExclusiveUse
<1>4. OpenOwned'
  BY <1>1, <1>2 DEF LinkInv, OpenOwned, DataTypes
<1>5. CleanIdle'
  BY <1>1, <1>2, IdleInConns DEF LinkInv, CleanIdle, DataTypes
<1>6. WireDiscipline'
  BY <1>1, <1>2 DEF LinkInv, WireDiscipline, DataTypes
<1>7. QED
  BY <1>3, <1>4, <1>5, <1>6 DEF LinkInv

-----------------------------------------------------------------------------
(* One lemma per action of a task                                          *)

CoreInv == PermitTypes /\ PermitConservation /\ SlotBound /\ LinkInv

LEMMA CallInv == ASSUME IInv, NEW t \in Tasks, Call(t) PROVE CoreInv'
<1> USE IInvSplit
<1>1. PermitTypes' /\ PermitConservation' /\ Users' = Users
  BY AcquireLemma DEF Call
<1>2. InUse' = InUse
  BY DEF Call, AcquireBy, InUse, PermitTypes
<1>3. LinkInv'
  BY <1>2, FrameLemma DEF Call, wireVars
<1>4. SlotBound'
  BY <1>1 DEF Call, SlotBound
<1>5. QED
  BY <1>1, <1>3, <1>4 DEF CoreInv

LEMMA ResumeEmptyInv == ASSUME IInv, NEW t \in Tasks, ResumeEmpty(t) PROVE CoreInv'
<1> USE IInvSplit
<1>1. /\ pc' = [pc EXCEPT ![t] = "opening"] /\ pc[t] = "granted" /\ idle = <<>>
      /\ UNCHANGED <<conn, poolVars, wireVars>>
  BY DEF ResumeEmpty
<1>2. PermitTypes' /\ PermitConservation'
  BY <1>1, MoveLemma DEF Holding, poolVars
<1>3. SlotBound'
  <2>1. IsFiniteSet(Holders') /\ Users' \subseteq Holders'
    BY HoldersFinite2 DEF Users, Holders
  <2>2. /\ Cardinality(Users') <= Cardinality(Holders')
        /\ Cardinality(Holders') \in Nat /\ Cardinality(Users') \in Nat
    BY <2>1, HoldersFinite2, FS_Subset, FS_CardinalityType
  <2>3. Cardinality(Users') <= MaxConnections
    BY <1>2, <2>2, PoolAssumption DEF PermitTypes, PermitConservation
  <2>4. idle' = <<>>
    BY <1>1 DEF poolVars
  <2>5. QED
    BY <2>2, <2>3, <2>4 DEF SlotBound
<1>4. InUse' = InUse
  BY <1>1 DEF InUse, PermitTypes
<1>5. LinkInv'
  BY <1>1, <1>4, FrameLemma DEF poolVars, wireVars
<1>6. QED
  BY <1>2, <1>3, <1>5 DEF CoreInv

\* What the three ways to get hold of a connection have in common.
LEMMA ReuseSlot ==
    ASSUME IInv, idle # <<>>, idle' = Tail(idle), NEW t \in Tasks, t \notin Users,
           Users' = Users \cup {t}
    PROVE  SlotBound'
<1>1. Cardinality(Users') = Cardinality(Users) + 1
  BY HoldersFinite, FS_AddElement
<1>2. Len(idle') = Len(idle) - 1 /\ Len(idle) \in Nat
  BY IdleHead
<1>3. QED
  BY <1>1, <1>2, HoldersFinite DEF IInv, SlotBound

LEMMA ResumeReuseInv == ASSUME IInv, NEW t \in Tasks, ResumeReuse(t) PROVE CoreInv'
<1> DEFINE c == Head(idle)
<1> USE IInvSplit
<1>1. /\ pc' = [pc EXCEPT ![t] = "sending"] /\ pc[t] = "granted" /\ idle # <<>>
      /\ idle' = Tail(idle) /\ conn' = [conn EXCEPT ![t] = c]
      /\ UNCHANGED <<permits, waiters, link, answers>>
      /\ requests' = IF link[c] = "up"
                     THEN [requests EXCEPT ![c] = Append(@, Current(t))]
                     ELSE requests
  BY DEF ResumeReuse, Write
<1>2. /\ c \in Conns /\ c # None /\ c \in ToSet(idle)
      /\ \A u \in Tasks : conn[u] # c
      /\ ToSet(idle') = ToSet(idle) \ {c}
      /\ \A i, j \in DOMAIN idle' : idle'[i] = idle'[j] => i = j
      /\ link[c] # "none" /\ requests[c] = <<>> /\ answers[c] = <<>>
  BY <1>1, IdleHead
<1>3. PermitTypes' /\ PermitConservation' /\ Users' = Users \cup {t}
  BY <1>1, MoveLemma DEF Holding
<1>4. SlotBound'
  BY <1>1, <1>3, ReuseSlot DEF Users
<1>5. InUse' = InUse \cup {t} /\ t \notin InUse
  BY <1>1 DEF InUse, PermitTypes
<1>6. ExclusiveUse'
  BY <1>1, <1>2 DEF LinkInv, ExclusiveUse, DataTypes
<1>7. OpenOwned'
  <2>1. \A u \in Tasks : conn'[u] # None <=> u \in InUse'
    BY <1>1, <1>2, <1>5 DEF LinkInv, OpenOwned, DataTypes
  <2>2. ASSUME NEW d \in Conns
        PROVE  link'[d] # "none" <=>
                   d \in ToSet(idle') \/ \E u \in Tasks : conn'[u] = d
    <3>1. CASE d = c
      BY <1>1, <1>2, <3>1 DEF DataTypes
    <3>2. CASE d # c
      <4>1. conn[t] = None
        BY <1>5 DEF LinkInv, OpenOwned
      <4>2. (\E u \in Tasks : conn'[u] = d) <=> (\E u \in Tasks : conn[u] = d)
        BY <1>1, <3>2, <4>1, PoolAssumption DEF DataTypes
      <4>3. QED
        BY <1>1, <1>2, <3>2, <4>2 DEF LinkInv, OpenOwned
    <3>3. QED
      BY <3>1, <3>2
  <2>3. QED
    BY <2>1, <2>2 DEF OpenOwned
<1>8. CleanIdle'
  BY <1>1, <1>2, IdleInConns DEF LinkInv, CleanIdle, DataTypes
<1>9. WireDiscipline'
  <2>1. CASE link[c] = "up"
    <3>1. /\ requests' = [requests EXCEPT ![c] = <<Current(t)>>]
          /\ Len(<<Current(t)>>) = 1 /\ Len(<<>>) = 0
      BY <1>1, <1>2, <2>1 DEF DataTypes
    <3>2. /\ Len(requests'[c]) + Len(answers'[c]) <= 1
          /\ link'[c] # "none"
      BY <1>1, <1>2, <3>1 DEF DataTypes
    <3>3. \A d \in Conns \ {c} : requests'[d] = requests[d]
      BY <3>1 DEF DataTypes
    <3>4. QED
      BY <1>1, <3>2, <3>3 DEF LinkInv, WireDiscipline
  <2>2. CASE link[c] # "up"
    BY <1>1, <2>2 DEF LinkInv, WireDiscipline
  <2>3. QED
    BY <2>1, <2>2
<1>10. QED
  BY <1>3, <1>4, <1>6, <1>7, <1>8, <1>9 DEF CoreInv, LinkInv

LEMMA ResumeStaleInv == ASSUME IInv, NEW t \in Tasks, ResumeStale(t) PROVE CoreInv'
<1> USE IInvSplit
<1>1. /\ pc' = [pc EXCEPT ![t] = "replacing"] /\ pc[t] = "granted" /\ idle # <<>>
      /\ idle' = Tail(idle) /\ CloseConn(Head(idle))
      /\ UNCHANGED <<permits, waiters, conn>>
  BY DEF ResumeStale
<1>2. PermitTypes' /\ PermitConservation' /\ Users' = Users \cup {t}
  BY <1>1, MoveLemma DEF Holding
<1>3. SlotBound'
  BY <1>1, <1>2, ReuseSlot DEF Users
<1>4. InUse' = InUse
  BY <1>1 DEF InUse, PermitTypes
<1>5. LinkInv'
  BY <1>1, <1>4, DropIdleLemma
<1>6. QED
  BY <1>2, <1>3, <1>5 DEF CoreInv

LEMMA OpenConnInv ==
    ASSUME IInv, NEW t \in Tasks, NEW c \in Conns, OpenConn(t, c) PROVE CoreInv'
<1> USE IInvSplit
<1>1. /\ pc' = [pc EXCEPT ![t] = "sending"] /\ pc[t] = "opening" /\ link[c] = "none"
      /\ UNCHANGED <<permits, waiters, idle, answers>>
      /\ conn' = [conn EXCEPT ![t] = c]
      /\ link' = [link EXCEPT ![c] = "up"]
      /\ requests' = [requests EXCEPT ![c] = <<Current(t)>>]
  BY DEF OpenConn, poolVars
<1>2. /\ c # None /\ c \notin ToSet(idle) /\ \A u \in Tasks : conn[u] # c
      /\ answers[c] = <<>>
  BY <1>1, PoolAssumption DEF LinkInv, OpenOwned, WireDiscipline
<1>3. PermitTypes' /\ PermitConservation' /\ Users' = Users \cup {t}
  BY <1>1, MoveLemma DEF Holding
<1>4. Users' = Users
  BY <1>1, <1>3 DEF Users, Holding
<1>5. SlotBound'
  BY <1>1, <1>4 DEF SlotBound
<1>6. InUse' = InUse \cup {t} /\ t \notin InUse
  BY <1>1 DEF InUse, PermitTypes
<1>7. ExclusiveUse'
  BY <1>1, <1>2 DEF LinkInv, ExclusiveUse, DataTypes
<1>8. OpenOwned'
  <2>1. \A u \in Tasks : conn'[u] # None <=> u \in InUse'
    BY <1>1, <1>2, <1>6 DEF LinkInv, OpenOwned, DataTypes
  <2>2. ASSUME NEW d \in Conns
        PROVE  link'[d] # "none" <=>
                   d \in ToSet(idle') \/ \E u \in Tasks : conn'[u] = d
    <3>1. CASE d = c
      BY <1>1, <1>2, <3>1 DEF DataTypes
    <3>2. CASE d # c
      <4>1. conn[t] = None
        BY <1>6 DEF LinkInv, OpenOwned
      <4>2. (\E u \in Tasks : conn'[u] = d) <=> (\E u \in Tasks : conn[u] = d)
        BY <1>1, <3>2, <4>1, PoolAssumption DEF DataTypes
      <4>3. QED
        BY <1>1, <3>2, <4>2 DEF LinkInv, OpenOwned, DataTypes
    <3>3. QED
      BY <3>1, <3>2
  <2>3. QED
    BY <2>1, <2>2 DEF OpenOwned
<1>9. CleanIdle'
  BY <1>1, <1>2, IdleInConns DEF LinkInv, CleanIdle, DataTypes
<1>10. WireDiscipline'
  <2>1. Len(<<Current(t)>>) = 1 /\ Len(<<>>) = 0
    OBVIOUS
  <2>2. /\ Len(requests'[c]) + Len(answers'[c]) <= 1
        /\ link'[c] # "none"
    BY <1>1, <1>2, <2>1 DEF DataTypes
  <2>3. \A d \in Conns \ {c} :
           requests'[d] = requests[d] /\ answers'[d] = answers[d] /\ link'[d] = link[d]
    BY <1>1 DEF DataTypes
  <2>4. QED
    BY <2>2, <2>3 DEF LinkInv, WireDiscipline
<1>11. QED
  BY <1>3, <1>5, <1>7, <1>8, <1>9, <1>10 DEF CoreInv, LinkInv

\* The connection that goes back to the pool carries nothing any more.
LEMMA ReadResultInv == ASSUME IInv, NEW t \in Tasks, ReadResult(t) PROVE CoreInv'
<1> DEFINE c == conn[t]
<1> USE IInvSplit
<1>1. /\ pc[t] = "reading" /\ answers[c] # <<>> /\ conn' = [conn EXCEPT ![t] = None]
      /\ t \in InUse
  BY DEF ReadResult, InUse
<1>2. /\ c \in Conns /\ c # None /\ c \notin ToSet(idle) /\ link[c] # "none"
      /\ \A u \in Tasks : conn[u] = c => u = t
  BY <1>1, UsedConn
<1>3. CASE ~(Len(idle) < MaxConnections)
  <2>1. Discard(t) /\ UNCHANGED <<idle, permits, waiters, closer>>
    BY <1>3 DEF ReadResult, Discard
  <2>2. QED
    BY <1>1, <2>1, DiscardLemma DEF CoreInv, poolVars
<1>4. CASE Len(idle) < MaxConnections
  <2>1. /\ idle' = Append(idle, c)
        /\ answers' = [answers EXCEPT ![c] = Tail(answers[c])]
        /\ ReleaseBy(t)
        /\ UNCHANGED <<link, requests, orphans>>
    BY <1>4 DEF ReadResult
  <2>2. requests[c] = <<>> /\ Tail(answers[c]) = <<>>
    <3>1. /\ requests[c] \in Seq(CallIds) /\ answers[c] \in Seq(Answer)
          /\ Len(requests[c]) + Len(answers[c]) <= 1
      BY <1>2 DEF LinkInv, WireDiscipline, DataTypes
    <3>2. Len(answers[c]) = 1 /\ Len(requests[c]) = 0
      <4>1. Len(answers[c]) \in Nat \ {0} /\ Len(requests[c]) \in Nat
        BY <1>1, <3>1, EmptySeq, LenProperties
      <4>2. \A m \in Nat \ {0}, n \in Nat : n + m <= 1 => m = 1 /\ n = 0
        OBVIOUS
      <4>3. QED
        BY <3>1, <4>1, <4>2, Zenon
    <3>3. Tail(answers[c]) \in Seq(Answer) /\ Len(Tail(answers[c])) = 0
      BY <1>1, <3>1, <3>2, HeadTailProperties
    <3>4. QED
      BY <3>1, <3>2, <3>3, EmptySeq
  <2>3. PermitTypes' /\ PermitConservation' /\ Users' = Users \ {t}
    BY <1>1, <2>1, ReleaseLemma DEF Holding
  <2>4. /\ idle' \in Seq(Conns) /\ Len(idle') = Len(idle) + 1 /\ Len(idle) \in Nat
        /\ ToSet(idle') = ToSet(idle) \cup {c}
        /\ \A i, j \in DOMAIN idle' : idle'[i] = idle'[j] => i = j
    <3>1. /\ idle \in Seq(Conns) /\ c \in Conns /\ c \notin ToSet(idle)
          /\ \A i, j \in DOMAIN idle : idle[i] = idle[j] => i = j
      BY <1>2 DEF LinkInv, ExclusiveUse, DataTypes
    <3>2. Len(idle) \in Nat
      BY <3>1
    <3>3. QED
      BY <2>1, <3>1, <3>2, AppendDistinct
  <2>5. SlotBound'
    <3>1. t \in Users
      BY <1>1 DEF Users, Holding
    <3>2. Cardinality(Users') = Cardinality(Users) - 1
      BY <2>3, <3>1, HoldersFinite, FS_RemoveElement
    <3>3. QED
      BY <2>4, <3>2, HoldersFinite, PoolAssumption DEF SlotBound
  <2>6. InUse' = InUse \ {t}
    <3>1. /\ pc' = [u \in Tasks |->
                IF u = t THEN "idle"
                ELSE IF waiters # <<>> /\ u = Head(waiters) THEN "granted"
                ELSE pc[u]]
      BY <2>1 DEF ReleaseBy
    <3>2. waiters # <<>> => pc[Head(waiters)] = "queued"
      BY TailFacts DEF PermitTypes, PermitConservation
    <3>3. QED
      BY <3>1, <3>2 DEF InUse
  <2>7. ExclusiveUse'
    BY <1>1, <1>2, <2>4, IdleInConns DEF LinkInv, ExclusiveUse, DataTypes
  <2>8. OpenOwned'
    <3>1. \A u \in Tasks : conn'[u] # None <=> u \in InUse'
      BY <1>1, <2>6 DEF LinkInv, OpenOwned, DataTypes
    <3>2. ASSUME NEW d \in Conns
          PROVE  link'[d] # "none" <=>
                     d \in ToSet(idle') \/ \E u \in Tasks : conn'[u] = d
      <4>1. CASE d = c
        BY <1>2, <2>1, <2>4, <4>1
      <4>2. CASE d # c
        BY <1>1, <1>2, <2>1, <2>4, <4>2, PoolAssumption
           DEF LinkInv, OpenOwned, DataTypes
      <4>3. QED
        BY <4>1, <4>2
    <3>3. QED
      BY <3>1, <3>2 DEF OpenOwned
  <2>9. CleanIdle'
    BY <1>2, <2>1, <2>2, <2>4, IdleInConns DEF LinkInv, CleanIdle, DataTypes
  <2>10. WireDiscipline'
    <3>1. answers'[c] = <<>> /\ requests'[c] = <<>> /\ Len(<<>>) = 0
      BY <1>2, <2>1, <2>2 DEF DataTypes
    <3>2. \A d \in Conns \ {c} : requests'[d] = requests[d] /\ answers'[d] = answers[d]
      BY <2>1 DEF DataTypes
    <3>3. Len(requests'[c]) + Len(answers'[c]) <= 1
      BY <3>1
    <3>4. QED
      BY <2>1, <3>1, <3>2, <3>3 DEF LinkInv, WireDiscipline
  <2>11. QED
    BY <2>3, <2>5, <2>7, <2>8, <2>9, <2>10 DEF CoreInv, LinkInv
<1>5. QED
  BY <1>3, <1>4

\* A holder without a connection leaves.
LEMMA LeaveInv ==
    ASSUME IInv, NEW t \in Tasks, pc[t] \in Holding, t \notin InUse, ReleaseBy(t),
           UNCHANGED <<conn, idle, link, requests, answers>>
    PROVE  CoreInv'
<1> USE IInvSplit
<1>1. PermitTypes' /\ PermitConservation' /\ Users' = Users \ {t}
  BY ReleaseLemma
<1>2. SlotBound'
  BY <1>1, SlotLemma DEF DataTypes
<1>3. InUse' = InUse
  <2>1. /\ pc' = [u \in Tasks |->
              IF u = t THEN "idle"
              ELSE IF waiters # <<>> /\ u = Head(waiters) THEN "granted"
              ELSE pc[u]]
    BY DEF ReleaseBy
  <2>2. waiters # <<>> => pc[Head(waiters)] = "queued"
    BY TailFacts DEF PermitTypes, PermitConservation
  <2>3. QED
    BY <2>1, <2>2 DEF InUse
<1>4. LinkInv'
  BY <1>3, FrameLemma
<1>5. QED
  BY <1>1, <1>2, <1>4 DEF CoreInv

LEMMA LeaveQueueInv ==
    ASSUME IInv, NEW t \in Tasks, NEW kind, LeaveQueue(t, kind) PROVE CoreInv'
<1> USE IInvSplit
<1>1. PermitTypes' /\ PermitConservation' /\ Users' = Users
  BY LeaveQueueLemma
<1>2. SlotBound'
  BY <1>1 DEF LeaveQueue, SlotBound
<1>3. InUse' = InUse
  BY DEF LeaveQueue, InUse, PermitTypes
<1>4. LinkInv'
  BY <1>3, FrameLemma DEF LeaveQueue, wireVars
<1>5. QED
  BY <1>1, <1>2, <1>4 DEF CoreInv

\* From one await to the next, connections untouched.
LEMMA AdvanceInv ==
    ASSUME IInv, NEW t \in Tasks,
           Replaced(t) \/ Drained(t)
    PROVE  CoreInv'
<1> USE IInvSplit
<1>1. PICK s \in {"opening", "reading"} :
          /\ pc' = [pc EXCEPT ![t] = s]
          /\ s = "reading" <=> pc[t] = "sending"
          /\ pc[t] \in {"replacing", "sending"}
          /\ UNCHANGED <<permits, waiters, idle, conn, link, requests, answers>>
  BY DEF Replaced, Drained, poolVars, wireVars
<1>2. PermitTypes' /\ PermitConservation' /\ Users' = Users \cup {t}
  BY <1>1, MoveLemma DEF Holding
<1>3. Users' = Users
  BY <1>1, <1>2 DEF Users, Holding
<1>4. SlotBound'
  BY <1>1, <1>3 DEF SlotBound
<1>5. InUse' = InUse
  BY <1>1 DEF InUse, PermitTypes
<1>6. LinkInv'
  BY <1>1, <1>5, FrameLemma
<1>7. QED
  BY <1>2, <1>4, <1>6 DEF CoreInv

LEMMA DiscardInv ==
    ASSUME IInv, NEW t \in Tasks, t \in InUse, Discard(t), UNCHANGED poolVars
    PROVE  CoreInv'
BY DiscardLemma DEF CoreInv

LEMMA TaskInv == ASSUME IInv, NEW t \in Tasks, TaskStep(t) PROVE CoreInv'
<1>1. CASE ResumeEmpty(t)
  BY <1>1, ResumeEmptyInv
<1>2. CASE ResumeReuse(t)
  BY <1>2, ResumeReuseInv
<1>3. CASE ResumeStale(t)
  BY <1>3, ResumeStaleInv
<1>4. CASE Replaced(t) \/ Drained(t)
  BY <1>4, AdvanceInv
<1>5. CASE \E c \in Conns : OpenConn(t, c)
  BY <1>5, OpenConnInv
<1>6. CASE OpenRefused(t)
  BY <1>6, LeaveInv DEF OpenRefused, InUse, Holding, wireVars
<1>7. CASE ReadResult(t)
  BY <1>7, ReadResultInv
<1>8. CASE ReadError(t)
  BY <1>8, DiscardInv DEF ReadError, InUse
<1>9. CASE ReadEof(t)
  BY <1>9, DiscardInv DEF ReadEof, InUse
<1>10. CASE Discarded(t)
  BY <1>10, LeaveInv DEF Discarded, InUse, Holding, wireVars
<1>11. QED
  BY <1>1, <1>2, <1>3, <1>4, <1>5, <1>6, <1>7, <1>8, <1>9, <1>10 DEF TaskStep

LEMMA GiveUpInv == ASSUME IInv, NEW t \in Tasks, Timeout(t) \/ Cancel(t) PROVE CoreInv'
<1>1. ASSUME NEW kind, LeaveQueue(t, kind) PROVE CoreInv'
  BY <1>1, LeaveQueueInv
<1>2. ASSUME NEW kind, NEW states \in SUBSET (Holding \ {"sending", "reading"}),
             LeaveWithPermit(t, kind, states)
      PROVE  CoreInv'
  BY <1>2, LeaveInv DEF LeaveWithPermit, InUse, wireVars
<1>3. ASSUME NEW kind, NEW states \in SUBSET {"sending", "reading"},
             LeaveWithConn(t, kind, states)
      PROVE  CoreInv'
  BY <1>3, DiscardInv DEF LeaveWithConn, InUse
<1>4. /\ {"granted", "opening"} \in SUBSET (Holding \ {"sending", "reading"})
      /\ {"granted", "replacing", "opening", "discarding"}
            \in SUBSET (Holding \ {"sending", "reading"})
      /\ {"reading"} \in SUBSET {"sending", "reading"}
      /\ {"sending", "reading"} \in SUBSET {"sending", "reading"}
  BY DEF Holding
<1>5. CASE Timeout(t)
  BY <1>1, <1>2, <1>3, <1>4, <1>5, Zenon DEF Timeout
<1>6. CASE Cancel(t)
  BY <1>1, <1>2, <1>3, <1>4, <1>6, Zenon DEF Cancel
<1>7. QED
  BY <1>5, <1>6

-----------------------------------------------------------------------------
(* close() and the server                                                  *)

\* Steps that move no task.
LEMMA NoMove ==
    ASSUME IInv, UNCHANGED <<pc, permits, waiters>>
    PROVE  PermitTypes' /\ PermitConservation' /\ Users' = Users /\ InUse' = InUse
<1>1. PermitTypes'
  BY IInvSplit DEF PermitTypes
<1>2. PermitConservation'
  BY IInvSplit DEF PermitConservation, Holders
<1>3. QED
  BY <1>1, <1>2 DEF Users, InUse

LEMMA ClosingInv == ASSUME IInv, Closing PROVE CoreInv'
<1> USE IInvSplit
<1>1. UNCHANGED <<pc, permits, waiters, conn>>
  BY DEF Closing, CloseBegin, CloseNext, CloseEnd
<1>2. PermitTypes' /\ PermitConservation' /\ Users' = Users /\ InUse' = InUse
  BY <1>1, NoMove
<1>3. CASE CloseNext
  <2>1. /\ idle # <<>> /\ idle' = Tail(idle) /\ CloseConn(Head(idle))
    BY <1>3 DEF CloseNext
  <2>2. LinkInv'
    BY <1>1, <1>2, <2>1, DropIdleLemma
  <2>3. SlotBound'
    BY <1>2, <2>1, IdleHead, SlotLemma
  <2>4. QED
    BY <1>2, <2>2, <2>3 DEF CoreInv
<1>4. CASE CloseBegin \/ CloseEnd
  <2>1. UNCHANGED <<idle, link, requests, answers>>
    BY <1>4 DEF CloseBegin, CloseEnd, wireVars
  <2>2. LinkInv'
    BY <1>1, <1>2, <2>1, FrameLemma
  <2>3. SlotBound'
    BY <1>2, <2>1 DEF SlotBound
  <2>4. QED
    BY <1>2, <2>2, <2>3 DEF CoreInv
<1>5. QED
  BY <1>3, <1>4 DEF Closing

\* The server only touches what travels, and cuts links without closing them.
LEMMA WireLemma ==
    ASSUME IInv, UNCHANGED <<pc, permits, waiters, conn, idle>>,
           \A c \in Conns :
              /\ link'[c] = "none" <=> link[c] = "none"
              /\ \/ requests'[c] = requests[c] /\ answers'[c] = answers[c]
                 \/ /\ requests[c] # <<>> \/ answers[c] # <<>>
                    /\ Len(requests'[c]) + Len(answers'[c]) <= 1
                    /\ link[c] # "none"
                 \/ requests'[c] = <<>> /\ answers'[c] = answers[c]
                 \/ requests'[c] = <<>> /\ answers'[c] = <<>>
    PROVE  CoreInv'
<1> USE IInvSplit
<1>1. PermitTypes' /\ PermitConservation' /\ Users' = Users /\ InUse' = InUse
  BY NoMove
<1>2. SlotBound'
  BY <1>1 DEF SlotBound
<1>3. ExclusiveUse'
  BY DEF LinkInv, ExclusiveUse
<1>4. OpenOwned'
  BY <1>1 DEF LinkInv, OpenOwned
<1>5. CleanIdle'
  BY IdleInConns DEF LinkInv, CleanIdle
<1>6. WireDiscipline'
  <2>1. ASSUME NEW c \in Conns
        PROVE  Len(requests'[c]) + Len(answers'[c]) <= 1
    <3>1. /\ requests[c] \in Seq(CallIds) /\ answers[c] \in Seq(Answer)
          /\ Len(requests[c]) + Len(answers[c]) <= 1
      BY DEF LinkInv, WireDiscipline, DataTypes
    <3>2. Len(requests[c]) \in Nat /\ Len(answers[c]) \in Nat
      BY <3>1, LenProperties
    <3>3. Len(<<>>) = 0
      OBVIOUS
    <3>4. \A m, n \in Nat : n + m <= 1 => 0 + m <= 1 /\ 0 + 0 <= 1
      OBVIOUS
    <3>5. QED
      BY <3>1, <3>2, <3>3, <3>4, Zenon
  <2>2. \A c \in Conns : link'[c] = "none" => requests'[c] = <<>> /\ answers'[c] = <<>>
    BY DEF LinkInv, WireDiscipline
  <2>3. QED
    BY <2>1, <2>2 DEF WireDiscipline
<1>7. QED
  BY <1>1, <1>2, <1>3, <1>4, <1>5, <1>6 DEF CoreInv, LinkInv

LEMMA ServeInv ==
    ASSUME IInv, NEW c \in Conns, NEW kind \in {"result", "error"}, Serve(c, kind)
    PROVE  CoreInv'
<1> USE IInvSplit
<1>1. /\ requests[c] # <<>> /\ link[c] = "up"
      /\ UNCHANGED <<pc, permits, waiters, conn, idle, link>>
      /\ requests' = [requests EXCEPT ![c] = Tail(requests[c])]
      /\ answers' = [answers EXCEPT ![c] =
                       Append(answers[c], [call |-> Head(requests[c]), kind |-> kind])]
  BY DEF Serve, poolVars
<1>2. Len(requests'[c]) + Len(answers'[c]) <= 1
  <2>1. /\ requests[c] \in Seq(CallIds) /\ answers[c] \in Seq(Answer)
        /\ Len(requests[c]) + Len(answers[c]) <= 1
    BY DEF LinkInv, WireDiscipline, DataTypes
  <2>2. Head(requests[c]) \in CallIds /\ Len(Tail(requests[c])) = Len(requests[c]) - 1
    BY <1>1, <2>1, HeadTailProperties
  <2>3. Len(requests[c]) \in Nat /\ Len(answers[c]) \in Nat
    BY <2>1, LenProperties
  <2>4. [call |-> Head(requests[c]), kind |-> kind] \in Answer
    BY <2>2 DEF Answer
  <2>5. Len(Append(answers[c], [call |-> Head(requests[c]), kind |-> kind]))
          = Len(answers[c]) + 1
    BY <2>1, <2>4, AppendProperties
  <2>6. /\ requests'[c] = Tail(requests[c])
        /\ answers'[c] = Append(answers[c], [call |-> Head(requests[c]), kind |-> kind])
    BY <1>1 DEF DataTypes
  <2>7. \A m, n \in Nat : n + m <= 1 => (n - 1) + (m + 1) <= 1
    OBVIOUS
  <2>8. QED
    BY <2>1, <2>2, <2>3, <2>5, <2>6, <2>7, Zenon
<1>3. \A d \in Conns \ {c} : requests'[d] = requests[d] /\ answers'[d] = answers[d]
  BY <1>1 DEF DataTypes
<1>4. ASSUME NEW d \in Conns
      PROVE  /\ link'[d] = "none" <=> link[d] = "none"
             /\ \/ requests'[d] = requests[d] /\ answers'[d] = answers[d]
                \/ /\ requests[d] # <<>> \/ answers[d] # <<>>
                   /\ Len(requests'[d]) + Len(answers'[d]) <= 1
                   /\ link[d] # "none"
  <2>1. CASE d = c
    BY <1>1, <1>2, <2>1
  <2>2. CASE d # c
    BY <1>1, <1>3, <2>2
  <2>3. QED
    BY <2>1, <2>2
<1>5. UNCHANGED <<pc, permits, waiters, conn, idle>>
  BY <1>1
<1>6. QED
  BY <1>4, <1>5, WireLemma

LEMMA ServerInv == ASSUME IInv, ServerStep \/ ServerFault PROVE CoreInv'
<1> USE IInvSplit
<1>1. CASE \E c \in Conns, kind \in {"result", "error"} : Serve(c, kind)
  BY <1>1, ServeInv
<1>2. ASSUME UNCHANGED <<pc, permits, waiters, conn, idle, link, requests, answers>>
      PROVE  CoreInv'
  BY <1>2, WireLemma
<1>3. CASE \E c \in Conns : ServerDrops(c)
  <2>1. PICK c \in Conns : ServerDrops(c)
    BY <1>3
  <2>2. /\ UNCHANGED <<pc, permits, waiters, conn, idle, answers>>
        /\ link[c] = "up" /\ link' = [link EXCEPT ![c] = "eof"]
        /\ requests' = [requests EXCEPT ![c] = <<>>]
    BY <2>1 DEF ServerDrops, poolVars
  <2>3. \A d \in Conns : link'[d] = "none" <=> link[d] = "none"
    BY <2>2 DEF DataTypes
  <2>4. \A d \in Conns : requests'[d] = requests[d] \/ requests'[d] = <<>>
    BY <2>2 DEF DataTypes
  <2>5. QED
    BY <2>2, <2>3, <2>4, WireLemma
<1>4. CASE \E resets \in SUBSET {c \in Conns : link[c] = "up"} : Crash(resets)
  <2>1. PICK resets \in SUBSET {c \in Conns : link[c] = "up"} : Crash(resets)
    BY <1>4
  <2>2. /\ UNCHANGED <<pc, permits, waiters, conn, idle>>
        /\ link' = [c \in Conns |->
                      IF link[c] # "up" THEN link[c]
                      ELSE IF c \in resets THEN "reset" ELSE "eof"]
        /\ requests' = [c \in Conns |-> <<>>]
        /\ answers' = [c \in Conns |-> IF c \in resets THEN <<>> ELSE answers[c]]
    BY <2>1 DEF Crash, poolVars
  <2>3. \A c \in Conns : link'[c] = "none" <=> link[c] = "none"
    BY <2>2
  <2>4. \A c \in Conns :
           requests'[c] = <<>> /\ (answers'[c] = answers[c] \/ answers'[c] = <<>>)
    BY <2>2
  <2>5. QED
    BY <2>2, <2>3, <2>4, WireLemma
<1>5. CASE (\E q \in orphans : ServeOrphan(q)) \/ Restart \/ Hang \/ Recover
  <2>1. UNCHANGED <<pc, permits, waiters, conn, idle, link, requests, answers>>
    BY <1>5 DEF ServeOrphan, Restart, Hang, Recover, poolVars, wireVars
  <2>2. QED
    BY <1>2, <2>1
<1>6. QED
  BY <1>1, <1>3, <1>4, <1>5 DEF ServerStep, ServerFault

-----------------------------------------------------------------------------
(* Types of the data                                                       *)

LEMMA OutcomeType ==
    ASSUME DataTypes, NEW t \in Tasks,
           NEW kind \in {"none", "result", "raised", "bypass", "cancelled"},
           NEW of \in CallIds
    PROVE  [outcome EXCEPT ![t] = [kind |-> kind, of |-> of]] \in [Tasks ->
                [kind : {"none", "result", "raised", "bypass", "cancelled"},
                 of : CallIds \cup {<<>>}]]
BY DEF DataTypes

LEMMA CurrentType == ASSUME DataTypes, NEW t \in Tasks PROVE Current(t) \in CallIds
BY DEF DataTypes, Current, CallIds

LEMMA EndsType ==
    ASSUME DataTypes, NEW t \in Tasks,
           NEW kind \in {"raised", "bypass", "cancelled"}, Ends(t, kind)
    PROVE  outcome' \in [Tasks ->
                [kind : {"none", "result", "raised", "bypass", "cancelled"},
                 of : CallIds \cup {<<>>}]]
BY OutcomeType, CurrentType DEF Ends

LEMMA CloseConnType ==
    ASSUME DataTypes, NEW c \in Conns, CloseConn(c)
    PROVE  /\ link' \in [Conns -> {"none", "up", "eof", "reset"}]
           /\ requests' \in [Conns -> Seq(CallIds)]
           /\ answers' \in [Conns -> Seq(Answer)]
           /\ orphans' \in SUBSET CallIds
<1>1. <<>> \in Seq(CallIds) /\ <<>> \in Seq(Answer)
  OBVIOUS
<1>2. requests[c] \in Seq(CallIds)
  BY DEF DataTypes
<1>3. ToSet(requests[c]) \subseteq CallIds
  BY <1>2 DEF ToSet
<1>4. QED
  BY <1>1, <1>3 DEF CloseConn, DataTypes

LEMMA DiscardType ==
    ASSUME IInv, NEW t \in Tasks, t \in InUse, Discard(t), UNCHANGED poolVars,
           UNCHANGED serverVars, UNCHANGED calls,
           outcome' \in [Tasks ->
                [kind : {"none", "result", "raised", "bypass", "cancelled"},
                 of : CallIds \cup {<<>>}]]
    PROVE  DataTypes'
<1> USE IInvSplit
<1>1. conn[t] \in Conns
  BY UsedConn
<1>2. /\ link' \in [Conns -> {"none", "up", "eof", "reset"}]
      /\ requests' \in [Conns -> Seq(CallIds)]
      /\ answers' \in [Conns -> Seq(Answer)]
      /\ orphans' \in SUBSET CallIds
  BY <1>1, CloseConnType DEF Discard
<1>3. conn' \in [Tasks -> Conns \cup {None}]
  BY DEF Discard, DataTypes
<1>4. UNCHANGED <<calls, idle, closer, executed, server, faults>>
  BY DEF poolVars, serverVars
<1>5. QED
  BY <1>2, <1>3, <1>4 DEF DataTypes

LEMMA AnswerHead ==
    ASSUME IInv, NEW t \in Tasks, t \in InUse, answers[conn[t]] # <<>>
    PROVE  /\ Head(answers[conn[t]]) \in Answer
           /\ Head(answers[conn[t]]).call \in CallIds
           /\ Tail(answers[conn[t]]) \in Seq(Answer)
<1>1. answers[conn[t]] \in Seq(Answer)
  BY UsedConn, IInvSplit DEF DataTypes
<1>2. Head(answers[conn[t]]) \in Answer /\ Tail(answers[conn[t]]) \in Seq(Answer)
  BY <1>1, HeadTailProperties
<1>3. QED
  BY <1>2 DEF Answer

LEMMA CallTypes ==
    ASSUME IInv, NEW t \in Tasks, Call(t) \/ CallAfterClose(t) PROVE DataTypes'
<1> USE IInvSplit
<1>1. calls' \in [Tasks -> Nat] /\ <<t, calls[t] + 1>> \in CallIds
  <2>1. calls[t] + 1 \in Nat /\ calls' = [calls EXCEPT ![t] = calls[t] + 1]
    BY DEF Call, CallAfterClose, DataTypes
  <2>2. QED
    BY <2>1 DEF DataTypes, CallIds
<1>2. CASE Call(t)
  BY <1>1, <1>2 DEF Call, DataTypes, NoOutcome, wireVars, serverVars
<1>3. CASE CallAfterClose(t)
  <2>1. outcome' \in [Tasks ->
                [kind : {"none", "result", "raised", "bypass", "cancelled"},
                 of : CallIds \cup {<<>>}]]
    BY <1>1, <1>3, OutcomeType DEF CallAfterClose
  <2>2. QED
    BY <1>1, <1>3, <2>1 DEF CallAfterClose, DataTypes, poolVars, wireVars, serverVars
<1>4. QED
  BY <1>2, <1>3

LEMMA TaskTypes == ASSUME IInv, NEW t \in Tasks, TaskStep(t) PROVE DataTypes'
<1> USE IInvSplit
<1>1. CASE ResumeEmpty(t) \/ Replaced(t) \/ Drained(t) \/ Discarded(t)
  BY <1>1 DEF ResumeEmpty, Replaced, Drained, Discarded, DataTypes,
              poolVars, wireVars, serverVars
<1>2. CASE ResumeReuse(t)
  <2>1. Head(idle) \in Conns /\ idle' \in Seq(Conns)
    BY <1>2, IdleHead DEF ResumeReuse
  <2>2. requests' \in [Conns -> Seq(CallIds)]
    <3>1. Append(requests[Head(idle)], Current(t)) \in Seq(CallIds)
      BY <2>1, CurrentType, AppendProperties DEF DataTypes
    <3>2. QED
      BY <1>2, <2>1, <3>1 DEF ResumeReuse, Write, DataTypes
  <2>3. conn' \in [Tasks -> Conns \cup {None}]
    BY <1>2, <2>1 DEF ResumeReuse, DataTypes
  <2>4. UNCHANGED <<calls, outcome, closer, link, answers, orphans, executed,
                    server, faults>>
    BY <1>2 DEF ResumeReuse, serverVars
  <2>5. QED
    BY <2>1, <2>2, <2>3, <2>4 DEF DataTypes
<1>3. CASE ResumeStale(t)
  <2>1. Head(idle) \in Conns /\ idle' \in Seq(Conns)
    BY <1>3, IdleHead DEF ResumeStale
  <2>2. UNCHANGED <<calls, outcome, conn, closer, executed, server, faults>>
    BY <1>3 DEF ResumeStale, serverVars
  <2>3. QED
    BY <1>3, <2>1, <2>2, CloseConnType DEF ResumeStale, DataTypes
<1>4. CASE \E c \in Conns : OpenConn(t, c)
  <2>1. PICK c \in Conns : OpenConn(t, c)
    BY <1>4
  <2>2. <<Current(t)>> \in Seq(CallIds)
    BY CurrentType
  <2>3. QED
    BY <2>1, <2>2 DEF OpenConn, DataTypes, poolVars, serverVars
<1>5. CASE OpenRefused(t)
  BY <1>5, EndsType DEF OpenRefused, DataTypes, wireVars, serverVars
<1>6. CASE ReadResult(t)
  <2> DEFINE c == conn[t]
  <2>1. t \in InUse /\ answers[c] # <<>>
    BY <1>6 DEF ReadResult, InUse
  <2>2. /\ c \in Conns /\ Head(answers[c]).call \in CallIds
        /\ Tail(answers[c]) \in Seq(Answer)
    BY <2>1, UsedConn, AnswerHead
  <2>3. outcome' \in [Tasks ->
                [kind : {"none", "result", "raised", "bypass", "cancelled"},
                 of : CallIds \cup {<<>>}]]
    BY <1>6, <2>2, OutcomeType DEF ReadResult
  <2>4. CASE Len(idle) < MaxConnections
    <3>1. /\ idle' = Append(idle, c)
          /\ answers' = [answers EXCEPT ![c] = Tail(answers[c])]
          /\ UNCHANGED <<link, requests, orphans, calls, closer, serverVars>>
          /\ conn' = [conn EXCEPT ![t] = None]
      BY <1>6, <2>4 DEF ReadResult
    <3>2. idle' \in Seq(Conns)
      BY <2>2, <3>1, AppendProperties DEF DataTypes
    <3>3. answers' \in [Conns -> Seq(Answer)] /\ conn' \in [Tasks -> Conns \cup {None}]
      BY <2>2, <3>1 DEF DataTypes
    <3>4. QED
      BY <2>3, <3>1, <3>2, <3>3 DEF DataTypes, serverVars
  <2>5. CASE ~(Len(idle) < MaxConnections)
    <3>1. /\ Discard(t) /\ UNCHANGED <<idle, permits, waiters, closer>>
          /\ UNCHANGED serverVars /\ UNCHANGED calls
      BY <1>6, <2>5 DEF ReadResult, Discard
    <3>2. QED
      BY <2>1, <2>3, <3>1, DiscardType DEF poolVars
  <2>6. QED
    BY <2>4, <2>5
<1>7. CASE ReadError(t)
  <2>1. t \in InUse /\ answers[conn[t]] # <<>>
    BY <1>7 DEF ReadError, InUse
  <2>2. outcome' \in [Tasks ->
                [kind : {"none", "result", "raised", "bypass", "cancelled"},
                 of : CallIds \cup {<<>>}]]
    BY <1>7, <2>1, AnswerHead, OutcomeType DEF ReadError
  <2>3. QED
    BY <1>7, <2>1, <2>2, DiscardType DEF ReadError
<1>8. CASE ReadEof(t)
  <2>1. t \in InUse
    BY <1>8 DEF ReadEof, InUse
  <2>2. QED
    BY <1>8, <2>1, EndsType, DiscardType DEF ReadEof
<1>9. QED
  BY <1>1, <1>2, <1>3, <1>4, <1>5, <1>6, <1>7, <1>8 DEF TaskStep

LEMMA GiveUpTypes ==
    ASSUME IInv, NEW t \in Tasks, Timeout(t) \/ Cancel(t) PROVE DataTypes'
<1> USE IInvSplit
<1>1. ASSUME NEW kind \in {"bypass", "cancelled"}, LeaveQueue(t, kind) PROVE DataTypes'
  BY <1>1, EndsType DEF LeaveQueue, DataTypes, wireVars, serverVars
<1>2. ASSUME NEW kind \in {"bypass", "cancelled"}, NEW states,
             LeaveWithPermit(t, kind, states)
      PROVE  DataTypes'
  BY <1>2, EndsType DEF LeaveWithPermit, DataTypes, wireVars, serverVars
<1>3. ASSUME NEW kind \in {"bypass", "cancelled"},
             NEW states \in SUBSET {"sending", "reading"},
             LeaveWithConn(t, kind, states)
      PROVE  DataTypes'
  <2>1. t \in InUse
    BY <1>3 DEF LeaveWithConn, InUse
  <2>2. QED
    BY <1>3, <2>1, EndsType, DiscardType DEF LeaveWithConn
<1>4. /\ {"reading"} \in SUBSET {"sending", "reading"}
      /\ {"sending", "reading"} \in SUBSET {"sending", "reading"}
  OBVIOUS
<1>5. "bypass" \in {"bypass", "cancelled"} /\ "cancelled" \in {"bypass", "cancelled"}
  OBVIOUS
<1>6. CASE Timeout(t)
  BY <1>1, <1>2, <1>3, <1>4, <1>5, <1>6, Zenon DEF Timeout
<1>7. CASE Cancel(t)
  BY <1>1, <1>2, <1>3, <1>4, <1>5, <1>7, Zenon DEF Cancel
<1>8. QED
  BY <1>6, <1>7

LEMMA OtherTypes ==
    ASSUME IInv, Closing \/ ServerStep \/ ServerFault PROVE DataTypes'
<1> USE IInvSplit
<1>1. CASE CloseNext
  <2>1. Head(idle) \in Conns /\ idle' \in Seq(Conns)
    BY <1>1, IdleHead DEF CloseNext
  <2>2. UNCHANGED <<calls, outcome, conn, closer, executed, server, faults>>
    BY <1>1 DEF CloseNext, serverVars
  <2>3. QED
    BY <1>1, <2>1, <2>2, CloseConnType DEF CloseNext, DataTypes
<1>2. CASE CloseBegin \/ CloseEnd
  BY <1>2 DEF CloseBegin, CloseEnd, DataTypes, wireVars, serverVars
<1>3. ASSUME NEW c \in Conns, NEW kind \in {"result", "error"}, Serve(c, kind)
      PROVE  DataTypes'
  <2>1. requests[c] \in Seq(CallIds) /\ answers[c] \in Seq(Answer) /\ requests[c] # <<>>
    BY <1>3 DEF Serve, DataTypes
  <2>2. Head(requests[c]) \in CallIds /\ Tail(requests[c]) \in Seq(CallIds)
    BY <2>1, HeadTailProperties
  <2>3. [call |-> Head(requests[c]), kind |-> kind] \in Answer
    BY <2>2 DEF Answer
  <2>4. Append(answers[c], [call |-> Head(requests[c]), kind |-> kind]) \in Seq(Answer)
    BY <2>1, <2>3, AppendProperties
  <2>5. QED
    BY <1>3, <2>2, <2>4 DEF Serve, DataTypes, poolVars
<1>4. CASE \E q \in orphans : ServeOrphan(q)
  BY <1>4 DEF ServeOrphan, DataTypes, poolVars
<1>5. CASE \E c \in Conns : ServerDrops(c)
  <2>1. <<>> \in Seq(CallIds)
    OBVIOUS
  <2>2. QED
    BY <1>5, <2>1 DEF ServerDrops, DataTypes, poolVars, serverVars
<1>6. CASE \E resets \in SUBSET {c \in Conns : link[c] = "up"} : Crash(resets)
  <2>1. <<>> \in Seq(CallIds) /\ <<>> \in Seq(Answer)
    OBVIOUS
  <2>2. QED
    BY <1>6, <2>1 DEF Crash, DataTypes, poolVars
<1>7. CASE Restart \/ Hang \/ Recover
  BY <1>7 DEF Restart, Hang, Recover, DataTypes, poolVars, wireVars
<1>8. QED
  BY <1>1, <1>2, <1>3, <1>4, <1>5, <1>6, <1>7
     DEF Closing, ServerStep, ServerFault

-----------------------------------------------------------------------------
(* Theorems                                                                *)

LEMMA InitIInv == Init => IInv
<1> SUFFICES ASSUME Init PROVE IInv
  OBVIOUS
<1>1. ToSet(<<>>) = {} /\ Len(<<>>) = 0
  BY DEF ToSet
<1>2. Holders = {} /\ Users = {} /\ InUse = {} /\ Queued = {}
  BY DEF Init, Holders, Users, InUse, Queued, Holding
<1>3. Cardinality({}) = 0
  BY FS_EmptySet
<1>4. PermitTypes
  BY PoolAssumption DEF Init, PermitTypes
<1>5. DataTypes
  BY DEF Init, DataTypes, NoOutcome
<1>6. PermitConservation
  BY <1>1, <1>2, <1>3, PoolAssumption DEF Init, PermitConservation, Queued
<1>7. SlotBound
  BY <1>1, <1>2, <1>3, PoolAssumption DEF Init, SlotBound
<1>8. LinkInv
  BY <1>1, <1>2, PoolAssumption
     DEF Init, LinkInv, ExclusiveUse, OpenOwned, CleanIdle, WireDiscipline
<1>9. QED
  BY <1>4, <1>5, <1>6, <1>7, <1>8, IInvSplit

LEMMA CallAfterCloseInv ==
    ASSUME IInv, NEW t \in Tasks, CallAfterClose(t) PROVE CoreInv'
<1> USE IInvSplit
<1>1. UNCHANGED <<pc, permits, waiters, conn, idle, link, requests, answers>>
  BY DEF CallAfterClose, poolVars, wireVars
<1>2. QED
  BY <1>1, WireLemma

LEMMA NextIInv == IInv /\ [Next]_vars => IInv'
<1> SUFFICES ASSUME IInv, [Next]_vars PROVE IInv'
  OBVIOUS
<1>1. CoreInv' /\ DataTypes' => IInv'
  BY IInvSplit2 DEF CoreInv
<1>2. ASSUME NEW t \in Tasks, Call(t) PROVE IInv'
  BY <1>1, <1>2, CallInv, CallTypes
<1>3. ASSUME NEW t \in Tasks, CallAfterClose(t) PROVE IInv'
  BY <1>1, <1>3, CallAfterCloseInv, CallTypes
<1>4. ASSUME NEW t \in Tasks, TaskStep(t) PROVE IInv'
  BY <1>1, <1>4, TaskInv, TaskTypes
<1>5. ASSUME NEW t \in Tasks, Timeout(t) \/ Cancel(t) PROVE IInv'
  BY <1>1, <1>5, GiveUpInv, GiveUpTypes
<1>6. CASE Closing
  BY <1>1, <1>6, ClosingInv, OtherTypes
<1>7. CASE ServerStep \/ ServerFault
  BY <1>1, <1>7, ServerInv, OtherTypes
<1>8. CASE UNCHANGED vars
  <2>1. UNCHANGED <<pc, permits, waiters, conn, idle, link, requests, answers>>
    BY <1>8 DEF vars, poolVars, wireVars
  <2>2. CoreInv'
    BY <2>1, WireLemma
  <2>3. DataTypes'
    BY <1>8, IInvSplit DEF vars, poolVars, wireVars, serverVars, DataTypes
  <2>4. QED
    BY <1>1, <2>2, <2>3
<1>9. QED
  BY <1>2, <1>3, <1>4, <1>5, <1>6, <1>7, <1>8 DEF Next

\* IInv holds in every reachable state of the pool, for any number of tasks,
\* connections and permits: no path through _acquire breaks the accounts.
THEOREM PoolInvariant == Spec => []IInv
<1>1. QED
  BY InitIInv, NextIInv, PTL DEF Spec

\* Every variable keeps its type; the semaphore's value stays in
\* 0..max_connections (uds_pool.py:116, 208).
THEOREM PoolTypeOK == Spec => []TypeOK
<1>1. IInv => TypeOK
  BY DEF IInv
<1>2. QED
  BY <1>1, PoolInvariant, PTL

\* Every path out of _acquire gives back exactly the permit it took.
THEOREM PoolPermits == Spec => []PermitConservation
<1>1. IInv => PermitConservation
  BY DEF IInv
<1>2. QED
  BY <1>1, PoolInvariant, PTL

\* A connection serves one call at a time (uds_pool.py:174, 191).
THEOREM PoolExclusiveUse == Spec => []ExclusiveUse
<1>1. IInv => ExclusiveUse
  BY DEF IInv
<1>2. QED
  BY <1>1, PoolInvariant, PTL

\* A pooled connection never carries a late answer, so that matching answers
\* to calls without comparing ids is sound (uds_pool.py:270-278).
THEOREM PoolCleanIdle == Spec => []CleanIdle
<1>1. IInv => CleanIdle
  BY DEF IInv
<1>2. QED
  BY <1>1, PoolInvariant, PTL

\* The open connections are at most as many as the slots that own them.
LEMMA OpenCount == IInv => OpenBound
<1> SUFFICES ASSUME IInv PROVE OpenBound
  OBVIOUS
<1> DEFINE owned == {conn[t] : t \in InUse}
<1> DEFINE pooled == ToSet(idle)
<1>1. Open \subseteq pooled \cup owned
  <2>1. TypeOK /\ OpenOwned
    BY DEF IInv
  <2>2. SUFFICES ASSUME NEW c \in Conns, link[c] # "none", c \notin pooled
                 PROVE  c \in owned
    BY DEF Open
  <2>3. PICK t \in Tasks : conn[t] = c
    BY <2>1, <2>2 DEF OpenOwned
  <2>4. t \in InUse
    BY <2>1, <2>3, PoolAssumption DEF OpenOwned
  <2>5. QED
    BY <2>3, <2>4
<1>2. /\ IsFiniteSet(pooled) /\ Cardinality(pooled) <= Len(idle)
      /\ Len(idle) \in Nat
  <2>1. idle \in Seq(Conns)
    BY DEF IInv, TypeOK
  <2>2. Len(idle) \in Nat /\ DOMAIN idle = 1..Len(idle)
    BY <2>1
  <2>3. IsFiniteSet(1..Len(idle)) /\ Cardinality(1..Len(idle)) = Len(idle)
    <3>1. \A n \in Nat : IsFiniteSet(1..n) /\ Cardinality(1..n) = n
      <4> TAKE n \in Nat
      <4>1. IsFiniteSet(1..n) /\
            Cardinality(1..n) = IF 1 > n THEN 0 ELSE n - 1 + 1
        BY FS_Interval
      <4>2. QED
        BY <4>1
    <3>2. QED
      BY <2>2, <3>1, Zenon
  <2>4. idle \in Surjection(1..Len(idle), pooled)
    BY <2>1, <2>2 DEF Surjection, ToSet
  <2>5. IsFiniteSet(pooled) /\ Cardinality(pooled) <= Cardinality(1..Len(idle))
    BY <2>3, <2>4, FS_Surjection
  <2>6. QED
    BY <2>2, <2>3, <2>5
<1>3. IsFiniteSet(owned) /\ Cardinality(owned) <= Cardinality(Users)
  <2>1. InUse \subseteq Users
    BY DEF InUse, Users, Holding
  <2>2. IsFiniteSet(Users)
    BY HoldersFinite
  <2>3. IsFiniteSet(InUse) /\ Cardinality(InUse) <= Cardinality(Users)
    BY <2>1, <2>2, FS_Subset
  <2>4. [t \in InUse |-> conn[t]] \in Surjection(InUse, owned)
    BY DEF Surjection
  <2>5. IsFiniteSet(owned) /\ Cardinality(owned) <= Cardinality(InUse)
    BY <2>3, <2>4, FS_Surjection
  <2>6. Cardinality(owned) \in Nat /\ Cardinality(InUse) \in Nat
        /\ Cardinality(Users) \in Nat
    BY <2>2, <2>3, <2>5, FS_CardinalityType
  <2>7. QED
    BY <2>3, <2>5, <2>6
<1>4. IsFiniteSet(pooled \cup owned)
      /\ Cardinality(pooled \cup owned)
           = Cardinality(pooled) + Cardinality(owned)
             - Cardinality(pooled \cap owned)
  BY <1>2, <1>3, FS_Union
<1>5. Cardinality(Open) <= Cardinality(pooled \cup owned)
      /\ IsFiniteSet(Open) /\ IsFiniteSet(pooled \cap owned)
  <2>1. pooled \cap owned \subseteq pooled
    OBVIOUS
  <2>2. IsFiniteSet(pooled \cap owned)
    BY <2>1, <1>2, FS_Subset
  <2>3. QED
    BY <1>1, <1>4, <2>2, FS_Subset
<1>6. /\ Cardinality(Open) \in Nat /\ Cardinality(pooled) \in Nat
      /\ Cardinality(owned) \in Nat /\ Cardinality(pooled \cap owned) \in Nat
      /\ Cardinality(pooled \cup owned) \in Nat /\ Cardinality(Users) \in Nat
  BY <1>2, <1>3, <1>4, <1>5, HoldersFinite, FS_CardinalityType
<1>7. Len(idle) + Cardinality(Users) <= MaxConnections /\ MaxConnections \in Nat
  BY PoolAssumption DEF IInv, SlotBound
<1> HIDE DEF owned, pooled
<1>8. QED
  BY <1>2, <1>3, <1>4, <1>5, <1>6, <1>7 DEF OpenBound

\* "Bound the total number of open connections" (uds_pool.py:75-76).
THEOREM PoolOpenBound == Spec => []OpenBound
<1>1. QED
  BY OpenCount, PoolInvariant, PTL

-----------------------------------------------------------------------------
(* The contract.  A step of a task keeps the place of the others' calls.    *)

Before == {"queued", "granted", "replacing", "opening"}

\* Beside t at most the first waiter is moved, to a state that is the same to
\* the contract, and only the call of t can become an orphan.
Aside(t) ==
    /\ \A u \in Tasks \ {t} :
          /\ pc'[u] = pc[u] \/ (pc[u] = "queued" /\ pc'[u] = "granted")
          /\ calls'[u] = calls[u] /\ outcome'[u] = outcome[u] /\ conn'[u] = conn[u]
          /\ conn[u] # None => /\ requests'[conn[u]] = requests[conn[u]]
                               /\ answers'[conn[u]] = answers[conn[u]]
    /\ executed' = executed
    /\ orphans' \subseteq orphans \cup {Current(t)}

LEMMA AsidePlaces ==
    ASSUME IInv, ContractInv, NEW t \in Tasks, Aside(t),
           NEW u \in Tasks, u # t
    PROVE  CallPlace(u)'
<1>1. CallPlace(u) /\ Current(u)' = Current(u) /\ Current(u) # Current(t)
  BY DEF ContractInv, Aside, Current
<1>2. pc[u] \in {"sending", "reading"} => conn[u] # None
  BY DEF IInv, OpenOwned, InUse
<1>3. \/ pc'[u] = pc[u]
      \/ pc[u] = "queued" /\ pc'[u] = "granted"
  BY DEF Aside
<1>4. calls'[u] = calls[u] /\ outcome'[u] = outcome[u] /\ conn'[u] = conn[u]
  BY DEF Aside
<1>5. conn[u] # None => /\ requests'[conn[u]] = requests[conn[u]]
                        /\ answers'[conn[u]] = answers[conn[u]]
  BY DEF Aside
<1>6. Current(u) \in orphans' => Current(u) \in orphans
  BY <1>1 DEF Aside
<1>7. executed' = executed
  BY DEF Aside
<1> QED BY <1>1, <1>2, <1>3, <1>4, <1>5, <1>6, <1>7 DEF CallPlace

LEMMA AsideInv ==
    ASSUME IInv, ContractInv, NEW t \in Tasks, Aside(t),
           calls'[t] <= MaxCalls, calls'[t] >= calls[t], calls' \in [Tasks -> Nat],
           CallPlace(t)', orphans' # orphans => calls[t] # 0 /\ Current(t) \notin executed
    PROVE  ContractInv'
<1>1. ASSUME NEW u \in Tasks PROVE calls'[u] <= MaxCalls /\ calls[u] <= calls'[u]
                                   /\ calls[u] \in Nat /\ calls'[u] \in Nat
  <2>1. calls[u] \in Nat /\ calls'[u] \in Nat /\ calls[u] <= MaxCalls /\ calls[t] \in Nat
    BY DEF ContractInv, IInv, TypeOK
  <2>2. u # t => calls'[u] = calls[u]
    BY DEF Aside
  <2> QED BY <2>1, <2>2
<1>2. \A u \in Tasks : CallPlace(u)'
  BY AsidePlaces
<1>3. Begun \subseteq Begun'
  <2> SUFFICES ASSUME NEW q \in CallIds, q[2] # 0, q[2] <= calls[q[1]]
               PROVE  q[2] <= calls'[q[1]]
    BY DEF Begun
  <2>1. q[1] \in Tasks /\ q[2] \in Nat
    BY DEF CallIds
  <2> QED BY <2>1, <1>1
<1>4. executed' \cup orphans' \subseteq Begun'
  <2>1. calls[t] # 0 => Current(t) \in Begun
    BY <1>1 DEF Begun, Current, CallIds
  <2> QED BY <2>1, <1>3 DEF Aside, ContractInv
<1>5. executed' \cap orphans' = {}
  BY DEF Aside, ContractInv
<1> QED BY <1>1, <1>2, <1>4, <1>5 DEF ContractInv

LEMMA ReleaseAside ==
    ASSUME IInv, NEW t \in Tasks, pc[t] # "queued", ReleaseBy(t),
           UNCHANGED <<calls, conn, wireVars, executed>>,
           \A u \in Tasks \ {t} : outcome'[u] = outcome[u]
    PROVE  Aside(t) /\ pc'[t] = "idle"
<1>1. waiters # <<>> => pc[Head(waiters)] = "queued"
  BY DEF IInv, TypeOK, PermitConservation, ToSet
<1>2. \A u \in Tasks : pc'[u] = IF u = t THEN "idle"
                                ELSE IF waiters # <<>> /\ u = Head(waiters) THEN "granted"
                                ELSE pc[u]
  BY DEF ReleaseBy
<1> QED BY <1>1, <1>2 DEF Aside, wireVars

LEMMA DiscardAside ==
    ASSUME IInv, ContractInv, NEW t \in Tasks, t \in InUse, Discard(t),
           UNCHANGED <<calls, executed>>,
           \A u \in Tasks \ {t} : outcome'[u] = outcome[u]
    PROVE  /\ Aside(t) /\ pc'[t] = "discarding"
           /\ orphans' # orphans => Current(t) \notin executed
<1> DEFINE c == conn[t]
<1>1. /\ c \in Conns /\ c # None
      /\ \A u \in Tasks : conn[u] = c => u = t
  BY UsedConn
<1>2. /\ requests' = [requests EXCEPT ![c] = <<>>]
      /\ answers' = [answers EXCEPT ![c] = <<>>]
      /\ orphans' = orphans \cup ToSet(requests[c])
      /\ conn' = [conn EXCEPT ![t] = None]
      /\ pc' = [pc EXCEPT ![t] = "discarding"]
  BY DEF Discard, CloseConn
<1> HIDE DEF c
<1>3. /\ pc \in [Tasks -> Holding \cup {"idle", "queued"}]
      /\ conn \in [Tasks -> Conns \cup {None}]
      /\ requests \in [Conns -> Seq(CallIds)] /\ answers \in [Conns -> Seq(Answer)]
  BY DEF IInv, TypeOK
<1>4. \A i \in DOMAIN requests[c] : requests[c][i] = Current(t) /\ Current(t) \notin executed
  BY DEF ContractInv, CallPlace, InUse, c
<1>5. \A q \in ToSet(requests[c]) : q = Current(t) /\ Current(t) \notin executed
  BY <1>4 DEF ToSet
<1>6. \A u \in Tasks \ {t} :
          /\ pc'[u] = pc[u] /\ conn'[u] = conn[u]
          /\ conn[u] # None => /\ requests'[conn[u]] = requests[conn[u]]
                               /\ answers'[conn[u]] = answers[conn[u]]
  BY <1>1, <1>2, <1>3
<1>7. pc'[t] = "discarding"
  BY <1>2, <1>3
<1> QED BY <1>2, <1>5, <1>6, <1>7 DEF Aside

-----------------------------------------------------------------------------
(* Each step as a step of the contract, or none.                           *)

\* Who waits, and how the last call ended, as RpcContract sees it.
PendingNow == {t \in Tasks : pc[t] # "idle"}
OutcomeNow == [t \in Tasks |-> IF pc[t] = "idle" THEN outcome[t] ELSE NoOutcome]

\* To the contract nothing has happened.
LEMMA Stutter ==
    ASSUME UNCHANGED <<calls, executed>>,
           \A u \in Tasks : /\ pc'[u] = "idle" <=> pc[u] = "idle"
                            /\ pc[u] = "idle" => outcome'[u] = outcome[u]
    PROVE  [Contract!Next]_Contract!vars
<1>1. PendingNow' = PendingNow
  BY DEF PendingNow
<1>2. OutcomeNow' = OutcomeNow
  BY DEF OutcomeNow
<1> QED BY <1>1, <1>2 DEF Contract!vars, PendingNow, OutcomeNow

\* The call of t ends.
LEMMA Ending ==
    ASSUME UNCHANGED <<calls, executed>>, NEW t \in Tasks,
           pc[t] # "idle", pc'[t] = "idle",
           NEW kind \in {"result", "raised", "bypass", "cancelled"},
           outcome'[t] = [kind |-> kind, of |-> Current(t)],
           kind \in {"result", "raised"} => Current(t) \in executed,
           \A u \in Tasks \ {t} : /\ pc'[u] = "idle" <=> pc[u] = "idle"
                                  /\ pc[u] = "idle" => outcome'[u] = outcome[u]
    PROVE  Contract!Next
<1>1. PendingNow' = PendingNow \ {t} /\ t \in PendingNow
  BY DEF PendingNow
<1>2. OutcomeNow' = [OutcomeNow EXCEPT ![t] = [kind |-> kind, of |-> Current(t)]]
  BY DEF OutcomeNow
<1>3. Contract!Current(t) = Current(t)
  BY DEF Contract!Current, Current
<1>4. Contract!Finish(t, kind)
  BY <1>1, <1>2, <1>3 DEF Contract!Finish, PendingNow, OutcomeNow
<1> QED BY <1>4 DEF Contract!Next

-----------------------------------------------------------------------------
\* What each action is shown to do.
Kept == ContractInv' /\ [Contract!Next]_Contract!vars

LEMMA PoolTypes ==
    ASSUME IInv
    PROVE  /\ pc \in [Tasks -> Holding \cup {"idle", "queued"}]
           /\ calls \in [Tasks -> Nat]
           /\ outcome \in [Tasks ->
                 [kind : {"none", "result", "raised", "bypass", "cancelled"},
                  of : CallIds \cup {<<>>}]]
           /\ conn \in [Tasks -> Conns \cup {None}]
           /\ requests \in [Conns -> Seq(CallIds)]
           /\ answers \in [Conns -> Seq(Answer)]
           /\ idle \in Seq(Conns)
           /\ MaxCalls \in Nat
BY PoolAssumption DEF IInv, TypeOK

LEMMA OneMessage ==
    ASSUME NEW S, NEW T, NEW r \in Seq(S), NEW a \in Seq(T), Len(r) + Len(a) <= 1
    PROVE  /\ a # <<>> => r = <<>>
           /\ r # <<>> => Len(r) = 1 /\ a = <<>> /\ Tail(r) = <<>>
<1>1. /\ Len(r) \in Nat /\ Len(a) \in Nat
      /\ Len(r) = 0 <=> r = <<>>
      /\ Len(a) = 0 <=> a = <<>>
  OBVIOUS
<1>2. \A m, n \in Nat : m + n <= 1 => /\ n # 0 => m = 0
                                      /\ m # 0 => m = 1 /\ n = 0
  OBVIOUS
<1>3. /\ Len(a) # 0 => Len(r) = 0
      /\ Len(r) # 0 => Len(r) = 1 /\ Len(a) = 0
  BY <1>1, <1>2, Zenon
<1>4. ASSUME r # <<>> PROVE Tail(r) \in Seq(S) /\ Len(Tail(r)) = Len(r) - 1
  BY <1>4
<1>5. ASSUME r # <<>> PROVE Tail(r) = <<>>
  <2>1. Tail(r) \in Seq(S) /\ Len(Tail(r)) = 0
    BY <1>1, <1>3, <1>4, <1>5
  <2>2. \A s \in Seq(S) : Len(s) = 0 => s = <<>>
    OBVIOUS
  <2> QED BY <2>1, <2>2, Zenon
<1> QED BY <1>1, <1>3, <1>5, Zenon

LEMMA CallKept == ASSUME IInv, ContractInv, NEW t \in Tasks, Call(t) PROVE Kept
<1>1. /\ pc[t] = "idle" /\ calls[t] < MaxCalls
      /\ calls' = [calls EXCEPT ![t] = @ + 1]
      /\ outcome' = [outcome EXCEPT ![t] = NoOutcome]
      /\ UNCHANGED <<conn, requests, answers, orphans, executed>>
      /\ \E s \in {"granted", "queued"} : pc' = [pc EXCEPT ![t] = s]
  BY DEF Call, AcquireBy, wireVars, serverVars
<1>2. Aside(t) /\ pc'[t] \in {"granted", "queued"} /\ calls'[t] = calls[t] + 1
  BY <1>1, PoolTypes DEF Aside
<1>3. Current(t)' \notin executed \cup orphans
  <2>1. Current(t)' = <<t, calls[t] + 1>>
    BY <1>2 DEF Current
  <2>2. \A q \in Begun : q[2] <= calls[q[1]]
    BY DEF Begun
  <2> QED BY <2>1, <2>2, PoolTypes DEF ContractInv
<1>4. CallPlace(t)'
  BY <1>1, <1>2, <1>3, PoolTypes DEF CallPlace
<1>5. ContractInv'
  <2>1. calls'[t] <= MaxCalls /\ calls'[t] >= calls[t] /\ calls' \in [Tasks -> Nat]
    BY <1>1, PoolTypes
  <2> QED BY <1>1, <1>2, <1>4, <2>1, AsideInv
<1>6. Contract!Begin(t)
  <2>1. t \notin PendingNow /\ PendingNow' = PendingNow \cup {t}
    BY <1>1, PoolTypes DEF PendingNow
  <2>2. OutcomeNow' = [OutcomeNow EXCEPT ![t] = NoOutcome]
    BY <1>1, PoolTypes DEF OutcomeNow
  <2> QED BY <1>1, <2>1, <2>2 DEF Contract!Begin, PendingNow, OutcomeNow,
                                  Contract!NoOutcome, NoOutcome
<1> QED BY <1>5, <1>6 DEF Kept, Contract!Next

LEMMA CallAfterCloseKept ==
    ASSUME IInv, ContractInv, NEW t \in Tasks, CallAfterClose(t) PROVE Kept
<1>1. /\ pc[t] = "idle" /\ calls[t] < MaxCalls
      /\ calls' = [calls EXCEPT ![t] = @ + 1]
      /\ outcome' = [outcome EXCEPT ![t] = [kind |-> "bypass", of |-> <<t, calls[t] + 1>>]]
      /\ UNCHANGED <<pc, conn, requests, answers, orphans, executed>>
  BY DEF CallAfterClose, wireVars, serverVars
<1>2. Aside(t) /\ pc'[t] = "idle" /\ calls'[t] = calls[t] + 1
  BY <1>1, PoolTypes DEF Aside
<1>3. CallPlace(t)'
  BY <1>2 DEF CallPlace
<1>4. ContractInv'
  <2>1. calls'[t] <= MaxCalls /\ calls'[t] >= calls[t] /\ calls' \in [Tasks -> Nat]
    BY <1>1, PoolTypes
  <2> QED BY <1>1, <1>2, <1>3, <2>1, AsideInv
<1>5. Contract!Refuse(t)
  <2>1. t \notin PendingNow /\ PendingNow' = PendingNow
    BY <1>1, PoolTypes DEF PendingNow
  <2>2. OutcomeNow' = [OutcomeNow EXCEPT ![t] =
                         [kind |-> "bypass", of |-> <<t, calls[t] + 1>>]]
    BY <1>1, PoolTypes DEF OutcomeNow
  <2> QED BY <1>1, <2>1, <2>2 DEF Contract!Refuse, PendingNow, OutcomeNow
<1> QED BY <1>4, <1>5 DEF Kept, Contract!Next

\* A call that has not been written, or whose answer it waits for, goes on.
LEMMA MoveKept ==
    ASSUME IInv, ContractInv, NEW t \in Tasks, NEW s \in Before, pc[t] \in Before,
           pc' = [pc EXCEPT ![t] = s],
           UNCHANGED <<calls, outcome, conn, executed, orphans>>,
           \A c \in Conns : c \in ToSet(idle) \/ (requests'[c] = requests[c]
                                                  /\ answers'[c] = answers[c])
    PROVE  Kept
<1>1. \A u \in Tasks : conn[u] # None => conn[u] \in Conns /\ conn[u] \notin ToSet(idle)
  BY PoolTypes DEF IInv, ExclusiveUse
<1>2. Aside(t) /\ pc'[t] = s
  BY <1>1, PoolTypes DEF Aside
<1>3. CallPlace(t)'
  BY <1>2 DEF CallPlace, ContractInv, Before, Current
<1>4. ContractInv'
  <2>1. calls'[t] <= MaxCalls /\ calls'[t] >= calls[t] /\ calls' \in [Tasks -> Nat]
    BY PoolTypes DEF ContractInv
  <2> QED BY <1>2, <1>3, <2>1, AsideInv
<1>5. [Contract!Next]_Contract!vars
  BY <1>2, Stutter, PoolTypes DEF Aside, Before
<1> QED BY <1>4, <1>5 DEF Kept

LEMMA ResumeKept ==
    ASSUME IInv, ContractInv, NEW t \in Tasks,
           ResumeEmpty(t) \/ ResumeStale(t) \/ Replaced(t)
    PROVE  Kept
<1>1. CASE ResumeEmpty(t) \/ Replaced(t)
  BY <1>1, MoveKept DEF ResumeEmpty, Replaced, Before, wireVars, serverVars
<1>2. CASE ResumeStale(t)
  <2> DEFINE c == Head(idle)
  <2>1. /\ pc[t] = "granted" /\ pc' = [pc EXCEPT ![t] = "replacing"]
        /\ requests' = [requests EXCEPT ![c] = <<>>]
        /\ answers' = [answers EXCEPT ![c] = <<>>]
        /\ orphans' = orphans \cup ToSet(requests[c])
        /\ UNCHANGED <<calls, outcome, conn, executed>> /\ idle # <<>>
    BY <1>2 DEF ResumeStale, CloseConn, serverVars
  <2>2. c \in Conns /\ c \in ToSet(idle) /\ requests[c] = <<>>
    BY <2>1, IdleHead
  <2> HIDE DEF c
  <2>3. orphans' = orphans
    BY <2>1, <2>2 DEF ToSet
  <2>4. \A d \in Conns : d \in ToSet(idle) \/ (requests'[d] = requests[d]
                                               /\ answers'[d] = answers[d])
    BY <2>1, <2>2, PoolTypes
  <2> QED BY <2>1, <2>3, <2>4, MoveKept DEF Before
<1> QED BY <1>1, <1>2

\* The request is written, if the connection is up.
LEMMA WriteKept ==
    ASSUME IInv, ContractInv, NEW t \in Tasks, NEW c \in Conns, pc[t] \in Before,
           pc' = [pc EXCEPT ![t] = "sending"],
           \A u \in Tasks : conn[u] # c,
           requests[c] = <<>>, answers[c] = <<>>,
           conn' = [conn EXCEPT ![t] = c],
           requests' \in {requests, [requests EXCEPT ![c] = <<Current(t)>>]},
           UNCHANGED <<calls, outcome, executed, orphans, answers>>
    PROVE  Kept
<1>1. Aside(t) /\ pc'[t] = "sending" /\ conn'[t] = c
  BY PoolTypes DEF Aside
<1>2. requests'[c] \in {<<>>, <<Current(t)>>} /\ answers'[c] = <<>>
  BY PoolTypes
<1>3. CallPlace(t)'
  BY <1>1, <1>2 DEF CallPlace, ContractInv, Before, Current
<1>4. ContractInv'
  <2>1. calls'[t] <= MaxCalls /\ calls'[t] >= calls[t] /\ calls' \in [Tasks -> Nat]
    BY PoolTypes DEF ContractInv
  <2> QED BY <1>1, <1>3, <2>1, AsideInv
<1>5. [Contract!Next]_Contract!vars
  BY <1>1, Stutter, PoolTypes DEF Aside, Before
<1> QED BY <1>4, <1>5 DEF Kept

LEMMA SendKept ==
    ASSUME IInv, ContractInv, NEW t \in Tasks,
           ResumeReuse(t) \/ \E c \in Conns : OpenConn(t, c)
    PROVE  Kept
<1>1. CASE ResumeReuse(t)
  <2> DEFINE c == Head(idle)
  <2>1. c \in Conns /\ requests[c] = <<>> /\ answers[c] = <<>> /\ \A u \in Tasks : conn[u] # c
    BY <1>1, IdleHead DEF ResumeReuse
  <2>2. /\ requests' = IF link[c] = "up" THEN [requests EXCEPT ![c] = Append(@, Current(t))]
                       ELSE requests
        /\ pc' = [pc EXCEPT ![t] = "sending"] /\ pc[t] = "granted"
        /\ conn' = [conn EXCEPT ![t] = c]
        /\ UNCHANGED <<calls, outcome, executed, orphans, answers>>
    BY <1>1 DEF ResumeReuse, Write, serverVars
  <2> HIDE DEF c
  <2>3. Append(requests[c], Current(t)) = <<Current(t)>>
    <3>1. \A x : Append(<<>>, x) = <<x>>
      OBVIOUS
    <3> QED BY <2>1, <3>1, Zenon
  <2>4. requests' \in {requests, [requests EXCEPT ![c] = <<Current(t)>>]}
    BY <2>1, <2>2, <2>3, PoolTypes
  <2> QED BY <2>1, <2>2, <2>4, WriteKept DEF Before
<1>2. CASE \E c \in Conns : OpenConn(t, c)
  <2>1. PICK c \in Conns : OpenConn(t, c)
    BY <1>2
  <2>2. link[c] = "none"
    BY <2>1 DEF OpenConn
  <2>3. requests[c] = <<>> /\ answers[c] = <<>> /\ \A u \in Tasks : conn[u] # c
    BY <2>2, PoolAssumption DEF IInv, WireDiscipline, OpenOwned
  <2> QED BY <2>1, <2>3, WriteKept DEF OpenConn, Before, serverVars
<1> QED BY <1>1, <1>2

LEMMA DrainedKept == ASSUME IInv, ContractInv, NEW t \in Tasks, Drained(t) PROVE Kept
<1>1. /\ pc[t] = "sending" /\ pc' = [pc EXCEPT ![t] = "reading"]
      /\ UNCHANGED <<calls, outcome, conn, requests, answers, orphans, executed>>
  BY DEF Drained, wireVars, serverVars
<1>2. Aside(t) /\ pc'[t] = "reading"
  BY <1>1, PoolTypes DEF Aside
<1>3. CallPlace(t)'
  BY <1>1, <1>2 DEF CallPlace, ContractInv, Current
<1>4. ContractInv'
  <2>1. calls'[t] <= MaxCalls /\ calls'[t] >= calls[t] /\ calls' \in [Tasks -> Nat]
    BY <1>1, PoolTypes DEF ContractInv
  <2> QED BY <1>1, <1>2, <1>3, <2>1, AsideInv
<1>5. [Contract!Next]_Contract!vars
  BY <1>1, <1>2, Stutter, PoolTypes
<1> QED BY <1>4, <1>5 DEF Kept

\* A call ends whose outcome is settled.
LEMMA EndKept ==
    ASSUME IInv, ContractInv, NEW t \in Tasks, Aside(t),
           pc[t] # "idle", pc'[t] = "idle", UNCHANGED calls,
           orphans' # orphans => Current(t) \notin executed,
           NEW kind \in {"result", "raised", "bypass", "cancelled"},
           outcome'[t] = [kind |-> kind, of |-> Current(t)],
           kind \in {"result", "raised"} => Current(t) \in executed
    PROVE  Kept
<1>1. CallPlace(t)' /\ calls[t] # 0
  BY DEF CallPlace, ContractInv
<1>2. ContractInv'
  <2>1. calls'[t] <= MaxCalls /\ calls'[t] >= calls[t] /\ calls' \in [Tasks -> Nat]
    BY PoolTypes DEF ContractInv
  <2> QED BY <1>1, <2>1, AsideInv
<1>3. \A u \in Tasks \ {t} : /\ pc'[u] = "idle" <=> pc[u] = "idle"
                             /\ pc[u] = "idle" => outcome'[u] = outcome[u]
  BY DEF Aside
<1>4. Contract!Next
  BY <1>3, Ending DEF Aside
<1> QED BY <1>2, <1>4 DEF Kept

\* The outcome is settled; the connection is still to be closed.
LEMMA DiscardKept ==
    ASSUME IInv, ContractInv, NEW t \in Tasks, t \in InUse, Discard(t),
           UNCHANGED <<calls, executed>>,
           NEW kind \in {"result", "raised", "bypass", "cancelled"},
           outcome' = [outcome EXCEPT ![t] = [kind |-> kind, of |-> Current(t)]],
           kind \in {"result", "raised"} => Current(t) \in executed
    PROVE  Kept
<1>1. \A u \in Tasks \ {t} : outcome'[u] = outcome[u]
  BY PoolTypes
<1>2. /\ Aside(t) /\ pc'[t] = "discarding"
      /\ orphans' # orphans => Current(t) \notin executed
  BY <1>1, DiscardAside
<1>3. outcome'[t] = [kind |-> kind, of |-> Current(t)] /\ calls[t] # 0
  BY PoolTypes DEF ContractInv, CallPlace, InUse
<1>4. CallPlace(t)'
  BY <1>2, <1>3 DEF CallPlace, Current
<1>5. ContractInv'
  <2>1. calls'[t] <= MaxCalls /\ calls'[t] >= calls[t] /\ calls' \in [Tasks -> Nat]
    BY PoolTypes DEF ContractInv
  <2> QED BY <1>2, <1>3, <1>4, <2>1, AsideInv
<1>6. [Contract!Next]_Contract!vars
  BY <1>1, <1>2, Stutter DEF Aside, InUse
<1> QED BY <1>5, <1>6 DEF Kept

LEMMA ReadKept ==
    ASSUME IInv, ContractInv, NEW t \in Tasks,
           ReadResult(t) \/ ReadError(t) \/ ReadEof(t)
    PROVE  Kept
<1> DEFINE c == conn[t]
<1>0. pc[t] = "reading" /\ t \in InUse /\ UNCHANGED <<calls, executed>>
  BY DEF ReadResult, ReadError, ReadEof, InUse, serverVars
<1>1. c \in Conns /\ c # None /\ \A u \in Tasks : conn[u] = c => u = t
  BY <1>0, UsedConn
<1>2. ASSUME answers[c] # <<>>
      PROVE  /\ Head(answers[c]).call = Current(t) /\ Current(t) \in executed
             /\ requests[c] = <<>>
  <2>1. answers[c] \in Seq(Answer) /\ requests[c] \in Seq(CallIds)
    BY <1>1, PoolTypes
  <2>2. 1 \in DOMAIN answers[c] /\ Head(answers[c]) = answers[c][1]
    BY <1>2, <2>1
  <2>3. Len(requests[c]) + Len(answers[c]) <= 1
    BY <1>1 DEF IInv, WireDiscipline
  <2>4. requests[c] = <<>>
    BY <1>2, <2>1, <2>3, OneMessage
  <2> QED BY <1>0, <2>2, <2>4 DEF ContractInv, CallPlace
<1>3. CASE ReadError(t)
  BY <1>0, <1>2, <1>3, DiscardKept DEF ReadError
<1>4. CASE ReadEof(t)
  BY <1>0, <1>4, DiscardKept DEF ReadEof, Ends
<1>5. CASE ReadResult(t) /\ ~(Len(idle) < MaxConnections)
  <2>1. Discard(t)
    BY <1>5 DEF ReadResult, Discard
  <2>2. outcome' = [outcome EXCEPT ![t] = [kind |-> "result", of |-> Current(t)]]
    BY <1>2, <1>5 DEF ReadResult
  <2> QED BY <1>0, <1>2, <1>5, <2>1, <2>2, DiscardKept DEF ReadResult
<1>6. CASE ReadResult(t) /\ Len(idle) < MaxConnections
  <2>1. /\ outcome' = [outcome EXCEPT ![t] = [kind |-> "result", of |-> Current(t)]]
        /\ conn' = [conn EXCEPT ![t] = None]
        /\ answers' = [answers EXCEPT ![c] = Tail(@)]
        /\ ReleaseBy(t) /\ UNCHANGED <<link, requests, orphans>>
    BY <1>2, <1>6 DEF ReadResult
  <2> HIDE DEF c
  <2>2. waiters # <<>> => pc[Head(waiters)] = "queued"
    BY DEF IInv, TypeOK, PermitConservation, ToSet
  <2>3. \A u \in Tasks : pc'[u] = IF u = t THEN "idle"
                                  ELSE IF waiters # <<>> /\ u = Head(waiters) THEN "granted"
                                  ELSE pc[u]
    BY <2>1 DEF ReleaseBy
  <2>4. \A u \in Tasks \ {t} :
           /\ conn'[u] = conn[u] /\ outcome'[u] = outcome[u]
           /\ conn[u] # None => answers'[conn[u]] = answers[conn[u]]
    BY <1>1, <2>1, PoolTypes
  <2>5. Aside(t) /\ pc'[t] = "idle"
    BY <1>0, <2>1, <2>2, <2>3, <2>4 DEF Aside
  <2>6. outcome'[t] = [kind |-> "result", of |-> Current(t)] /\ Current(t) \in executed
    BY <1>2, <1>6, <2>1, PoolTypes DEF ReadResult, c
  <2> QED BY <1>0, <2>1, <2>5, <2>6, EndKept
<1> QED BY <1>3, <1>4, <1>5, <1>6

\* The permit is given back and the call ends with this outcome.
LEMMA ReleaseKept ==
    ASSUME IInv, ContractInv, NEW t \in Tasks, pc[t] \in Holding, ReleaseBy(t),
           UNCHANGED <<calls, conn, wireVars, executed>>,
           NEW kind \in {"result", "raised", "bypass", "cancelled"},
           outcome'[t] = [kind |-> kind, of |-> Current(t)],
           \A u \in Tasks \ {t} : outcome'[u] = outcome[u],
           kind \in {"result", "raised"} => Current(t) \in executed
    PROVE  Kept
<1>1. pc[t] # "queued" /\ pc[t] # "idle"
  BY DEF Holding
<1>2. Aside(t) /\ pc'[t] = "idle"
  BY <1>1, ReleaseAside
<1> QED BY <1>1, <1>2, EndKept DEF wireVars

LEMMA LeaveKept ==
    ASSUME IInv, ContractInv, NEW t \in Tasks, NEW kind \in {"bypass", "cancelled"},
           NEW states \in SUBSET Holding, LeaveWithPermit(t, kind, states)
    PROVE  Kept
<1>1. /\ outcome'[t] = [kind |-> kind, of |-> Current(t)]
      /\ \A u \in Tasks \ {t} : outcome'[u] = outcome[u]
  BY PoolTypes DEF LeaveWithPermit, Ends
<1> QED BY <1>1, ReleaseKept DEF LeaveWithPermit, serverVars

LEMMA RefusedKept ==
    ASSUME IInv, ContractInv, NEW t \in Tasks, OpenRefused(t) \/ Discarded(t) PROVE Kept
<1>1. CASE OpenRefused(t)
  <2>1. /\ outcome'[t] = [kind |-> "bypass", of |-> Current(t)]
        /\ \A u \in Tasks \ {t} : outcome'[u] = outcome[u]
    BY <1>1, PoolTypes DEF OpenRefused, Ends
  <2> QED BY <1>1, <2>1, ReleaseKept DEF OpenRefused, Holding, serverVars
<1>2. CASE Discarded(t)
  <2>1. /\ pc[t] = "discarding" /\ ReleaseBy(t)
        /\ UNCHANGED <<calls, outcome, conn, wireVars, executed>>
    BY <1>2 DEF Discarded, serverVars
  <2>2. /\ outcome[t].kind # "none" /\ outcome[t].of = Current(t)
        /\ outcome[t].kind \in {"result", "raised"} => Current(t) \in executed
    BY <2>1 DEF ContractInv, CallPlace
  <2>3. /\ outcome[t].kind \in {"result", "raised", "bypass", "cancelled"}
        /\ outcome[t] = [kind |-> outcome[t].kind, of |-> outcome[t].of]
    BY <2>2, PoolTypes
  <2> QED BY <2>1, <2>2, <2>3, ReleaseKept DEF Holding
<1> QED BY <1>1, <1>2

LEMMA LeaveQueueKept ==
    ASSUME IInv, ContractInv, NEW t \in Tasks, NEW kind \in {"bypass", "cancelled"},
           LeaveQueue(t, kind)
    PROVE  Kept
<1>1. /\ pc[t] = "queued" /\ pc' = [pc EXCEPT ![t] = "idle"]
      /\ outcome' = [outcome EXCEPT ![t] = [kind |-> kind, of |-> Current(t)]]
      /\ UNCHANGED <<calls, conn, requests, answers, orphans, executed>>
  BY DEF LeaveQueue, Ends, wireVars, serverVars
<1>2. Aside(t) /\ pc'[t] = "idle" /\ outcome'[t] = [kind |-> kind, of |-> Current(t)]
  BY <1>1, PoolTypes DEF Aside
<1> QED BY <1>1, <1>2, EndKept

LEMMA GiveUpKept ==
    ASSUME IInv, ContractInv, NEW t \in Tasks, Timeout(t) \/ Cancel(t) PROVE Kept
<1>1. ASSUME NEW kind \in {"bypass", "cancelled"}, LeaveQueue(t, kind) PROVE Kept
  BY <1>1, LeaveQueueKept
<1>2. ASSUME NEW kind \in {"bypass", "cancelled"}, NEW states \in SUBSET Holding,
             LeaveWithPermit(t, kind, states)
      PROVE  Kept
  BY <1>2, LeaveKept
<1>3. ASSUME NEW kind \in {"bypass", "cancelled"}, NEW states \in SUBSET {"sending", "reading"},
             LeaveWithConn(t, kind, states)
      PROVE  Kept
  BY <1>3, DiscardKept DEF LeaveWithConn, Ends, InUse, serverVars
<1>4. /\ {"granted", "opening"} \in SUBSET Holding
      /\ {"granted", "replacing", "opening", "discarding"} \in SUBSET Holding
      /\ {"reading"} \in SUBSET {"sending", "reading"}
      /\ {"sending", "reading"} \in SUBSET {"sending", "reading"}
  BY DEF Holding
<1>5. CASE Timeout(t)
  BY <1>1, <1>2, <1>3, <1>4, <1>5 DEF Timeout
<1>6. CASE Cancel(t)
  BY <1>1, <1>2, <1>3, <1>4, <1>6 DEF Cancel
<1> QED BY <1>5, <1>6

-----------------------------------------------------------------------------
(* Steps of no task.                                                       *)

\* The service runs nothing: messages may only disappear.
LEMMA LossKept ==
    ASSUME IInv, ContractInv, UNCHANGED <<pc, calls, outcome, conn, executed>>,
           orphans' \subseteq orphans,
           \A c \in Conns : c \in ToSet(idle) \/
              /\ requests'[c] \in {requests[c], <<>>}
              /\ answers'[c] \in {answers[c], <<>>}
    PROVE  Kept
<1>1. ASSUME NEW u \in Tasks PROVE CallPlace(u)'
  <2>1. CallPlace(u) /\ Current(u)' = Current(u)
    BY DEF ContractInv, Current
  <2>2. pc[u] \in {"sending", "reading"} => conn[u] \in Conns /\ conn[u] \notin ToSet(idle)
    BY UsedConn DEF InUse
  <2>3. conn[u] \in Conns /\ conn[u] \notin ToSet(idle)
        => /\ requests'[conn[u]] \in {requests[conn[u]], <<>>}
           /\ answers'[conn[u]] \in {answers[conn[u]], <<>>}
    OBVIOUS
  <2> QED BY <2>1, <2>2, <2>3 DEF CallPlace
<1>2. ContractInv'
  BY <1>1 DEF ContractInv, Begun
<1>3. [Contract!Next]_Contract!vars
  BY Stutter
<1> QED BY <1>2, <1>3 DEF Kept

LEMMA ClosingKept == ASSUME IInv, ContractInv, Closing PROVE Kept
<1>1. CASE CloseNext
  <2> DEFINE c == Head(idle)
  <2>1. /\ requests' = [requests EXCEPT ![c] = <<>>]
        /\ answers' = [answers EXCEPT ![c] = <<>>]
        /\ orphans' = orphans \cup ToSet(requests[c])
        /\ UNCHANGED <<pc, calls, outcome, conn, executed>> /\ idle # <<>>
    BY <1>1 DEF CloseNext, CloseConn, serverVars
  <2>2. c \in Conns /\ requests[c] = <<>>
    BY <2>1, IdleHead
  <2> HIDE DEF c
  <2>3. orphans' = orphans
    BY <2>1, <2>2 DEF ToSet
  <2> QED BY <2>1, <2>2, <2>3, LossKept, PoolTypes
<1>2. CASE CloseBegin \/ CloseEnd
  BY <1>2, LossKept DEF CloseBegin, CloseEnd, wireVars, serverVars
<1> QED BY <1>1, <1>2 DEF Closing

\* The service runs one call that it has not run before.
LEMMA ExecuteKept ==
    ASSUME NEW q \in Begun, q \notin executed, executed' = executed \cup {q},
           ContractInv, IInv, UNCHANGED <<pc, calls, outcome>>
    PROVE  Contract!Next
<1>1. q = <<q[1], q[2]>> /\ q[1] \in Tasks /\ q[2] \in Nat /\ q[2] # 0 /\ q[2] <= calls[q[1]]
  BY DEF Begun, CallIds
<1>2. calls[q[1]] \in Nat /\ calls[q[1]] <= MaxCalls /\ MaxCalls \in Nat
  BY <1>1, PoolTypes DEF ContractInv
<1>3. q[2] \in 1 .. calls[q[1]] /\ q[2] \in 1 .. MaxCalls
  BY <1>1, <1>2
<1>4. PendingNow' = PendingNow /\ OutcomeNow' = OutcomeNow
  BY DEF PendingNow, OutcomeNow
<1>5. Contract!Execute(q[1], q[2])
  BY <1>1, <1>3, <1>4 DEF Contract!Execute, PendingNow, OutcomeNow
<1> QED BY <1>1, <1>3, <1>5 DEF Contract!Next

LEMMA ServeOrphanKept ==
    ASSUME IInv, ContractInv, NEW q \in orphans, ServeOrphan(q) PROVE Kept
<1>1. /\ orphans' = orphans \ {q} /\ executed' = executed \cup {q}
      /\ UNCHANGED <<pc, calls, outcome, conn, requests, answers>>
  BY DEF ServeOrphan, poolVars
<1>2. q \in Begun /\ q \notin executed
  BY DEF ContractInv
<1>3. ASSUME NEW u \in Tasks PROVE CallPlace(u)'
  <2>1. CallPlace(u) /\ Current(u)' = Current(u)
    BY <1>1 DEF ContractInv, Current
  <2>2. Current(u) = q => pc[u] \notin {"queued", "granted", "replacing", "opening",
                                        "sending", "reading"}
    BY <2>1 DEF CallPlace
  <2> QED BY <1>1, <2>1, <2>2 DEF CallPlace
<1>4. ContractInv'
  BY <1>1, <1>3 DEF ContractInv, Begun
<1> QED BY <1>1, <1>2, <1>4, ExecuteKept DEF Kept

LEMMA ServeKept ==
    ASSUME IInv, ContractInv, NEW c \in Conns, NEW kind \in {"result", "error"},
           Serve(c, kind)
    PROVE  Kept
<1> DEFINE q == Head(requests[c])
<1>1. /\ requests[c] # <<>>
      /\ requests' = [requests EXCEPT ![c] = Tail(@)]
      /\ executed' = executed \cup {q}
      /\ answers' = [answers EXCEPT ![c] = Append(@, [call |-> q, kind |-> kind])]
      /\ UNCHANGED <<pc, calls, outcome, conn, idle, orphans>>
  BY DEF Serve, poolVars
<1>2. requests[c] \in Seq(CallIds) /\ answers[c] \in Seq(Answer)
  BY PoolTypes
<1>3. Len(requests[c]) = 1 /\ answers[c] = <<>> /\ Tail(requests[c]) = <<>>
  <2>1. Len(requests[c]) + Len(answers[c]) <= 1
    BY DEF IInv, WireDiscipline
  <2> QED BY <1>1, <1>2, <2>1, OneMessage
<1>4. PICK t \in Tasks : conn[t] = c
  BY <1>1 DEF IInv, CleanIdle, OpenOwned, WireDiscipline
<1>5. t \in InUse /\ \A u \in Tasks : conn[u] = c => u = t
  BY <1>4, PoolAssumption DEF IInv, OpenOwned, ExclusiveUse
<1>6. q = Current(t) /\ Current(t) \notin executed /\ Current(t) \notin orphans
  <2>1. 1 \in DOMAIN requests[c] /\ q = requests[c][1]
    BY <1>2, <1>3
  <2> QED BY <1>4, <1>5, <2>1 DEF ContractInv, CallPlace, InUse
<1>7. requests'[c] = <<>> /\ answers'[c] = <<[call |-> q, kind |-> kind]>>
  <2>2. \A x : Append(<<>>, x) = <<x>>
    OBVIOUS
  <2>3. requests'[c] = Tail(requests[c])
        /\ answers'[c] = Append(answers[c], [call |-> q, kind |-> kind])
    BY <1>1, PoolTypes
  <2> QED BY <1>3, <2>2, <2>3, Zenon
<1> HIDE DEF q
<1>8. q \in Begun
  <2>1. calls[t] \in Nat /\ calls[t] # 0
    BY <1>5, PoolTypes DEF ContractInv, CallPlace, InUse
  <2> QED BY <1>6, <2>1 DEF Begun, CallIds, Current
<1>9. CallPlace(t)'
  BY <1>1, <1>4, <1>5, <1>6, <1>7 DEF CallPlace, ContractInv, InUse, Current
<1>10. ASSUME NEW u \in Tasks, u # t PROVE CallPlace(u)'
  <2>1. CallPlace(u) /\ Current(u)' = Current(u) /\ Current(u) # q
    BY <1>1, <1>6, <1>10 DEF ContractInv, Current
  <2>2. pc[u] \in {"sending", "reading"} => conn[u] \in Conns /\ conn[u] # c
    BY <1>5, UsedConn, <1>10 DEF InUse
  <2>3. conn[u] \in Conns /\ conn[u] # c => /\ requests'[conn[u]] = requests[conn[u]]
                                            /\ answers'[conn[u]] = answers[conn[u]]
    BY <1>1, PoolTypes
  <2> QED BY <1>1, <2>1, <2>2, <2>3 DEF CallPlace
<1>11. ContractInv'
  <2>1. \A u \in Tasks : CallPlace(u)'
    BY <1>9, <1>10
  <2>2. q \notin orphans
    BY <1>6
  <2> QED BY <1>1, <1>8, <2>1, <2>2 DEF ContractInv, Begun
<1> QED BY <1>1, <1>6, <1>8, <1>11, ExecuteKept DEF Kept

LEMMA ServerKept == ASSUME IInv, ContractInv, ServerStep \/ ServerFault PROVE Kept
<1>1. CASE ServerStep
  BY <1>1, ServeKept, ServeOrphanKept DEF ServerStep
<1>2. ASSUME NEW c \in Conns, ServerDrops(c) PROVE Kept
  BY <1>2, LossKept, PoolTypes DEF ServerDrops, serverVars
<1>3. ASSUME NEW resets \in SUBSET {c \in Conns : link[c] = "up"}, Crash(resets) PROVE Kept
  BY <1>3, LossKept, PoolTypes DEF Crash
<1>4. CASE Restart \/ Hang \/ Recover
  BY <1>4, LossKept DEF Restart, Hang, Recover, wireVars
<1> QED BY <1>1, <1>2, <1>3, <1>4 DEF ServerFault

LEMMA NextKept == ASSUME IInv, ContractInv, [Next]_vars PROVE Kept
<1>1. CASE UNCHANGED vars
  BY <1>1, LossKept DEF vars, wireVars, serverVars
<1>2. ASSUME NEW t \in Tasks, TaskStep(t) PROVE Kept
  BY <1>2, ResumeKept, SendKept, DrainedKept, ReadKept, RefusedKept DEF TaskStep
<1> QED BY <1>1, <1>2, CallKept, CallAfterCloseKept, GiveUpKept, ClosingKept, ServerKept
        DEF Next

LEMMA InitKept == Init => ContractInv /\ Contract!Init
<1> SUFFICES ASSUME Init PROVE ContractInv /\ Contract!Init
  OBVIOUS
<1>1. ContractInv
  BY PoolAssumption DEF Init, ContractInv, CallPlace, Begun
<1>2. PendingNow = {} /\ OutcomeNow = [t \in Tasks |-> NoOutcome]
  BY DEF Init, PendingNow, OutcomeNow
<1>3. Contract!Init
  BY <1>2 DEF Init, Contract!Init, PendingNow, OutcomeNow, Contract!NoOutcome, NoOutcome
<1> QED BY <1>1, <1>3

\* The pool implements RpcContract: whatever the connections, the permits, the
\* timeouts and the server do, a call is executed at most once and its caller is
\* given the result or the error of that call and of no other.
THEOREM PoolImplementsContract == Spec => ImplementsContract
<1>1. Init => ContractInv /\ Contract!Init
  BY InitKept
<1>2. IInv /\ ContractInv /\ [Next]_vars => ContractInv' /\ [Contract!Next]_Contract!vars
  BY NextKept DEF Kept
<1> QED BY <1>1, <1>2, PoolInvariant, PTL DEF Spec, ImplementsContract, Contract!Spec
=============================================================================
