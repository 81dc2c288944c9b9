----------------------------- MODULE HealthProofs -----------------------------
(***************************************************************************)
(* Proofs about ModelClassifier and Health, for any number of threads,     *)
(* reloads and probes: a model is built once per generation, no call is    *)
(* answered by a model that was replaced before it came, is_available      *)
(* tells the truth when nobody is loading, and what the health endpoint    *)
(* reports of Redis and of the classifier was so during its request.       *)
(***************************************************************************)
EXTENDS Health, TLAPS

Places == Resting \cup Inside \cup
          {"checking", "consulting", "locking", "reloading", "scoring", "running"}

\* What a router is; NoRouter is none.
LEMMA RouterFacts ==
    /\ NoRouter \notin Routers
    /\ \A c \in Epochs, e \in Epochs :
          /\ [config |-> c, epoch |-> e] \in Routers
          /\ [config |-> c, epoch |-> e] # NoRouter
    /\ 0 \in Epochs
BY ClassifierAssumption DEF NoRouter, Routers, Epochs

\* At first nothing is loaded.
LEMMA ClassifierInit == Init => IInv
<1> SUFFICES ASSUME Init PROVE IInv
  OBVIOUS
<1>1. TypeOK
  BY RouterFacts DEF Init, TypeOK, Resting
<1>2. LockInv
  BY ClassifierAssumption DEF Init, LockInv, Inside
<1>3. Coherent /\ finished = reloads
  BY DEF Init, Coherent
<1>4. ASSUME NEW t \in Threads PROVE Versions(t)
  <2>1. since[t] = 0 /\ pc[t] = "idle" /\ finished = 0
    BY DEF Init
  <2> QED BY <2>1 DEF Versions
<1>5. \A t \in Threads : lock # t
  BY ClassifierAssumption DEF Init
<1> QED BY <1>1, <1>2, <1>3, <1>4, <1>5 DEF IInv, Init

\* A step that leaves the attributes and the lock alone, and moves one thread
\* from outside of the lock to outside of it.
LEMMA Outside ==
    ASSUME IInv, NEW t \in Threads, NEW place \in Places \ Inside,
           Goto(t, place), pc[t] \notin Inside,
           UNCHANGED <<attributes, lock, loads, reloads, finished>>,
           since' \in [Threads -> Epochs], held' \in [Threads -> Routers \cup {NoRouter}],
           label' \in [Threads -> Epochs],
           \A u \in Threads \ {t} : since'[u] = since[u] /\ held'[u] = held[u],
           Versions(t)'
    PROVE  IInv'
<1>0. TypeOK /\ LockInv
  BY DEF IInv
<1>1. pc' = [pc EXCEPT ![t] = place] /\ pc'[t] = place
      /\ \A u \in Threads \ {t} : pc'[u] = pc[u]
  BY <1>0 DEF Goto, TypeOK
<1>2. TypeOK'
  BY <1>0, <1>1 DEF TypeOK, attributes, Places
<1>3. LockInv'
  BY <1>0, <1>1 DEF LockInv
<1>4. lock' = None => Coherent' /\ finished' = reloads'
  BY DEF IInv, Coherent, attributes
<1>5. ASSUME NEW u \in Threads PROVE (lock' = u => AtWork(u)') /\ Versions(u)'
  <2>1. CASE u = t
    <3>1. lock # t
      BY <1>0 DEF LockInv
    <3> QED BY <2>1, <3>1
  <2>2. CASE u # t
    BY <1>1, <2>2 DEF IInv, AtWork, Versions, attributes, Reloading
  <2> QED BY <2>1, <2>2
<1>6. finished' <= reloads' /\ (router' # NoRouter => router'.epoch >= finished')
  BY DEF IInv, attributes
<1> QED BY <1>2, <1>3, <1>4, <1>5, <1>6 DEF IInv

\* A step of the thread that has the lock and keeps it.
LEMMA Within ==
    ASSUME IInv, NEW t \in Threads, NEW place \in Inside, Goto(t, place), lock = t,
           lock' = t, TypeOK', AtWork(t)', UNCHANGED <<held, label, finished, since, reloads>>,
           router' # NoRouter => router'.epoch >= finished
    PROVE  IInv'
<1>0. TypeOK /\ LockInv
  BY DEF IInv
<1>1. pc'[t] = place /\ \A u \in Threads \ {t} : pc'[u] = pc[u]
  BY <1>0 DEF Goto, TypeOK
<1>2. LockInv'
  BY <1>0, <1>1 DEF LockInv
<1>3. lock' # None
  BY ClassifierAssumption
<1>4. ASSUME NEW u \in Threads PROVE (lock' = u => AtWork(u)') /\ Versions(u)'
  <2>1. pc[t] \in Inside
    BY <1>0 DEF LockInv
  <2>2. Versions(u)'
    BY <1>1, <2>1 DEF IInv, Versions, Inside
  <2> QED BY <2>2
<1> QED BY <1>2, <1>3, <1>4 DEF IInv

\* A step that gives the lock back.
LEMMA Leaving ==
    ASSUME IInv, NEW t \in Threads, NEW place \in {"idle", "scoring", "raised"},
           Leave(t, place), lock = t, Coherent',
           loaded' \in BOOLEAN, error' \in BOOLEAN,
           router' \in {router, NoRouter},
           router' # NoRouter => router'.epoch = reloads
    PROVE  IInv'
<1>0. TypeOK /\ LockInv
  BY DEF IInv
<1>1. pc'[t] = place /\ \A u \in Threads \ {t} : pc'[u] = pc[u]
  BY <1>0 DEF Goto, TypeOK, Leave
<1>2. TypeOK'
  BY <1>0 DEF TypeOK, Leave, Goto, Resting
<1>3. LockInv'
  BY <1>0, <1>1, ClassifierAssumption DEF LockInv, Leave, Inside
<1>4. ASSUME NEW u \in Threads PROVE Versions(u)'
  BY <1>0, <1>1 DEF IInv, Versions, Leave, TypeOK, Epochs
<1>5. \A u \in Threads : lock' # u
  BY ClassifierAssumption DEF Leave
<1>6. finished' <= reloads' /\ finished' = reloads'
  BY <1>0 DEF Leave, TypeOK, Epochs
<1>7. router' # NoRouter => router'.epoch >= finished'
  BY <1>0 DEF Leave, TypeOK, Epochs
<1> QED BY <1>2, <1>3, <1>4, <1>5, <1>6, <1>7 DEF IInv, Leave

-----------------------------------------------------------------------------
\* The steps of a call outside of the lock.
LEMMA CallKeeps ==
    ASSUME IInv, NEW t \in Threads,
           \/ Call(t) \/ Reload(t) \/ Check(t) \/ Consult(t) \/ Answer(t)
    PROVE  IInv'
<1>0. TypeOK /\ Versions(t) /\ finished <= reloads
  BY DEF IInv
<1>1. CASE Call(t)
  <2>1. since' \in [Threads -> Epochs] /\ held' \in [Threads -> Routers \cup {NoRouter}]
        /\ label' \in [Threads -> Epochs]
    BY <1>0, <1>1, RouterFacts DEF Call, TypeOK
  <2>2. Versions(t)'
    BY <1>0, <1>1 DEF Call, Goto, TypeOK, Versions, Epochs
  <2> QED BY <1>0, <1>1, <2>1, <2>2, Outside DEF Call, Places, Resting, Inside, TypeOK
<1>2. CASE Reload(t)
  <2>1. Versions(t)'
    BY <1>0, <1>2 DEF Reload, Goto, TypeOK, Versions, history
  <2> QED BY <1>0, <1>2, <2>1, Outside DEF Reload, Places, Resting, Inside, TypeOK, history
<1>3. CASE Check(t)
  <2>1. PICK place \in {"consulting", "locking"} : Goto(t, place)
    BY <1>3 DEF Check
  <2>2. Versions(t)'
    BY <1>0, <1>3, <2>1 DEF Check, Goto, TypeOK, Versions, history
  <2> QED BY <1>0, <1>3, <2>1, <2>2, Outside DEF Check, Places, Inside, TypeOK, history
<1>4. CASE Consult(t)
  <2>1. PICK place \in {"raised", "scoring"} : Goto(t, place)
    BY <1>4 DEF Consult
  <2>2. Versions(t)'
    BY <1>0, <1>4, <2>1 DEF Consult, Goto, TypeOK, Versions, history
  <2> QED BY <1>0, <1>4, <2>1, <2>2, Outside
          DEF Consult, Places, Resting, Inside, TypeOK, history
<1>5. CASE Answer(t)
  <2>1. PICK place \in {"expired", "answered"} : Goto(t, place)
    BY <1>5 DEF Answer
  <2>2. Versions(t)'
    BY <1>0, <1>5, <2>1 DEF Answer, Goto, TypeOK, Versions, history
  <2>3. label' \in [Threads -> Epochs]
    BY <1>0, <1>5 DEF Answer, TypeOK
  <2> QED BY <1>0, <1>5, <2>1, <2>2, <2>3, Outside
          DEF Answer, Places, Resting, Inside, TypeOK, history
<1> QED BY <1>1, <1>2, <1>3, <1>4, <1>5

\* A call reads the router it is scored by: one that is no older than the last
\* reload that was over when the call came.
LEMMA ScoreKeeps ==
    ASSUME IInv, NEW t \in Threads, Score(t)
    PROVE  IInv'
<1>0. TypeOK /\ Versions(t) /\ finished <= reloads
      /\ (router # NoRouter => router.epoch >= finished)
  BY DEF IInv
<1>1. PICK place \in {"crashed", "running"} :
         Goto(t, place) /\ (place = "running" => router # NoRouter)
  BY DEF Score
<1>2. held' \in [Threads -> Routers \cup {NoRouter}] /\ held'[t] = router
  BY <1>0 DEF Score, TypeOK
<1>3. router # NoRouter => router.epoch \in Nat
  BY <1>0, RouterFacts DEF TypeOK, Routers, Epochs
<1>4. since[t] \in Nat /\ finished \in Nat /\ since[t] <= finished
  BY <1>0 DEF TypeOK, Versions, Epochs
<1>5. Versions(t)'
  BY <1>0, <1>1, <1>2, <1>3, <1>4 DEF Score, Goto, TypeOK, Versions, history
<1> QED BY <1>0, <1>1, <1>2, <1>5, Outside
        DEF Score, Places, Resting, Inside, TypeOK, history

\* Whoever gets the lock looks again, and loads only what nobody has loaded.
LEMMA AcquireKeeps ==
    ASSUME IInv, NEW t \in Threads, Acquire(t)
    PROVE  IInv'
<1>0. TypeOK /\ LockInv /\ Coherent /\ finished = reloads /\ Versions(t)
  BY DEF IInv, Acquire
<1>1. CASE loaded
  <2>1. PICK place \in {"raised", "scoring"} : Goto(t, place)
    BY <1>1 DEF Acquire
  <2>2. Versions(t)'
    BY <1>0, <1>1, <2>1 DEF Acquire, Goto, TypeOK, Versions
  <2> QED BY <1>0, <1>1, <2>1, <2>2, Outside
          DEF Acquire, Places, Resting, Inside, TypeOK
<1>2. CASE ~ loaded
  <2>1. lock' = t /\ loads' = loads + 1 /\ Goto(t, "loading")
        /\ UNCHANGED <<attributes, held, label, reloads, finished, since>>
    BY <1>2 DEF Acquire
  <2>2. pc' = [pc EXCEPT ![t] = "loading"] /\ \A u \in Threads : pc[u] \notin Inside
    BY <1>0, <2>1, ClassifierAssumption DEF Goto, LockInv, Acquire
  <2>3. pc'[t] = "loading" /\ \A u \in Threads \ {t} : pc'[u] = pc[u]
    BY <1>0, <2>2 DEF TypeOK
  <2>4. TypeOK'
    BY <1>0, <2>1, <2>2 DEF TypeOK, attributes, Inside
  <2>5. LockInv'
    BY <2>1, <2>2, <2>3 DEF LockInv, Inside
  <2>6. AtWork(t)'
    BY <1>0, <1>2, <2>1, <2>3 DEF AtWork, Coherent, attributes, TypeOK, Epochs
  <2>7. ASSUME NEW u \in Threads PROVE Versions(u)'
    BY <2>1, <2>3 DEF IInv, Versions
  <2>8. lock' # None
    BY <2>1, ClassifierAssumption
  <2> QED BY <1>0, <2>1, <2>4, <2>5, <2>6, <2>7, <2>8 DEF IInv, attributes
<1> QED BY <1>1, <1>2

-----------------------------------------------------------------------------
(* The steps under the lock.                                               *)

\* A reload begins when all is coherent, so one model per generation so far.
LEMMA BeginReloadKeeps ==
    ASSUME IInv, NEW t \in Threads, BeginReload(t)
    PROVE  IInv'
<1>0. TypeOK /\ LockInv /\ Coherent /\ finished = reloads
  BY DEF IInv, BeginReload
<1>1. pc' = [pc EXCEPT ![t] = "clearing"] /\ \A u \in Threads : pc[u] \notin Inside
  BY <1>0, ClassifierAssumption DEF BeginReload, Goto, LockInv
<1>2. pc'[t] = "clearing" /\ \A u \in Threads \ {t} : pc'[u] = pc[u]
  BY <1>0, <1>1 DEF TypeOK
<1>3. reloads' = reloads + 1 /\ reloads' \in Epochs
  BY <1>0, ClassifierAssumption DEF BeginReload, TypeOK, Epochs
<1>4. config' \in Epochs
  BY <1>0, <1>3 DEF BeginReload, TypeOK
<1>5. TypeOK'
  BY <1>0, <1>1, <1>3, <1>4 DEF TypeOK, BeginReload, Inside
<1>6. LockInv'
  BY <1>1, <1>2 DEF LockInv, Inside, BeginReload
<1>7. loads <= reloads + 1
  BY <1>0 DEF Coherent, TypeOK, Epochs
<1>8. AtWork(t)'
  BY <1>0, <1>2, <1>3, <1>7 DEF AtWork, BeginReload, Reloading, TypeOK, Epochs
<1>9. ASSUME NEW u \in Threads PROVE Versions(u)'
  BY <1>2 DEF IInv, Versions, BeginReload
<1>10. lock' # None /\ lock' = t
  BY ClassifierAssumption DEF BeginReload
<1>11. finished' <= reloads' /\ (router' # NoRouter => router'.epoch >= finished')
  BY <1>0, <1>3 DEF IInv, BeginReload, TypeOK, Epochs
<1> QED BY <1>5, <1>6, <1>8, <1>9, <1>10, <1>11 DEF IInv

\* The model is forgotten, then that there was one.
LEMMA ForgetKeeps ==
    ASSUME IInv, NEW t \in Threads, ClearRouter(t) \/ Unload(t)
    PROVE  IInv'
<1>0. TypeOK /\ LockInv /\ lock = t /\ AtWork(t) /\ lock' = t
  BY DEF IInv, ClearRouter, Unload, Inside, LockInv
<1>1. CASE ClearRouter(t)
  <2>1. TypeOK'
    BY <1>0, <1>1 DEF ClearRouter, TypeOK, Goto, history, Inside
  <2>2. AtWork(t)'
    BY <1>0, <1>1 DEF ClearRouter, TypeOK, Goto, history, AtWork, Reloading
  <2> QED BY <1>0, <1>1, <2>1, <2>2, Within DEF ClearRouter, history, Inside
<1>2. CASE Unload(t)
  <2>0. loads' \in Nat
    BY <1>0, <1>2 DEF Unload, TypeOK
  <2>1. TypeOK'
    BY <1>0, <1>2, <2>0 DEF Unload, TypeOK, Goto, Inside
  <2>2. loads' <= reloads' + 1
    BY <1>0, <1>2 DEF Unload, AtWork, TypeOK, Epochs
  <2>3. AtWork(t)'
    BY <1>0, <1>2, <2>2 DEF Unload, TypeOK, Goto, AtWork
  <2>4. router' = NoRouter
    BY <1>0, <1>2 DEF Unload, AtWork
  <2> QED BY <1>0, <1>2, <2>1, <2>3, <2>4, Within DEF Unload, Inside
<1> QED BY <1>1, <1>2

\* The model is built, or it is not.
LEMMA BuildKeeps ==
    ASSUME IInv, NEW t \in Threads, LoadWell(t) \/ LoadFails(t)
    PROVE  IInv'
<1>0. TypeOK /\ LockInv /\ lock = t /\ AtWork(t) /\ lock' = t /\ finished <= reloads
  BY DEF IInv, LoadWell, LoadFails, Inside, LockInv
<1>1. CASE LoadWell(t)
  <2>1. router' = [config |-> config, epoch |-> reloads] /\ router' \in Routers
        /\ router' # NoRouter
    BY <1>0, <1>1, RouterFacts DEF LoadWell, TypeOK
  <2>2. TypeOK'
    BY <1>0, <1>1, <2>1 DEF LoadWell, TypeOK, Goto, history, Inside
  <2>3. AtWork(t)'
    BY <1>0, <1>1, <2>1 DEF LoadWell, TypeOK, Goto, history, AtWork
  <2>4. router'.epoch >= finished
    BY <1>0, <2>1 DEF TypeOK, Epochs
  <2> QED BY <1>0, <1>1, <2>2, <2>3, <2>4, Within DEF LoadWell, history, Inside
<1>2. CASE LoadFails(t)
  <2>1. TypeOK'
    BY <1>0, <1>2 DEF LoadFails, TypeOK, Goto, history, Inside
  <2>2. AtWork(t)'
    BY <1>0, <1>2 DEF LoadFails, TypeOK, Goto, history, AtWork
  <2>3. router' = NoRouter
    BY <1>0, <1>2 DEF LoadFails, AtWork
  <2> QED BY <1>0, <1>2, <2>1, <2>2, <2>3, Within DEF LoadFails, history, Inside
<1> QED BY <1>1, <1>2

\* The lock is given back with a model, or with an error and none.
LEMMA FinishKeeps ==
    ASSUME IInv, NEW t \in Threads, Publish(t) \/ Record(t)
    PROVE  IInv'
<1>0. TypeOK /\ lock = t /\ AtWork(t)
  BY DEF IInv, Publish, Record, Inside, LockInv
<1>1. CASE Publish(t)
  <2>1. PICK place \in {"idle", "scoring"} : Leave(t, place)
    BY <1>1 DEF Publish
  <2>2. Coherent'
    BY <1>0, <1>1 DEF Publish, Leave, AtWork, Coherent
  <2> QED BY <1>0, <1>1, <2>1, <2>2, Leaving DEF Publish, AtWork
<1>2. CASE Record(t)
  <2>1. Leave(t, "raised")
    BY <1>2 DEF Record
  <2>2. Coherent'
    BY <1>0, <1>2 DEF Record, Leave, AtWork, Coherent
  <2> QED BY <1>0, <1>2, <2>1, <2>2, Leaving DEF Record, AtWork, TypeOK
<1> QED BY <1>1, <1>2

\* Every step keeps the invariant.
LEMMA ClassifierNext == IInv /\ [Next]_vars => IInv'
<1> SUFFICES ASSUME IInv, [Next]_vars PROVE IInv'
  OBVIOUS
<1>1. ASSUME NEW t \in Threads, ClassifierStep(t) PROVE IInv'
  BY <1>1, CallKeeps, ScoreKeeps, AcquireKeeps, BeginReloadKeeps, ForgetKeeps,
     BuildKeeps, FinishKeeps DEF ClassifierStep, CallStep, LoadStep
<1>2. CASE UNCHANGED vars
  BY <1>2 DEF IInv, TypeOK, LockInv, Coherent, AtWork, Versions, Reloading,
              vars, attributes, history
<1> QED BY <1>1, <1>2 DEF Next

\* The invariant holds in every behaviour of the classifier.
THEOREM ClassifierInvariant == Spec => []IInv
<1>1. Init => IInv
  BY ClassifierInit
<1>2. IInv /\ [Next]_vars => IInv'
  BY ClassifierNext
<1> QED BY <1>1, <1>2, PTL DEF Spec

\* Type correctness: every attribute and every thread's place is what the code
\* allows.
THEOREM ClassifierTypes == Spec => []TypeOK
<1>1. IInv => TypeOK
  BY DEF IInv
<1> QED BY <1>1, ClassifierInvariant, PTL

\* A model is built once at first and once per reload, however many threads call.
THEOREM ClassifierLoadedOnce == Spec => []LoadedOnce
<1>1. IInv => LoadedOnce
  <2> SUFFICES ASSUME IInv PROVE LoadedOnce
    OBVIOUS
  <2>1. lock \in Threads \/ lock = None
    BY DEF IInv, TypeOK
  <2>2. CASE lock = None
    BY <2>2 DEF IInv, Coherent, LoadedOnce, TypeOK, Epochs
  <2>3. CASE lock \in Threads
    BY <2>3 DEF IInv, AtWork, LoadedOnce
  <2> QED BY <2>1, <2>2, <2>3
<1> QED BY <1>1, ClassifierInvariant, PTL

\* No call is answered with a score of a model that a reload had replaced before
\* the call came.
THEOREM ClassifierNoStaleAnswer == Spec => []NoStaleAnswer
<1>1. IInv => NoStaleAnswer
  BY DEF IInv, Versions, NoStaleAnswer
<1> QED BY <1>1, ClassifierInvariant, PTL

\* Unless someone is loading, is_available holds exactly when there is a model.
THEOREM ClassifierAvailable == Spec => []AvailableIsUsable
<1>1. IInv => AvailableIsUsable
  BY DEF IInv, Coherent, AvailableIsUsable, TypeOK
<1> QED BY <1>1, ClassifierInvariant, PTL

-----------------------------------------------------------------------------
(* The health endpoint beside the classifier.                              *)

\* At first nobody has asked.
LEMMA ProbeInit == HealthInit => ProbeInv
<1> SUFFICES ASSUME HealthInit PROVE ProbeInv
  OBVIOUS
<1>1. IInv /\ TypeOK
  BY ClassifierInit DEF HealthInit, IInv
<1>2. HealthTypeOK
  <2>1. 0 \in 0 .. MaxChanges /\ 0 \in 0 .. MaxProbes
    BY HealthAssumption
  <2> QED BY <1>1, <2>1 DEF HealthInit, HealthTypeOK, NotAsked
<1>3. \A c \in Components : report[c] = "none"
  BY DEF HealthInit, NotAsked
<1>4. ~ Probing /\ Evidence
  BY <1>3 DEF Probing, Evidence, Components
<1> QED BY <1>1, <1>2, <1>4 DEF ProbeInv

\* What the rest of the system does is a step of the classifier or none.
LEMMA HealthStepIsClassifiers == HealthNext => [Next]_vars
BY DEF HealthNext, Ask, ProbeStep, PingAnswered, PingFails, RedisProbed, RedisProbeLate,
       ReadLoaded, ReadError, OthersStep, RedisChanges

\* A bounded count of what may happen once more.
LEMMA Counted == \A n, m \in Nat : \A i \in 0 .. n : i < n => i + 1 \in 0 .. n
OBVIOUS

\* A probe begins by seeing what is the case, and sees everything from then on.
LEMMA ProbeSeen ==
    ASSUME HealthNext
    PROVE  seen' \subseteq seen \cup Now' /\ (Probing' => Now' \subseteq seen')
<1>w. Watch
  BY DEF HealthNext
<1>1. CASE ~ Probing /\ Probing'
  <2>1. Ask
    BY <1>1 DEF HealthNext, ProbeStep, OthersStep, RedisChanges, probeVars, PingAnswered,
       PingFails, RedisProbed, RedisProbeLate, ReadLoaded, ReadError, Probing, IsTold, Told,
       Components
  <2>2. Now' = Now
    BY <2>1 DEF Ask, Now, ModelState, vars, attributes, redisVars
  <2> QED BY <1>w, <1>1, <2>2 DEF Watch
<1>2. CASE ~ (~ Probing /\ Probing')
  BY <1>w, <1>2 DEF Watch
<1> QED BY <1>1, <1>2

\* What is told from what is now the case rests on what has been seen.
LEMMA EvidenceKeeps ==
    ASSUME ProbeInv, HealthNext
    PROVE  Evidence'
<1>0. Evidence /\ HealthTypeOK /\ IInv /\ (Probing => Now \subseteq seen)
  BY DEF ProbeInv
<1>t. report \in [Components -> {"none", "asked", "loaded"} \cup Told]
  BY <1>0 DEF HealthTypeOK
<1>w. Watch
  BY DEF HealthNext
<1>g. Probing => seen \subseteq seen'
  BY <1>w DEF Watch
<1>m. ~ Probing /\ ~ Probing' => seen' = seen
  BY <1>w DEF Watch
<1>1. CASE Ask
  <2>1. report'["redis"] = "asked" /\ report'["routellm"] = "asked"
    BY <1>1 DEF Ask, Components
  <2> QED BY <2>1 DEF Evidence
<1>2. CASE PingAnswered \/ PingFails
  <2>1. Probing
    BY <1>2 DEF PingAnswered, PingFails, Probing, Components
  <2>2. report'["redis"] = report["redis"] /\ report'["routellm"] = report["routellm"]
    BY <1>2, <1>t DEF PingAnswered, PingFails, Tell, Components
  <2>3. loaded' = loaded
    BY <1>2 DEF PingAnswered, PingFails, vars, attributes
  <2> QED BY <1>0, <1>g, <2>1, <2>2, <2>3 DEF Evidence
<1>3. CASE RedisProbed \/ RedisProbeLate
  <2>1. Probing
    BY <1>3 DEF RedisProbed, RedisProbeLate, Probing, Components
  <2>2. report'["routellm"] = report["routellm"]
    BY <1>3, <1>t DEF RedisProbed, RedisProbeLate, Tell, Components
  <2>3. loaded' = loaded
    BY <1>3 DEF RedisProbed, RedisProbeLate, vars, attributes
  <2>4. report'["redis"] = "up" /\ HasRedis => redisUp = TRUE
    BY <1>0, <1>3, <1>t DEF RedisProbed, RedisProbeLate, Tell, Verdict, Components, HealthTypeOK
  <2>5. <<"redis", redisUp>> \in seen
    BY <1>0, <2>1 DEF Now
  <2> QED BY <1>0, <1>g, <2>1, <2>2, <2>3, <2>4, <2>5 DEF Evidence
<1>4. CASE ReadLoaded
  <2>1. Probing
    BY <1>4 DEF ReadLoaded, Probing, Components
  <2>2. report'["redis"] = report["redis"]
        /\ report'["routellm"] = IF loaded THEN "loaded" ELSE "down"
    BY <1>4, <1>t DEF ReadLoaded, Tell, Components
  <2>3. loaded' = loaded
    BY <1>4 DEF ReadLoaded, vars, attributes
  <2>4. <<"routellm", ModelState>> \in seen
    BY <1>0, <2>1 DEF Now
  <2>5. ~ loaded => ModelState \in {"unusable", "loading"}
    BY <1>0 DEF ModelState, IInv, Coherent
  <2>6. Evidence!1'
    BY <1>0, <1>g, <2>1, <2>2 DEF Evidence
  <2>7. CASE loaded
    BY <2>2, <2>3, <2>6, <2>7 DEF Evidence
  <2>8. CASE ~ loaded
    <3>1. seen' \cap {<<"routellm", "unusable">>, <<"routellm", "loading">>} # {}
      BY <1>g, <2>1, <2>4, <2>5, <2>8
    <3> QED BY <2>2, <2>6, <2>8, <3>1 DEF Evidence
  <2> QED BY <2>7, <2>8
<1>5. CASE ReadError
  <2>1. Probing
    BY <1>5 DEF ReadError, Probing, Components
  <2>a. report' = [report EXCEPT !["routellm"] = Verdict(~ error)]
    BY <1>5 DEF ReadError, Tell
  <2>b. (error => Verdict(~ error) = "down") /\ (~ error => Verdict(~ error) = "up")
    BY DEF Verdict
  <2>2. /\ report'["redis"] = report["redis"]
        /\ error => report'["routellm"] = "down"
        /\ ~ error => report'["routellm"] = "up"
    BY <1>t, <2>a, <2>b DEF Components
  <2>c. report["routellm"] = "loaded"
    BY <1>5 DEF ReadError
  <2>3. <<"routellm", ModelState>> \in seen
    BY <1>0, <2>1 DEF Now
  <2>4. loaded \/ <<"routellm", "loading">> \in seen
    BY <1>0, <2>c DEF Evidence
  <2>5. error => ModelState \in {"unusable", "loading"}
    BY <1>0 DEF ModelState, IInv, Coherent
  <2>6. ~ error /\ loaded => ModelState \in {"usable", "loading"}
    BY <1>0 DEF ModelState, IInv, Coherent
  <2>7. Evidence!1'
    BY <1>0, <1>g, <2>1, <2>2 DEF Evidence
  <2>8. CASE error
    <3>1. seen' \cap {<<"routellm", "unusable">>, <<"routellm", "loading">>} # {}
      BY <1>g, <2>1, <2>3, <2>5, <2>8
    <3> QED BY <2>2, <2>7, <2>8, <3>1 DEF Evidence
  <2>9. CASE ~ error
    <3>1. seen' \cap {<<"routellm", "usable">>, <<"routellm", "loading">>} # {}
      BY <1>g, <2>1, <2>3, <2>4, <2>6, <2>9
    <3> QED BY <2>2, <2>7, <2>9, <3>1 DEF Evidence
  <2> QED BY <2>8, <2>9
<1>6. CASE OthersStep
  <2>1. report' = report /\ (Probing' <=> Probing)
    BY <1>6 DEF OthersStep, RedisChanges, probeVars, Probing
  <2>2. seen \subseteq seen'
    BY <1>g, <1>m, <2>1
  <2>3. report["routellm"] = "loaded" => Probing
    BY DEF Probing, Components
  <2>4. ASSUME Probing, loaded, ~ loaded' PROVE <<"routellm", "loading">> \in seen'
    <3>1. PICK t \in Threads : Unload(t)
      BY <1>6, <2>4 DEF OthersStep, RedisChanges, vars, attributes, Next, ClassifierStep,
           CallStep, LoadStep, Call, Reload, Check, Consult, Acquire, Score, Answer,
           BeginReload, ClearRouter, LoadWell, LoadFails, Publish, Record
    <3>2. lock # None
      BY <1>0, <3>1, ClassifierAssumption DEF Unload, IInv, LockInv, Inside
    <3>3. <<"routellm", "loading">> \in Now
      BY <3>2 DEF Now, ModelState
    <3> QED BY <1>0, <2>2, <2>4, <3>3
  <2>5. report'["routellm"] = "loaded" => loaded' \/ <<"routellm", "loading">> \in seen'
    BY <1>0, <2>1, <2>2, <2>3, <2>4 DEF Evidence
  <2> QED BY <1>0, <2>1, <2>2, <2>5 DEF Evidence
<1> QED BY <1>1, <1>2, <1>3, <1>4, <1>5, <1>6 DEF HealthNext, ProbeStep

\* What the endpoint keeps has its type.
LEMMA HealthTypes == ProbeInv /\ HealthNext => HealthTypeOK'
<1> SUFFICES ASSUME ProbeInv, HealthNext PROVE HealthTypeOK'
  OBVIOUS
<1>0. HealthTypeOK /\ IInv
  BY DEF ProbeInv
<1>1. TypeOK'
  BY <1>0, ClassifierNext, HealthStepIsClassifiers DEF IInv
<1>2. redisUp' \in BOOLEAN /\ changes' \in 0 .. MaxChanges
  BY <1>0, Counted, HealthAssumption DEF HealthTypeOK, HealthNext, Ask, ProbeStep,
     PingAnswered, PingFails, RedisProbed, RedisProbeLate, ReadLoaded, ReadError, OthersStep,
     RedisChanges, redisVars
<1>3. redisState' \in {"unknown", "healthy", "unhealthy"} /\ responded' \in BOOLEAN
  BY <1>0 DEF HealthTypeOK, HealthNext, Ask, ProbeStep, PingAnswered,
     PingFails, RedisProbed, RedisProbeLate, ReadLoaded, ReadError, OthersStep, RedisChanges,
     probeVars
<1>6. probes' \in 0 .. MaxProbes
  BY <1>0, Counted, HealthAssumption DEF HealthTypeOK, HealthNext, Ask, ProbeStep, PingAnswered,
     PingFails, RedisProbed, RedisProbeLate, ReadLoaded, ReadError, OthersStep, RedisChanges,
     probeVars
<1>4. report' \in [Components -> {"none", "asked", "loaded"} \cup Told]
  BY <1>0 DEF HealthTypeOK, HealthNext, Ask, ProbeStep, PingAnswered,
     PingFails, RedisProbed, RedisProbeLate, ReadLoaded, ReadError, OthersStep, RedisChanges,
     probeVars, Tell, Told, Verdict
<1>5. seen' \subseteq ({"redis"} \X BOOLEAN)
                      \cup ({"routellm"} \X {"loading", "usable", "unusable"})
  <2>1. Now' \subseteq ({"redis"} \X BOOLEAN)
                       \cup ({"routellm"} \X {"loading", "usable", "unusable"})
    BY <1>2 DEF Now, ModelState
  <2>2. seen' \subseteq seen \cup Now'
    BY ProbeSeen
  <2> QED BY <1>0, <2>1, <2>2 DEF HealthTypeOK
<1> QED BY <1>1, <1>2, <1>3, <1>4, <1>5, <1>6 DEF HealthTypeOK

\* Every step keeps the invariant.
LEMMA ProbeNext == ProbeInv /\ [HealthNext]_healthVars => ProbeInv'
<1> SUFFICES ASSUME ProbeInv, [HealthNext]_healthVars PROVE ProbeInv'
  OBVIOUS
<1>1. CASE HealthNext
  <2>1. IInv'
    BY <1>1, ClassifierNext, HealthStepIsClassifiers DEF ProbeInv
  <2>2. Probing' => Now' \subseteq seen'
    BY <1>1, ProbeSeen
  <2> QED BY <1>1, <2>1, <2>2, EvidenceKeeps, HealthTypes DEF ProbeInv
<1>2. CASE UNCHANGED healthVars
  <2>1. UNCHANGED vars
    BY <1>2 DEF healthVars
  <2>2. IInv'
    BY <2>1, ClassifierNext DEF ProbeInv
  <2>3. HealthTypeOK'
    BY <1>2, <2>2 DEF ProbeInv, HealthTypeOK, healthVars, redisVars, probeVars, IInv
  <2>4. Evidence' /\ (Probing' => Now' \subseteq seen')
    BY <1>2 DEF ProbeInv, Evidence, Probing, Now, ModelState, healthVars, redisVars,
                probeVars, vars, attributes
  <2> QED BY <2>2, <2>3, <2>4 DEF ProbeInv
<1> QED BY <1>1, <1>2

\* The invariant holds in every behaviour of the endpoint beside the classifier.
THEOREM HealthInvariant == HealthSpec => []ProbeInv
BY ProbeInit, ProbeNext, PTL DEF HealthSpec

\* What health_components() reports of Redis and of the classifier was so at some
\* time during its request, whatever calls and reloads run beside it.
THEOREM HealthReportIsTrue == HealthSpec => []ReportIsTrue
<1>1. ProbeInv => ReportIsTrue
  BY DEF ProbeInv, Evidence, ReportIsTrue
<1> QED BY <1>1, HealthInvariant, PTL

\* The endpoint only reads: beside it the classifier behaves as it does alone, so
\* that every theorem about Spec holds there too.
THEOREM HealthIsClassifier == HealthSpec => Spec
<1>1. HealthInit => Init
  BY DEF HealthInit
<1>2. [HealthNext]_healthVars => [Next]_vars
  BY HealthStepIsClassifiers DEF healthVars
<1> QED BY <1>1, <1>2, PTL DEF HealthSpec, Spec
===============================================================================
