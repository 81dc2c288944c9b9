--------------------------- MODULE ModelClassifier ---------------------------
(***************************************************************************)
(* router/model_classifier.py: the classifier is loaded by the first call  *)
(* and loaded again by reload(), which nothing in src/ but its tests calls *)
(* so far.  aclassify() runs classify() in a worker thread, so calls and   *)
(* reloads interleave between any two accesses to an attribute; two        *)
(* accesses are one step where no other thread could tell.                 *)
(* pc[t] names what thread t does next:                                    *)
(*   "checking", "consulting"  reads _loaded, _load_error without the lock *)
(*   "locking", "reloading"    waits for the lock, to load or to reload    *)
(*   "clearing", "unloading"   reload() forgets the model, then _loaded    *)
(*   "loading"                 builds the model                            *)
(*   "publishing", "failing"   has built it, or has failed to              *)
(*   "scoring", "running"      reads _router, has its score                *)
(***************************************************************************)
EXTENDS Naturals

CONSTANTS
    Threads,
    MaxReloads,  \* bound: reloads
    None

ASSUME ClassifierAssumption == MaxReloads \in Nat /\ None \notin Threads

VARIABLES
    config,     \* _config: the number of the reload that brought it
    router,     \* _router: [config, epoch] it was built from and in, or NoRouter
    loaded,     \* _loaded
    error,      \* whether _load_error is set
    lock,       \* holder of _load_lock
    pc,
    held,       \* per thread: the router that computes its score
    label,      \* per thread: the configuration its answer names
    loads,      \* history: models built or tried
    reloads,    \* history: reloads that have the lock or had it
    finished,   \* history: reloads that are over
    since       \* history, per thread: reloads that were over when its call came

attributes == <<config, router, loaded, error>>
history == <<loads, reloads, finished, since>>
vars == <<attributes, lock, pc, held, label, history>>

Epochs == 0 .. MaxReloads
NoRouter == [config |-> 0, epoch |-> MaxReloads + 1]
Routers == [config : Epochs, epoch : Epochs]
Resting == {"idle", "answered", "raised", "crashed", "expired"}
Inside == {"clearing", "unloading", "loading", "publishing", "failing"}

\* The thread that has the lock is in reload(), or in a call's ensure_loaded().
Reloading == finished < reloads
Goto(t, place) == pc' = [pc EXCEPT ![t] = place]

Init ==
    /\ config = 0 /\ router = NoRouter
    /\ loaded = FALSE /\ error = FALSE /\ lock = None
    /\ pc = [t \in Threads |-> "idle"]
    /\ held = [t \in Threads |-> NoRouter]
    /\ label = [t \in Threads |-> 0]
    /\ loads = 0 /\ reloads = 0 /\ finished = 0
    /\ since = [t \in Threads |-> 0]

-----------------------------------------------------------------------------
(* classify(), ensure_loaded()                                             *)

Call(t) ==
    /\ pc[t] \in Resting
    /\ Goto(t, "checking")
    /\ since' = [since EXCEPT ![t] = finished]
    /\ held' = [held EXCEPT ![t] = NoRouter]
    /\ label' = [label EXCEPT ![t] = 0]
    /\ UNCHANGED <<attributes, lock, loads, reloads, finished>>

Check(t) ==
    /\ pc[t] = "checking"
    /\ Goto(t, IF loaded THEN "consulting" ELSE "locking")
    /\ UNCHANGED <<attributes, lock, held, label, history>>

Consult(t) ==
    /\ pc[t] = "consulting"
    /\ Goto(t, IF error THEN "raised" ELSE "scoring")
    /\ UNCHANGED <<attributes, lock, held, label, history>>

\* Does not look again.
WrongAcquire(t) ==
    /\ pc[t] = "locking" /\ lock = None
    /\ lock' = t /\ loads' = loads + 1 /\ Goto(t, "loading")
    /\ UNCHANGED <<attributes, held, label, reloads, finished, since>>

\* The second look at _loaded and _load_error; whoever is first loads.
Acquire(t) ==
    /\ pc[t] = "locking" /\ lock = None
    /\ IF loaded
       THEN /\ Goto(t, IF error THEN "raised" ELSE "scoring")
            /\ UNCHANGED <<lock, loads>>
       ELSE lock' = t /\ loads' = loads + 1 /\ Goto(t, "loading")
    /\ UNCHANGED <<attributes, held, label, reloads, finished, since>>

Score(t) ==
    /\ pc[t] = "scoring"
    /\ held' = [held EXCEPT ![t] = router]
    /\ Goto(t, IF router = NoRouter THEN "crashed" ELSE "running")
    /\ UNCHANGED <<attributes, lock, label, history>>

\* The time is looked at when the score is there; then the answer is labelled.
Answer(t) ==
    /\ pc[t] = "running"
    /\ \/ Goto(t, "expired") /\ UNCHANGED label
       \/ Goto(t, "answered") /\ label' = [label EXCEPT ![t] = config]
    /\ UNCHANGED <<attributes, lock, held, history>>

-----------------------------------------------------------------------------
(* reload()                                                                *)

Reload(t) ==
    /\ pc[t] \in Resting /\ reloads < MaxReloads
    /\ Goto(t, "reloading")
    /\ UNCHANGED <<attributes, lock, held, label, history>>

\* Takes no lock.
WrongBeginReload(t) ==
    /\ pc[t] = "reloading" /\ reloads < MaxReloads
    /\ reloads' = reloads + 1
    /\ config' \in {config, reloads + 1}
    /\ Goto(t, "clearing")
    /\ UNCHANGED <<router, loaded, error, lock, held, label, loads, finished, since>>

BeginReload(t) ==
    /\ pc[t] = "reloading" /\ lock = None /\ reloads < MaxReloads
    /\ lock' = t /\ reloads' = reloads + 1
    /\ config' \in {config, reloads + 1}
    /\ Goto(t, "clearing")
    /\ UNCHANGED <<router, loaded, error, held, label, loads, finished, since>>

ClearRouter(t) ==
    /\ pc[t] = "clearing"
    /\ router' = NoRouter
    /\ Goto(t, "unloading")
    /\ UNCHANGED <<config, loaded, error, lock, held, label, history>>

Unload(t) ==
    /\ pc[t] = "unloading"
    /\ loaded' = FALSE /\ error' = FALSE
    /\ loads' = loads + 1
    /\ Goto(t, "loading")
    /\ UNCHANGED <<config, router, lock, held, label, reloads, finished, since>>

-----------------------------------------------------------------------------
(* _do_load()                                                              *)

LoadWell(t) ==
    /\ pc[t] = "loading"
    /\ router' = [config |-> config, epoch |-> reloads]
    /\ Goto(t, "publishing")
    /\ UNCHANGED <<config, loaded, error, lock, held, label, history>>

\* Keeps the lock.
WrongLeave(t, place) ==
    /\ finished' = reloads
    /\ Goto(t, place)
    /\ UNCHANGED <<config, lock, held, label, loads, reloads, since>>

\* The lock is released; a call goes on, a reload is over.
Leave(t, place) ==
    /\ lock' = None
    /\ finished' = reloads
    /\ Goto(t, place)
    /\ UNCHANGED <<config, held, label, loads, reloads, since>>

Publish(t) ==
    /\ pc[t] = "publishing"
    /\ loaded' = TRUE /\ error' = FALSE /\ UNCHANGED router
    /\ Leave(t, IF Reloading THEN "idle" ELSE "scoring")

\* The attempt counts as loaded before the error is there.
LoadFails(t) ==
    /\ pc[t] = "loading"
    /\ loaded' = TRUE
    /\ Goto(t, "failing")
    /\ UNCHANGED <<config, router, error, lock, held, label, history>>

\* Forgets the error.
WrongRecord(t) ==
    /\ pc[t] = "failing"
    /\ router' = NoRouter /\ UNCHANGED <<loaded, error>>
    /\ Leave(t, "raised")

Record(t) ==
    /\ pc[t] = "failing"
    /\ error' = TRUE /\ router' = NoRouter /\ UNCHANGED loaded
    /\ Leave(t, "raised")

-----------------------------------------------------------------------------
CallStep(t) ==
    \/ Check(t)
    \/ Consult(t)
    \/ Acquire(t)
    \/ Score(t)
    \/ Answer(t)

LoadStep(t) ==
    \/ BeginReload(t)
    \/ ClearRouter(t)
    \/ Unload(t)
    \/ LoadWell(t)
    \/ LoadFails(t)
    \/ Publish(t)
    \/ Record(t)

ClassifierStep(t) == Call(t) \/ Reload(t) \/ CallStep(t) \/ LoadStep(t)

Next == \E t \in Threads : ClassifierStep(t)

Spec == Init /\ [][Next]_vars

\* Threads run on; building a model ends.
ClassifierFairness == \A t \in Threads : WF_vars(CallStep(t) \/ LoadStep(t))

FairSpec == Spec /\ ClassifierFairness

-----------------------------------------------------------------------------
\* Type invariant.
TypeOK ==
    /\ config \in Epochs /\ router \in Routers \cup {NoRouter}
    /\ loaded \in BOOLEAN /\ error \in BOOLEAN /\ lock \in Threads \cup {None}
    /\ pc \in [Threads -> Resting \cup Inside \cup
                  {"checking", "consulting", "locking", "reloading", "scoring", "running"}]
    /\ held \in [Threads -> Routers \cup {NoRouter}]
    /\ label \in [Threads -> Epochs]
    /\ loads \in Nat /\ reloads \in Epochs /\ finished \in Epochs
    /\ since \in [Threads -> Epochs]

\* However many calls come at once, a model is built once at first and once
\* for each reload (ensure_loaded's description: loaded only once).
LoadedOnce == loads <= reloads + 1

\* No score is computed by a model that was replaced before the call came.
NoStaleAnswer ==
    \A t \in Threads : pc[t] \in {"answered", "expired"} =>
        held[t] # NoRouter /\ held[t].epoch >= since[t]

\* Unless someone is loading, is_available tells whether a call can be scored.
AvailableIsUsable ==
    lock = None => ((loaded /\ ~ error) <=> router # NoRouter)

\* Every call ends.
CallsEnd == \A t \in Threads : pc[t] = "checking" ~> pc[t] \in Resting

\* A call ends with an answer or with one of the two errors that classify()
\* documents.
NeverCrashes == \A t \in Threads : pc[t] # "crashed"

\* An answer names the configuration of the model that computed the score.
LabelIsTrue ==
    \A t \in Threads : pc[t] = "answered" => label[t] = held[t].config

-----------------------------------------------------------------------------
(* What makes the invariants inductive.                                    *)

LockInv == \A t \in Threads : pc[t] \in Inside <=> lock = t

\* Nobody is inside: all attributes agree.
Coherent ==
    /\ loaded => (error <=> router = NoRouter) /\ loads <= reloads + 1
    /\ ~ loaded => ~ error /\ router = NoRouter /\ loads <= reloads

AtWork(t) ==
    /\ pc[t] = "clearing" => Reloading /\ loads <= reloads
    /\ pc[t] = "unloading" => Reloading /\ router = NoRouter /\ loads <= reloads
    /\ pc[t] = "loading" => ~ loaded /\ ~ error /\ router = NoRouter
    /\ pc[t] = "publishing" =>
          ~ loaded /\ ~ error /\ router # NoRouter /\ router.epoch = reloads
    /\ pc[t] = "failing" => loaded /\ ~ error /\ router = NoRouter
    /\ loads <= reloads + 1

Versions(t) ==
    /\ since[t] <= finished
    /\ pc[t] \in {"running", "answered", "expired"} =>
          held[t] # NoRouter /\ held[t].epoch >= since[t]

IInv ==
    /\ TypeOK /\ LockInv
    /\ lock = None => Coherent /\ finished = reloads
    /\ \A t \in Threads : (lock = t => AtWork(t)) /\ Versions(t)
    /\ finished <= reloads
    /\ router # NoRouter => router.epoch >= finished
=============================================================================
