---------------------------- MODULE PluginLoader ----------------------------
(***************************************************************************)
(* callbacks/plugin_loader.py and the set-up of SmartRouterCallback: how a *)
(* process comes to serve with a plug-in and a ConfigWatcher.  The plan    *)
(* plug-ins load the configuration and make their plans before they start  *)
(* the watcher; the conversation plug-in starts it first and then takes    *)
(* the configuration and the table over, one after the other.  stage:      *)
(*   "choosing", "preparing", "planning"   load_routing_plugin()           *)
(*   "watching", "starting"                ConfigWatcher.start()           *)
(*   "taking", "routing"                   _init_routing_from_watcher()    *)
(*   "serving"                             the plug-in is registered       *)
(* A plug-in that cannot be loaded ends the process, which is then started *)
(* again from "choosing".                                                  *)
(***************************************************************************)
EXTENDS ConfigWatcher

CONSTANTS
    SlowStart,  \* whether a start may last as long as the debounce time
    MaxEarly    \* bound: edits before the observer has started

ASSUME LoaderAssumption == SlowStart \in BOOLEAN /\ MaxEarly \in Nat

VARIABLES
    stage,
    prepared,   \* the configuration that the plug-in has read
    missed      \* history: files edited unseen, or that no plan could be made
                \* of for lack of a configuration, and not read since

startVars == <<stage, prepared>>
vars == <<watcherVars, startVars, missed>>

LoaderInit ==
    /\ Init
    /\ stage = "choosing" /\ prepared = NoConfig /\ missed = {}

-----------------------------------------------------------------------------
(* load_routing_plugin()                                                   *)

ReadPlugin ==
    /\ stage = "choosing"
    /\ plugin' \in Plugins
    /\ stage' = IF plugin' = "conversation" THEN "watching" ELSE "preparing"
    /\ UNCHANGED <<diskVars, phase, pending, threadVars, inUse, prepared, missed>>

PrepareConfig ==
    /\ stage = "preparing"
    /\ IF ConfigGood
       THEN prepared' = OnDisk /\ stage' = "planning"
       ELSE stage' = "choosing" /\ UNCHANGED prepared
    /\ UNCHANGED <<watcherVars, missed>>

InitialPlan(own) ==
    IF own = Broken THEN NoPlan ELSE [models |-> prepared.models, own |-> own]

\* An error ends the process.
PreparePlans ==
    LET own == disk[OwnFile[plugin]]
    IN  /\ stage = "planning"
        /\ IF Fails(plugin)
           THEN stage' = "choosing" /\ UNCHANGED <<plans, missed>>
           ELSE /\ plans' = [plans EXCEPT ![plugin] = InitialPlan(own)]
                /\ missed' = missed \ {OwnFile[plugin]}
                /\ stage' = "watching"
        /\ UNCHANGED <<diskVars, watchVars, pending, threadVars,
                       config, singleton, router, prepared>>

Watch ==
    /\ stage = "watching"
    /\ StartReload
    /\ stage' = "starting"
    /\ UNCHANGED <<prepared, missed>>

Watching ==
    /\ StartObserver
    /\ stage' = IF plugin = "conversation" /\ phase' = "running"
                THEN "taking" ELSE "serving"
    /\ UNCHANGED <<prepared, missed>>

-----------------------------------------------------------------------------
(* SmartRouterCallback._init_routing_from_watcher()                        *)

TakeConfig ==
    /\ stage = "taking"
    /\ prepared' = config
    /\ stage' = IF config = NoConfig THEN "serving" ELSE "routing"
    /\ UNCHANGED <<watcherVars, missed>>

TakeTable ==
    /\ stage = "routing"
    /\ router' = [config |-> prepared, table |-> config]
    /\ stage' = "serving"
    /\ UNCHANGED <<diskVars, watchVars, pending, threadVars,
                   config, singleton, plans, prepared, missed>>

StartUp ==
    \/ ReadPlugin
    \/ PrepareConfig
    \/ PreparePlans
    \/ Watch
    \/ Watching
    \/ TakeConfig
    \/ TakeTable

-----------------------------------------------------------------------------
(* The watcher at work, with what it reads again.                          *)

Write(f) ==
    /\ Watched \/ edits < MaxEarly
    /\ Edit(f)
    /\ missed' = IF Watched THEN missed ELSE missed \cup {f}
    /\ UNCHANGED startVars

TimerFires(t) ==
    /\ SlowStart \/ stage = "serving"
    /\ Fire(t)
    /\ UNCHANGED <<startVars, missed>>

Reloads(t) ==
    /\ ReloadStep(t)
    /\ missed' = CASE pc[t] = "loading" /\ ConfigGood -> missed \ ConfigFiles
                   [] pc[t] = "planning" /\ due[t] # {} ->
                        IF Planless THEN missed \cup {OwnFile[NextKind(t)]}
                        ELSE missed \ {OwnFile[NextKind(t)]}
                   [] OTHER -> missed
    /\ UNCHANGED startVars

Next ==
    \/ StartUp
    \/ \E f \in Files : Write(f)
    \/ \E t \in Threads : TimerFires(t) \/ Reloads(t)
    \/ WatcherStep /\ UNCHANGED <<startVars, missed>>

Spec == LoaderInit /\ [][Next]_vars

\* The set-up of the router goes on, the observer handles events, delays end
\* and reloads go on.  That a process is started again is not assumed.
Fairness ==
    /\ WF_vars(TakeConfig \/ TakeTable)
    /\ \A f \in Files : WF_vars(Observe(f) /\ UNCHANGED <<startVars, missed>>)
    /\ \A t \in Threads : WF_vars(TimerFires(t)) /\ WF_vars(Reloads(t))

FairSpec == Spec /\ Fairness

-----------------------------------------------------------------------------
\* Type invariant of the start-up.
LoaderTypeOK ==
    /\ WatcherTypeOK
    /\ stage \in {"choosing", "preparing", "planning", "watching", "starting",
                  "taking", "routing", "serving"}
    /\ prepared \in Configs /\ missed \subseteq Files

InService == Settled /\ stage = "serving"

\* When every event has been handled, what is in use is what is on disk, but
\* for edits made before the observer started and not read since
\* (config_watcher.py, start() and _do_reload()).
Converges ==
    InService /\ ConfigGood /\ missed \cap ConfigFiles = {} =>
        /\ config = OnDisk /\ singleton = OnDisk
        /\ plugin = "conversation" =>
              router = [config |-> OnDisk, table |-> OnDisk]

\* So is the plug-in's plan as far as its own file is concerned, unless no plan
\* can be made of it with the profiles as they are: a plan that could not be
\* made once is made when either file is repaired, whatever happens to the
\* configuration (_do_transaction_plan_reload() and its twin).
OwnFilesConverge ==
    InService /\ plugin \in Kinds =>
        LET f == OwnFile[plugin] IN
        disk[f] # Broken /\ ~ Fails(plugin) /\ f \notin missed =>
            plans[plugin].own = disk[f]

\* And as far as the models are (ConfigWatcher's description: plans are
\* recomputed whenever one of their files changes).
PlansConverge ==
    InService /\ plugin \in Kinds /\ ConfigGood /\ missed = {}
    /\ disk[OwnFile[plugin]] # Broken /\ ~ Fails(plugin) =>
        plans[plugin] = [models |-> disk["models"], own |-> disk[OwnFile[plugin]]]

\* Nothing is missed: every edit is followed by a reload of its file
\* (config_watcher.py, start()).
NothingMissed == InService => missed = {}

\* The router's table never goes back to that of an earlier edit
\* (smart_router.py, the set-up and the callback).
NeverBackwards ==
    [][\A f \in ConfigFiles : router'.table[f] >= router.table[f]]_vars

\* A broken file of templates keeps the plan (load_templates).
KeepsTransactionPlan ==
    [][plans["transaction"] # NoPlan => plans'["transaction"] # NoPlan]_vars

\* A good last edit that is not missed reaches the router for good.
EditsArrive ==
    <>[](phase = "running" /\ plugin = "conversation" /\ ConfigGood
         /\ missed \cap ConfigFiles = {} => router.table = OnDisk)
-----------------------------------------------------------------------------
(* What makes Converges and OwnFilesConverge inductive.                    *)

\* A reload that has not read the configuration files yet is under way or due.
ReloadComes ==
    events # {} \/ \E t \in Threads : pc[t] \in {"armed", "clearing", "loading"}

\* Otherwise the files have been read as they are, and what was read is in use
\* as far as its reload has come.
ConfigInv ==
    /\ phase \in {"starting", "running"}
    /\ ConfigGood /\ missed \cap ConfigFiles = {} /\ ~ ReloadComes
    => /\ \A t \in Threads : pc[t] = "swapping" => loaded[t] = OnDisk
       /\ (\A t \in Threads : pc[t] # "swapping") => config = OnDisk
       /\ (\A t \in Threads : pc[t] \notin {"swapping", "global"}) => singleton = OnDisk
       /\ plugin = "conversation"
          /\ (\A t \in Threads : pc[t] \notin {"swapping", "global", "calling"})
          => router = [config |-> OnDisk, table |-> OnDisk]

Reading == {"clearing", "loading", "swapping", "global", "calling"}

Sources(k) == {"profiles", OwnFile[k]}

\* A reload will still come to the plan of kind k, or nobody knows that it should.
PlanComes(k) ==
    \/ OwnFile[k] \in missed
    \/ Sources(k) \cap (events \cup pending) # {}
    \/ \E t \in Threads : pc[t] \in Reading /\ Sources(k) \cap changed[t] # {}
    \/ \E t \in Threads : pc[t] \in {"planning", "placing"} /\ k \in due[t]
                           /\ (pc[t] = "placing" => NextKind(t) # k)

Placing(t, k) == pc[t] = "placing" /\ NextKind(t) = k

\* A plan can be made of what is on disk, or nobody has tried to since the
\* process started: before the observer runs only the plug-in itself makes one.
Readable(k) ==
    /\ disk[OwnFile[k]] # Broken
    /\ phase \in {"new", "starting"} \/ (Watched /\ ~ Fails(k))

\* Otherwise its file has been read as it is.
PlanInv(k) ==
    LET own == disk[OwnFile[k]] IN
    Readable(k) /\ ~ PlanComes(k) =>
        /\ \A t \in Threads : Placing(t, k) => made[t].own = own
        /\ plugin = k /\ stage \notin {"choosing", "preparing", "planning"}
           /\ (\A t \in Threads : ~ Placing(t, k))
           => plans[k].own = own

\* Before the observer runs nothing is announced and no plan is due.
QuietStart ==
    phase \in {"new", "starting"} =>
        /\ events = {} /\ pending = {}
        /\ \A t \in Threads : pc[t] # "armed" /\ changed[t] = {} /\ due[t] = {}

\* What an event has announced is reloaded.
PendingInv ==
    /\ QuietStart
    /\ \A t \in Threads : pc[t] = "clearing" => pending \subseteq changed[t]
    /\ phase = "running" /\ pending # {} =>
          \E t \in Threads : pc[t] \in {"armed", "clearing"}
=============================================================================
