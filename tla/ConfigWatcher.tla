---------------------------- MODULE ConfigWatcher ----------------------------
(***************************************************************************)
(* router/config_watcher.py: the observer thread turns file events into    *)
(* debounce timers, and each timer is a thread that reloads.  A file holds *)
(* the number of the edit that wrote it, or Broken when it cannot be       *)
(* parsed.  "models" and "routing" make up the configuration and the       *)
(* routing table built from it; each kind of plan is made from the models  *)
(* of the configuration, the capability profiles and a file of its own.    *)
(* Files that can be read may still not go together: an agent whose        *)
(* profile is missing, without a "medium" to fall back on, is a KeyError.  *)
(* pc[t] names what timer thread t does next:                              *)
(*   "armed"    waits for its delay, can be cancelled                      *)
(*   "clearing" has copied the set of changed files                        *)
(*   "loading", "swapping", "global", "calling"   the four parts of        *)
(*              _do_reload()'s try block                                   *)
(*   "planning" builds the next plan due, "placing" puts it in place       *)
(* start() makes the first reload in its own thread, here Main, which is   *)
(* free for a timer afterwards, and only then starts the observer.         *)
(***************************************************************************)
EXTENDS Naturals, FiniteSets

CONSTANTS
    Threads,    \* timer threads
    Main,       \* the one of them in whose place start() runs first
    Breakable,  \* files that an edit may leave unparsable
    Overlap,    \* whether a reload may outlast the debounce time
    TornTake,   \* whether an event may come between copying and clearing
    MaxEdits,   \* bound: edits of files
    Ungenerated \* per kind: the versions of the profiles and of its own file
                \* that no plan can be made of

Kinds == {"transaction", "agent"}
OwnFile == [k \in Kinds |-> IF k = "transaction" THEN "templates" ELSE "agents"]
ConfigFiles == {"models", "routing"}
Files == ConfigFiles \cup {"profiles"} \cup {OwnFile[k] : k \in Kinds}

\* Plans are not made again when the profiles change.
WrongTriggers == [k \in Kinds |-> {"models", OwnFile[k]}]

Triggers == [k \in Kinds |-> {"models", "profiles", OwnFile[k]}]

Broken == 0       \* also the version of what was never loaded
Plugins == {"conversation"} \cup Kinds
Versions == 0 .. MaxEdits + 1
Configs == [models : Versions, routing : Versions]
Plans == [models : Versions, own : Versions]
NoPlan == [models |-> Broken, own |-> Broken]
NoConfig == [models |-> Broken, routing |-> Broken]

ASSUME WatcherAssumption ==
    /\ Main \in Threads /\ Breakable \subseteq Files
    /\ Overlap \in BOOLEAN /\ TornTake \in BOOLEAN /\ MaxEdits \in Nat
    /\ Ungenerated \in [Kinds -> SUBSET (Versions \X Versions)]

VARIABLES
    disk,       \* content of each file
    edits,      \* edits so far
    events,     \* files whose event the observer has not handled
    phase,      \* "new", "starting", "running", "cancelled", "stopped", "off"
    plugin,     \* the plug-in that made the watcher, with its callback
    pending,    \* _pending_changed_files
    pc,
    changed,    \* per thread: the files it reloads for
    loaded,     \* per thread: the configuration it has loaded
    due,        \* per thread: the kinds of plan still to make
    made,       \* per thread: the plan it has made
    config,     \* _config and _routing_table, swapped together
    singleton,  \* config.py's _global_config
    router,     \* the configuration and the table that the callback took over
    plans       \* the two plan stores, with the plug-in that uses one

diskVars == <<disk, edits, events>>
threadVars == <<pc, changed, loaded, due, made>>
inUse == <<config, singleton, router, plans>>
watchVars == <<phase, plugin>>
watcherVars == <<diskVars, watchVars, pending, threadVars, inUse>>

-----------------------------------------------------------------------------
OnDisk == [models |-> disk["models"], routing |-> disk["routing"]]
ConfigGood == \A f \in ConfigFiles : disk[f] # Broken
Waiting(t) == pc[t] \in {"free", "armed"}
Watched == phase \in {"running", "cancelled"}

Init ==
    /\ disk = [f \in Files |-> 1]
    /\ edits = 0 /\ events = {} /\ pending = {} /\ phase = "new"
    /\ plugin = "conversation"
    /\ pc = [t \in Threads |-> "free"]
    /\ changed = [t \in Threads |-> {}]
    /\ loaded = [t \in Threads |-> NoConfig]
    /\ due = [t \in Threads |-> {}]
    /\ made = [t \in Threads |-> NoPlan]
    /\ config = NoConfig /\ singleton = NoConfig
    /\ router = [config |-> NoConfig, table |-> NoConfig]
    /\ plans = [k \in Kinds |-> NoPlan]

\* Somebody writes the file; the file system reports it while watched.
Edit(f) ==
    /\ edits < MaxEdits
    /\ edits' = edits + 1
    /\ \E content \in {edits + 2} \cup {Broken : g \in {f} \cap Breakable} :
          disk' = [disk EXCEPT ![f] = content]
    /\ events' = IF Watched THEN events \cup {f} ELSE events
    /\ UNCHANGED <<watchVars, pending, threadVars, inUse>>

\* Cancels the timer and, if one was waiting, starts no other.
WrongSchedule(f) ==
    /\ events' = events \ {f}
    /\ pending' = pending \cup {f}
    /\ IF \E t \in Threads : pc[t] = "armed"
       THEN pc' = [u \in Threads |-> IF pc[u] = "armed" THEN "free" ELSE pc[u]]
       ELSE \E t \in Threads : pc[t] = "free" /\ pc' = [pc EXCEPT ![t] = "armed"]

\* Does not cancel the timer that waits.
WrongCancel(f) ==
    /\ events' = events \ {f}
    /\ pending' = pending \cup {f}
    /\ \E t \in Threads : pc[t] = "free" /\ pc' = [pc EXCEPT ![t] = "armed"]

\* _schedule_reload(): a timer that waits is cancelled, a new one starts.
Schedule(f) ==
    /\ events' = events \ {f}
    /\ pending' = pending \cup {f}
    /\ \E t \in Threads :
          /\ Waiting(t)
          /\ pc' = [u \in Threads |-> IF u = t THEN "armed"
                                      ELSE IF pc[u] = "armed" THEN "free" ELSE pc[u]]

Observe(f) ==
    /\ f \in events
    /\ Watched
    /\ TornTake \/ \A t \in Threads : pc[t] # "clearing"
    /\ Schedule(f)
    /\ UNCHANGED <<disk, edits, watchVars, changed, loaded, due, made, inUse>>

-----------------------------------------------------------------------------
(* _do_reload() in a timer thread.                                         *)

\* The delay is over.
Fire(t) ==
    /\ pc[t] = "armed"
    /\ Overlap \/ \A u \in Threads : Waiting(u)
    /\ changed' = [changed EXCEPT ![t] = pending]
    /\ pc' = [pc EXCEPT ![t] = "clearing"]
    /\ UNCHANGED <<diskVars, watchVars, pending, loaded, due, made, inUse>>

Clear(t) ==
    /\ pc[t] = "clearing"
    /\ pending' = {}
    /\ pc' = [pc EXCEPT ![t] = "loading"]
    /\ UNCHANGED <<diskVars, watchVars, changed, loaded, due, made, inUse>>

\* The plans are made after the try block, whether or not it failed.
MakePlans(t) ==
    /\ due' = [due EXCEPT ![t] = {k \in Kinds : changed[t] \cap Triggers[k] # {}}]
    /\ pc' = [pc EXCEPT ![t] = "planning"]

\* Goes on with what it loaded last time.
WrongLoad(t) ==
    /\ pc[t] = "loading"
    /\ loaded' = [loaded EXCEPT ![t] = IF ConfigGood THEN OnDisk ELSE @]
    /\ pc' = [pc EXCEPT ![t] = "swapping"]
    /\ UNCHANGED <<diskVars, watchVars, pending, changed, due, made, inUse>>

Load(t) ==
    /\ pc[t] = "loading"
    /\ IF ConfigGood
       THEN /\ loaded' = [loaded EXCEPT ![t] = OnDisk]
            /\ pc' = [pc EXCEPT ![t] = "swapping"]
            /\ UNCHANGED due
       ELSE MakePlans(t) /\ UNCHANGED loaded
    /\ UNCHANGED <<diskVars, watchVars, pending, changed, made, inUse>>

Swap(t) ==
    /\ pc[t] = "swapping"
    /\ config' = loaded[t]
    /\ pc' = [pc EXCEPT ![t] = "global"]
    /\ UNCHANGED <<diskVars, watchVars, pending, changed, loaded, due, made,
                   singleton, router, plans>>

\* reload_config() reads the files again; if that fails no callback follows.
ReloadGlobal(t) ==
    /\ pc[t] = "global"
    /\ IF ConfigGood
       THEN /\ singleton' = OnDisk
            /\ pc' = [pc EXCEPT ![t] = "calling"]
            /\ UNCHANGED due
       ELSE MakePlans(t) /\ UNCHANGED singleton
    /\ UNCHANGED <<diskVars, watchVars, pending, changed, loaded, made,
                   config, router, plans>>

\* Asks for the global configuration.
WrongCallBack(t) ==
    /\ pc[t] = "calling"
    /\ router' = IF plugin = "conversation"
                 THEN [config |-> singleton, table |-> loaded[t]] ELSE router
    /\ MakePlans(t)
    /\ UNCHANGED <<diskVars, watchVars, pending, changed, loaded, made,
                   config, singleton, plans>>

\* The router's callback is given the table and asks for the configuration.
CallBack(t) ==
    /\ pc[t] = "calling"
    /\ router' = IF plugin = "conversation"
                 THEN [config |-> config, table |-> loaded[t]] ELSE router
    /\ MakePlans(t)
    /\ UNCHANGED <<diskVars, watchVars, pending, changed, loaded, made,
                   config, singleton, plans>>

NextKind(t) == IF "transaction" \in due[t] THEN "transaction" ELSE "agent"

\* Plans are made from the configuration in use, or from the files while there
\* is none.
Planless == config = NoConfig /\ ~ ConfigGood
PlanModels == IF config = NoConfig THEN disk["models"] ELSE config.models

\* A broken agent file raises an error; broken templates are no templates and
\* broken profiles the built-in ones.
Fails(k) ==
    \/ k = "agent" /\ disk[OwnFile[k]] = Broken
    \/ <<disk["profiles"], disk[OwnFile[k]]>> \in Ungenerated[k]

\* An error keeps the plan in use.
Plan(t) ==
    LET k == NextKind(t)
        own == disk[OwnFile[k]]
    IN  /\ pc[t] = "planning" /\ due[t] # {}
        /\ IF Planless \/ Fails(k)
           THEN due' = [due EXCEPT ![t] = @ \ {k}] /\ UNCHANGED <<pc, made>>
           ELSE /\ made' = [made EXCEPT ![t] =
                              IF own = Broken THEN NoPlan
                              ELSE [models |-> PlanModels, own |-> own]]
                /\ pc' = [pc EXCEPT ![t] = "placing"]
                /\ UNCHANGED due
        /\ UNCHANGED <<diskVars, watchVars, pending, changed, loaded, inUse>>

Place(t) ==
    /\ pc[t] = "placing"
    /\ plans' = [plans EXCEPT ![NextKind(t)] = made[t]]
    /\ due' = [due EXCEPT ![t] = @ \ {NextKind(t)}]
    /\ pc' = [pc EXCEPT ![t] = "planning"]
    /\ UNCHANGED <<diskVars, watchVars, pending, changed, loaded, made,
                   config, singleton, router>>

Finish(t) ==
    /\ pc[t] = "planning" /\ due[t] = {}
    /\ pc' = [pc EXCEPT ![t] = "free"]
    /\ UNCHANGED <<diskVars, watchVars, pending, changed, loaded, due, made, inUse>>

-----------------------------------------------------------------------------
(* start() and stop()                                                      *)

StartReload ==
    /\ phase = "new"
    /\ phase' = "starting"
    /\ pc' = [pc EXCEPT ![Main] = "loading"]
    /\ UNCHANGED <<diskVars, plugin, pending, changed, loaded, due, made, inUse>>

\* The observer may fail to start: then nothing is ever reloaded.
StartObserver ==
    /\ phase = "starting" /\ pc[Main] = "free"
    /\ phase' \in {"running", "off"}
    /\ UNCHANGED <<diskVars, plugin, pending, threadVars, inUse>>

CancelTimer ==
    /\ phase = "running"
    /\ phase' = "cancelled"
    /\ pc' = [t \in Threads |-> IF pc[t] = "armed" THEN "free" ELSE pc[t]]
    /\ UNCHANGED <<diskVars, plugin, pending, changed, loaded, due, made, inUse>>

StopObserver ==
    /\ phase = "cancelled"
    /\ phase' = "stopped"
    /\ UNCHANGED <<diskVars, plugin, pending, threadVars, inUse>>

-----------------------------------------------------------------------------
ReloadStep(t) ==
    \/ Clear(t)
    \/ Load(t)
    \/ Swap(t)
    \/ ReloadGlobal(t)
    \/ CallBack(t)
    \/ Plan(t)
    \/ Place(t)
    \/ Finish(t)

WatcherStep ==
    \/ \E f \in Files : Observe(f)
    \/ CancelTimer
    \/ StopObserver

-----------------------------------------------------------------------------
\* Type invariant.  At most one timer waits: a new event cancels the last one
\* (config_watcher.py, _schedule_reload).
WatcherTypeOK ==
    /\ disk \in [Files -> Versions] /\ edits \in 0 .. MaxEdits
    /\ events \subseteq Files /\ pending \subseteq Files
    /\ phase \in {"new", "starting", "running", "cancelled", "stopped", "off"}
    /\ plugin \in Plugins
    /\ pc \in [Threads -> {"free", "armed", "clearing", "loading", "swapping",
                           "global", "calling", "planning", "placing"}]
    /\ changed \in [Threads -> SUBSET Files] /\ loaded \in [Threads -> Configs]
    /\ due \in [Threads -> SUBSET Kinds] /\ made \in [Threads -> Plans]
    /\ config \in Configs /\ singleton \in Configs
    /\ router \in [config : Configs, table : Configs]
    /\ plans \in [Kinds -> Plans]
    /\ \A t, u \in Threads : pc[t] = "armed" /\ pc[u] = "armed" => t = u

\* No event is left to handle and no thread is at work.
Settled ==
    /\ phase = "running" /\ events = {}
    /\ \A t \in Threads : pc[t] = "free"

\* The router is given the table together with the configuration of its edit.
RouterConsistent == router.config = router.table

\* After stop() no reload starts.
StopIsFinal == phase = "stopped" => \A t \in Threads : pc[t] # "armed"
=============================================================================
