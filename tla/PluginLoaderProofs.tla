------------------------- MODULE PluginLoaderProofs -------------------------
(***************************************************************************)
(* Proofs about PluginLoader and its ConfigWatcher: as long as reloads     *)
(* last less than the debounce time, the router is always given a table    *)
(* together with the configuration of the same edit and never one of an    *)
(* earlier edit, through start-up, failed reloads and stop(); and when all *)
(* is quiet the configuration in use and the plug-in's plan are those of   *)
(* the files on disk; for any number of timer threads and edits.           *)
(***************************************************************************)
EXTENDS PluginLoader, TLAPS

Orderly == ~Overlap /\ ~SlowStart

Idle == \A t \in Threads : Waiting(t)

\* Where the start is, and who is at work during it.
StageInv ==
    /\ stage \in {"choosing", "preparing", "planning", "watching"} =>
          phase = "new" /\ \A t \in Threads : pc[t] = "free"
    /\ stage = "starting" <=> phase = "starting"
    /\ stage = "starting" => \A t \in Threads : t # Main => pc[t] = "free"
    /\ stage \in {"taking", "routing"} => Idle
    /\ stage = "routing" => prepared = config

\* One reload at a time, and what is read is never older than what is in use.
OneReload ==
    \A t, u \in Threads : ~Waiting(t) /\ ~Waiting(u) => t = u

UpToDate(c) ==
    \A f \in ConfigFiles :
        c[f] <= edits + 1 /\ (c[f] <= disk[f] \/ disk[f] = Broken)

ReloadInv(t) ==
    /\ pc[t] = "swapping" =>
          UpToDate(loaded[t]) /\ \A f \in ConfigFiles : config[f] <= loaded[t][f]
    /\ pc[t] \in {"global", "calling"} => config = loaded[t]

LoaderInv ==
    /\ LoaderTypeOK /\ StageInv /\ OneReload
    /\ \A t \in Threads : ReloadInv(t)
    /\ UpToDate(config) /\ \A f \in ConfigFiles : router.table[f] <= config[f]
    /\ RouterConsistent
    /\ \A f \in Files : disk[f] <= edits + 1

-----------------------------------------------------------------------------
(* Types.                                                                  *)

LEMMA OnDiskType == ASSUME WatcherTypeOK PROVE OnDisk \in Configs
<1>1. disk["models"] \in Versions /\ disk["routing"] \in Versions
  BY DEF WatcherTypeOK, Files, ConfigFiles
<1> QED BY <1>1 DEF OnDisk, Configs

LEMMA NothingType == NoConfig \in Configs /\ NoPlan \in Plans
BY WatcherAssumption DEF NoConfig, NoPlan, Configs, Plans, Versions, Broken

LEMMA OwnFiles == \A k \in Kinds : OwnFile[k] \in Files
BY DEF OwnFile, Files

LEMMA InitType == LoaderInit => LoaderTypeOK
<1> SUFFICES ASSUME LoaderInit PROVE LoaderTypeOK
  OBVIOUS
<1>1. disk \in [Files -> Versions] /\ edits \in 0 .. MaxEdits
  BY WatcherAssumption DEF LoaderInit, Init, Versions
<1> QED BY <1>1, NothingType
        DEF LoaderInit, Init, LoaderTypeOK, WatcherTypeOK, Plugins

LEMMA EditType ==
    ASSUME LoaderTypeOK, NEW f \in Files, Edit(f), UNCHANGED startVars,
           missed' \in SUBSET Files
    PROVE  LoaderTypeOK'
<1>1. edits' \in 0 .. MaxEdits /\ edits + 2 \in Versions /\ Broken \in Versions
  BY WatcherAssumption DEF Edit, LoaderTypeOK, WatcherTypeOK, Versions, Broken
<1>2. disk' \in [Files -> Versions]
  BY <1>1 DEF Edit, LoaderTypeOK, WatcherTypeOK
<1>3. events' \in SUBSET Files
  BY DEF Edit, LoaderTypeOK, WatcherTypeOK
<1> QED BY <1>1, <1>2, <1>3
        DEF Edit, LoaderTypeOK, WatcherTypeOK, watchVars, threadVars, inUse, startVars

LEMMA ObserveType ==
    ASSUME LoaderTypeOK, NEW f \in Files, Observe(f), UNCHANGED <<startVars, missed>>
    PROVE  LoaderTypeOK'
<1>1. PICK t \in Threads :
         pc' = [u \in Threads |-> IF u = t THEN "armed"
                                  ELSE IF pc[u] = "armed" THEN "free" ELSE pc[u]]
  BY DEF Observe, Schedule
<1>2. /\ pc' \in [Threads -> {"free", "armed", "clearing", "loading", "swapping",
                              "global", "calling", "planning", "placing"}]
      /\ \A u, v \in Threads : pc'[u] = "armed" /\ pc'[v] = "armed" => u = v
  BY <1>1 DEF LoaderTypeOK, WatcherTypeOK
<1>3. events' \in SUBSET Files /\ pending' \in SUBSET Files
  BY DEF Observe, Schedule, LoaderTypeOK, WatcherTypeOK
<1> QED BY <1>2, <1>3
        DEF Observe, LoaderTypeOK, WatcherTypeOK, watchVars, inUse, startVars

\* A step of one thread that arms no timer.
LEMMA ThreadType ==
    ASSUME LoaderTypeOK, NEW t \in Threads,
           NEW next \in {"free", "clearing", "loading", "swapping", "global",
                         "calling", "planning", "placing"},
           pc' = [pc EXCEPT ![t] = next]
    PROVE  /\ pc' \in [Threads -> {"free", "armed", "clearing", "loading", "swapping",
                                   "global", "calling", "planning", "placing"}]
           /\ \A u, v \in Threads : pc'[u] = "armed" /\ pc'[v] = "armed" => u = v
BY DEF LoaderTypeOK, WatcherTypeOK

LEMMA FireType ==
    ASSUME LoaderTypeOK, NEW t \in Threads, TimerFires(t) PROVE LoaderTypeOK'
<1>1. pc' = [pc EXCEPT ![t] = "clearing"]
  BY DEF TimerFires, Fire
<1> QED BY <1>1, ThreadType
        DEF TimerFires, Fire, LoaderTypeOK, WatcherTypeOK, diskVars, watchVars, inUse,
            startVars

LEMMA PlansDue ==
    ASSUME LoaderTypeOK, NEW t \in Threads, MakePlans(t)
    PROVE  /\ pc' = [pc EXCEPT ![t] = "planning"]
           /\ due' \in [Threads -> SUBSET Kinds]
BY DEF MakePlans, LoaderTypeOK, WatcherTypeOK

LEMMA KindDue ==
    ASSUME LoaderTypeOK, NEW t \in Threads PROVE NextKind(t) \in Kinds
BY DEF NextKind, Kinds

LEMMA PlanType ==
    ASSUME LoaderTypeOK, NEW t \in Threads, Plan(t)
    PROVE  /\ due' \in [Threads -> SUBSET Kinds] /\ made' \in [Threads -> Plans]
           /\ pc' = pc \/ pc' = [pc EXCEPT ![t] = "placing"]
<1> DEFINE k == NextKind(t)
           own == disk[OwnFile[k]]
<1>1. k \in Kinds
  BY KindDue
<1>2. own \in Versions /\ PlanModels \in Versions
  BY <1>1, OwnFiles DEF LoaderTypeOK, WatcherTypeOK, Configs, PlanModels, Files, ConfigFiles
<1>3. [models |-> PlanModels, own |-> own] \in Plans
  BY <1>2 DEF Plans
<1> HIDE DEF k, own
<1>4. \/ due' = [due EXCEPT ![t] = @ \ {k}] /\ UNCHANGED <<pc, made>>
      \/ /\ made' = [made EXCEPT ![t] = IF own = Broken THEN NoPlan
                                        ELSE [models |-> PlanModels, own |-> own]]
         /\ pc' = [pc EXCEPT ![t] = "placing"] /\ UNCHANGED due
  BY DEF Plan, k, own
<1> QED BY <1>3, <1>4, NothingType DEF LoaderTypeOK, WatcherTypeOK

LEMMA ReloadType ==
    ASSUME LoaderTypeOK, NEW t \in Threads, Reloads(t) PROVE LoaderTypeOK'
<1>1. missed' \in SUBSET Files /\ UNCHANGED startVars
  <2>1. NextKind(t) \in Kinds /\ OwnFile[NextKind(t)] \in Files
    BY KindDue, OwnFiles DEF LoaderTypeOK, WatcherTypeOK, Files
  <2> QED BY <2>1 DEF Reloads, LoaderTypeOK
<1> USE DEF LoaderTypeOK, WatcherTypeOK, diskVars, watchVars, inUse, startVars
<1>2. CASE Clear(t)
  BY <1>1, <1>2, ThreadType DEF Clear
<1>3. CASE Load(t)
  <2>1. CASE ConfigGood
    BY <1>1, <1>3, <2>1, ThreadType, OnDiskType DEF Load
  <2>2. CASE ~ConfigGood
    BY <1>1, <1>3, <2>2, ThreadType, PlansDue DEF Load
  <2> QED BY <2>1, <2>2
<1>4. CASE Swap(t)
  BY <1>1, <1>4, ThreadType DEF Swap
<1>5. CASE ReloadGlobal(t)
  <2>1. CASE ConfigGood
    BY <1>1, <1>5, <2>1, ThreadType, OnDiskType DEF ReloadGlobal
  <2>2. CASE ~ConfigGood
    BY <1>1, <1>5, <2>2, ThreadType, PlansDue DEF ReloadGlobal
  <2> QED BY <2>1, <2>2
<1>6. CASE CallBack(t)
  BY <1>1, <1>6, ThreadType, PlansDue DEF CallBack
<1>7. CASE Plan(t)
  BY <1>1, <1>7, ThreadType, PlanType DEF Plan
<1>8. CASE Place(t)
  <2>1. /\ plans' \in [Kinds -> Plans] /\ due' \in [Threads -> SUBSET Kinds]
        /\ pc' = [pc EXCEPT ![t] = "planning"]
    BY <1>8, KindDue DEF Place
  <2> QED BY <1>1, <1>8, <2>1, ThreadType DEF Place
<1>9. CASE Finish(t)
  BY <1>1, <1>9, ThreadType DEF Finish
<1> QED BY <1>2, <1>3, <1>4, <1>5, <1>6, <1>7, <1>8, <1>9 DEF Reloads, ReloadStep

LEMMA StartType == ASSUME LoaderTypeOK, StartUp PROVE LoaderTypeOK'
<1> USE DEF LoaderTypeOK, WatcherTypeOK, diskVars, watchVars, threadVars, inUse,
            startVars, watcherVars
<1>1. CASE ReadPlugin
  BY <1>1 DEF ReadPlugin
<1>2. CASE PrepareConfig
  BY <1>2, OnDiskType DEF PrepareConfig
<1>3. CASE PreparePlans
  <2> DEFINE own == disk[OwnFile[plugin]]
             plan == InitialPlan(own)
  <2>1. CASE plugin \in Kinds
    <3>1. own \in Versions /\ prepared.models \in Versions
      BY <2>1, OwnFiles DEF Configs
    <3>2. plan \in Plans
      BY <3>1, NothingType DEF Plans, InitialPlan
    <3> HIDE DEF plan, own
    <3>3. plans' = plans \/ plans' = [plans EXCEPT ![plugin] = plan]
      BY <1>3 DEF PreparePlans, plan, own
    <3>4. plans' \in [Kinds -> Plans]
      BY <3>2, <3>3
    <3> QED BY <1>3, <3>4 DEF PreparePlans
  <2>2. CASE plugin \notin Kinds
    <3>1. plans' = plans \/ plans' = [plans EXCEPT ![plugin] = plan]
      BY <1>3 DEF PreparePlans
    <3>2. plans' \in [Kinds -> Plans]
      BY <2>2, <3>1
    <3> QED BY <1>3, <3>2 DEF PreparePlans
  <2> QED BY <2>1, <2>2
<1>4. CASE Watch
  BY <1>4, ThreadType, WatcherAssumption DEF Watch, StartReload
<1>5. CASE Watching
  BY <1>5 DEF Watching, StartObserver
<1>6. CASE TakeConfig
  BY <1>6 DEF TakeConfig
<1>7. CASE TakeTable
  BY <1>7 DEF TakeTable
<1> QED BY <1>1, <1>2, <1>3, <1>4, <1>5, <1>6, <1>7 DEF StartUp

LEMMA StopType ==
    ASSUME LoaderTypeOK, CancelTimer \/ StopObserver, UNCHANGED <<startVars, missed>>
    PROVE  LoaderTypeOK'
<1>1. CASE CancelTimer
  BY <1>1 DEF CancelTimer, LoaderTypeOK, WatcherTypeOK, diskVars, inUse, startVars
<1>2. CASE StopObserver
  BY <1>2 DEF StopObserver, LoaderTypeOK, WatcherTypeOK, diskVars, threadVars, inUse,
              startVars
<1> QED BY <1>1, <1>2

LEMMA NextType == ASSUME LoaderTypeOK, [Next]_vars PROVE LoaderTypeOK'
<1>1. ASSUME NEW f \in Files, Write(f) PROVE LoaderTypeOK'
  <2>1. missed' \in SUBSET Files
    BY <1>1 DEF Write, LoaderTypeOK
  <2> QED BY <1>1, <2>1, EditType DEF Write
<1>2. CASE UNCHANGED vars
  BY <1>2 DEF vars, watcherVars, startVars, diskVars, watchVars, threadVars, inUse,
              LoaderTypeOK, WatcherTypeOK
<1> QED BY <1>1, <1>2, StartType, FireType, ReloadType, ObserveType, StopType
        DEF Next, WatcherStep

-----------------------------------------------------------------------------
(* The invariant.                                                          *)

LEMMA Ordering ==
    ASSUME WatcherTypeOK
    PROVE  /\ \A f \in ConfigFiles : OnDisk[f] = disk[f] /\ f \in Files
           /\ edits \in Nat /\ MaxEdits \in Nat
           /\ \A f \in Files : disk[f] \in Nat
           /\ \A c \in Configs : \A f \in ConfigFiles : c[f] \in Nat
BY WatcherAssumption
   DEF WatcherTypeOK, OnDisk, ConfigFiles, Files, Configs, Versions

LEMMA InitInv == LoaderInit => LoaderInv
<1> SUFFICES ASSUME LoaderInit PROVE LoaderInv
  OBVIOUS
<1>1. LoaderTypeOK
  BY InitType
<1>2. StageInv /\ OneReload /\ RouterConsistent /\ \A t \in Threads : ReloadInv(t)
  BY DEF LoaderInit, Init, StageInv, OneReload, Waiting, ReloadInv, RouterConsistent
<1>3. UpToDate(config) /\ \A f \in ConfigFiles : router.table[f] <= config[f]
  BY DEF LoaderInit, Init, UpToDate, NoConfig, Broken, ConfigFiles, Files
<1>4. \A f \in Files : disk[f] <= edits + 1
  BY DEF LoaderInit, Init
<1> QED BY <1>1, <1>2, <1>3, <1>4 DEF LoaderInv

\* An edit makes nothing that was read newer than the file.
LEMMA EditInv ==
    ASSUME LoaderInv, NEW f \in Files, Write(f) PROVE LoaderInv'
<1>1. LoaderTypeOK /\ LoaderTypeOK'
  BY NextType DEF LoaderInv, Next
<1>2. /\ edits' = edits + 1
      /\ \E content \in {edits + 2, Broken} : disk' = [disk EXCEPT ![f] = content]
      /\ UNCHANGED <<phase, plugin, pending, pc, changed, loaded, due, made,
                     config, singleton, router, plans, stage, prepared>>
  BY DEF Write, Edit, watchVars, threadVars, inUse, startVars
<1>3. \A g \in Files : disk'[g] <= edits' + 1
  BY <1>1, <1>2, Ordering DEF LoaderInv, LoaderTypeOK, WatcherTypeOK, Broken
<1>4. ASSUME NEW c \in Configs, UpToDate(c) PROVE UpToDate(c)'
  <2> SUFFICES ASSUME NEW g \in ConfigFiles
               PROVE  c[g] <= edits' + 1 /\ (c[g] <= disk'[g] \/ disk'[g] = Broken)
    BY DEF UpToDate
  <2>1. c[g] \in Nat /\ edits \in Nat /\ g \in Files
    BY <1>1, Ordering DEF LoaderTypeOK
  <2>2. c[g] <= edits + 1 /\ (c[g] <= disk[g] \/ disk[g] = Broken)
    BY <1>4 DEF UpToDate
  <2>3. disk'[g] = disk[g] \/ disk'[g] = edits + 2 \/ disk'[g] = Broken
    BY <1>1, <1>2, <2>1 DEF LoaderTypeOK, WatcherTypeOK
  <2> QED BY <1>2, <2>1, <2>2, <2>3
<1>5. UpToDate(config)'
  BY <1>1, <1>2, <1>4 DEF LoaderInv, LoaderTypeOK, WatcherTypeOK, UpToDate
<1>6. ASSUME NEW t \in Threads PROVE ReloadInv(t)'
  <2>1. loaded[t] \in Configs
    BY <1>1 DEF LoaderTypeOK, WatcherTypeOK
  <2>2. pc[t] = "swapping" => UpToDate(loaded[t])'
    BY <1>4, <1>2, <2>1 DEF LoaderInv, ReloadInv, UpToDate
  <2> QED BY <1>2, <2>2 DEF LoaderInv, ReloadInv, UpToDate
<1>7. StageInv' /\ OneReload' /\ RouterConsistent'
  BY <1>2 DEF LoaderInv, StageInv, OneReload, Idle, Waiting, RouterConsistent
<1> QED BY <1>1, <1>2, <1>3, <1>5, <1>6, <1>7 DEF LoaderInv

\* The part of the invariant that is about what is in use and on disk.
InUseInv ==
    /\ UpToDate(config) /\ \A f \in ConfigFiles : router.table[f] <= config[f]
    /\ RouterConsistent /\ \A f \in Files : disk[f] <= edits + 1

LEMMA InUseFrame ==
    ASSUME InUseInv, UNCHANGED <<disk, edits, config, router>> PROVE InUseInv'
BY DEF InUseInv, UpToDate, RouterConsistent

LEMMA ObserveInv ==
    ASSUME LoaderInv, NEW f \in Files, Observe(f), UNCHANGED <<startVars, missed>>
    PROVE  LoaderInv'
<1>1. LoaderTypeOK /\ LoaderTypeOK'
  BY ObserveType DEF LoaderInv
<1>2. PICK t \in Threads :
         /\ Waiting(t)
         /\ pc' = [u \in Threads |-> IF u = t THEN "armed"
                                     ELSE IF pc[u] = "armed" THEN "free" ELSE pc[u]]
  BY DEF Observe, Schedule
<1>3. UNCHANGED <<disk, edits, phase, plugin, changed, loaded, due, made,
                  config, singleton, router, plans, stage, prepared>>
  BY DEF Observe, watchVars, inUse, startVars
<1>4. \A u \in Threads : \/ Waiting(u) /\ Waiting(u)'
                         \/ pc'[u] = pc[u] /\ Waiting(u)' = Waiting(u)
  BY <1>1, <1>2 DEF Waiting
<1>5. phase # "new" /\ phase # "starting"
  BY DEF Observe, Watched
<1>6. StageInv'
  BY <1>3, <1>4, <1>5 DEF LoaderInv, StageInv, Idle
<1>7. OneReload'
  BY <1>4 DEF LoaderInv, OneReload
<1>8. ASSUME NEW u \in Threads PROVE ReloadInv(u)'
  BY <1>3, <1>4 DEF LoaderInv, ReloadInv, Waiting, UpToDate
<1>9. InUseInv'
  BY <1>3, InUseFrame DEF LoaderInv, InUseInv
<1> QED BY <1>1, <1>6, <1>7, <1>8, <1>9 DEF LoaderInv, InUseInv

LEMMA FireInv ==
    ASSUME Orderly, LoaderInv, NEW t \in Threads, TimerFires(t) PROVE LoaderInv'
<1>1. LoaderTypeOK /\ LoaderTypeOK'
  BY FireType DEF LoaderInv
<1>2. /\ stage = "serving" /\ Idle /\ pc' = [pc EXCEPT ![t] = "clearing"]
      /\ UNCHANGED <<disk, edits, phase, plugin, loaded, config, singleton, router,
                     plans, stage, prepared>>
  BY DEF TimerFires, Fire, Orderly, Idle, diskVars, watchVars, inUse, startVars
<1>3. StageInv'
  BY <1>2 DEF LoaderInv, StageInv
<1>4. OneReload'
  BY <1>1, <1>2 DEF OneReload, Idle, Waiting, LoaderTypeOK, WatcherTypeOK
<1>5. ASSUME NEW u \in Threads PROVE ReloadInv(u)'
  BY <1>1, <1>2 DEF LoaderInv, ReloadInv, Idle, Waiting, LoaderTypeOK, WatcherTypeOK
<1>6. InUseInv'
  BY <1>2, InUseFrame DEF LoaderInv, InUseInv
<1> QED BY <1>1, <1>3, <1>4, <1>5, <1>6 DEF LoaderInv, InUseInv

\* A reload goes on in the thread that is at work, whatever its step changes.
LEMMA ReloadFrame ==
    ASSUME LoaderInv, LoaderTypeOK', NEW t \in Threads, ~Waiting(t),
           NEW next \in {"free", "loading", "swapping", "global", "calling",
                         "planning", "placing"},
           pc' = [pc EXCEPT ![t] = next], UNCHANGED <<phase, stage, prepared>>,
           stage = "routing" => UNCHANGED config,
           ReloadInv(t)', InUseInv'
    PROVE  LoaderInv'
<1>1. LoaderTypeOK
  BY DEF LoaderInv
<1>2. \A u \in Threads : u # t => Waiting(u) /\ pc'[u] = pc[u]
  BY <1>1 DEF LoaderInv, OneReload, LoaderTypeOK, WatcherTypeOK
<1>3. OneReload'
  BY <1>2 DEF OneReload, Waiting
<1>4. ASSUME NEW u \in Threads PROVE ReloadInv(u)'
  BY <1>2 DEF ReloadInv, Waiting
<1>5. StageInv'
  BY <1>2 DEF LoaderInv, StageInv, Idle, Waiting
<1> QED BY <1>3, <1>4, <1>5 DEF LoaderInv, InUseInv

LEMMA ReloadsInv ==
    ASSUME LoaderInv, NEW t \in Threads, Reloads(t) PROVE LoaderInv'
<1>0. LoaderTypeOK /\ LoaderTypeOK' /\ ReloadInv(t) /\ InUseInv
  BY ReloadType DEF LoaderInv, InUseInv
<1>1. UNCHANGED <<stage, prepared>>
  BY DEF Reloads, startVars
<1> USE DEF diskVars, watchVars, inUse
<1>2. ~Waiting(t)
  BY DEF Reloads, ReloadStep, Clear, Load, Swap, ReloadGlobal, CallBack, Plan, Place,
         Finish, Waiting
<1>3. stage # "routing"
  BY <1>2 DEF LoaderInv, StageInv, Idle
<1>4. CASE Clear(t)
  <2>1. /\ pc' = [pc EXCEPT ![t] = "loading"]
        /\ UNCHANGED <<disk, edits, config, router, phase>>
    BY <1>4 DEF Clear
  <2>2. ReloadInv(t)'
    BY <1>0, <2>1 DEF ReloadInv, LoaderTypeOK, WatcherTypeOK
  <2> QED BY <1>0, <1>1, <1>2, <1>3, <2>1, <2>2, InUseFrame, ReloadFrame
<1>5. CASE Load(t)
  <2>1. CASE ConfigGood
    <3>1. /\ pc' = [pc EXCEPT ![t] = "swapping"]
          /\ loaded' = [loaded EXCEPT ![t] = OnDisk]
          /\ UNCHANGED <<disk, edits, config, router, phase>>
      BY <1>5, <2>1 DEF Load
    <3>2. loaded'[t] = OnDisk /\ pc'[t] = "swapping"
      BY <1>0, <3>1 DEF LoaderTypeOK, WatcherTypeOK
    <3>3. \A f \in ConfigFiles : /\ OnDisk[f] = disk[f] /\ disk[f] # Broken
                                 /\ disk[f] <= edits + 1 /\ config[f] <= disk[f]
      BY <1>0, <2>1, Ordering DEF LoaderTypeOK, ConfigGood, InUseInv, UpToDate
    <3>4. \A f \in ConfigFiles : disk[f] <= disk[f]
      BY <1>0, Ordering DEF LoaderTypeOK
    <3>5. ReloadInv(t)'
      BY <3>1, <3>2, <3>3, <3>4 DEF ReloadInv, UpToDate
    <3> QED BY <1>0, <1>1, <1>2, <1>3, <3>1, <3>5, InUseFrame, ReloadFrame
  <2>2. CASE ~ConfigGood
    <3>1. /\ pc' = [pc EXCEPT ![t] = "planning"]
          /\ UNCHANGED <<disk, edits, config, router, phase>>
      BY <1>5, <2>2 DEF Load, MakePlans
    <3>2. ReloadInv(t)'
      BY <1>0, <3>1 DEF ReloadInv, LoaderTypeOK, WatcherTypeOK
    <3> QED BY <1>0, <1>1, <1>2, <1>3, <3>1, <3>2, InUseFrame, ReloadFrame
  <2> QED BY <2>1, <2>2
<1>6. CASE Swap(t)
  <2>1. /\ pc[t] = "swapping" /\ pc' = [pc EXCEPT ![t] = "global"]
        /\ config' = loaded[t] /\ UNCHANGED <<disk, edits, loaded, router, phase>>
    BY <1>6 DEF Swap
  <2>2. pc'[t] = "global"
    BY <1>0, <2>1 DEF LoaderTypeOK, WatcherTypeOK
  <2>3. ReloadInv(t)'
    BY <2>1, <2>2 DEF ReloadInv
  <2>4. UpToDate(config)'
    BY <1>0, <2>1 DEF ReloadInv, UpToDate
  <2>5. \A f \in ConfigFiles : router.table[f] <= config'[f]
    <3> SUFFICES ASSUME NEW f \in ConfigFiles PROVE router.table[f] <= loaded[t][f]
      BY <2>1
    <3>1. router.table[f] <= config[f] /\ config[f] <= loaded[t][f]
      BY <1>0, <2>1 DEF InUseInv, ReloadInv
    <3>2. router.table[f] \in Nat /\ config[f] \in Nat /\ loaded[t][f] \in Nat
      BY <1>0, Ordering DEF LoaderTypeOK, WatcherTypeOK
    <3> QED BY <3>1, <3>2
  <2>6. InUseInv'
    BY <1>0, <2>1, <2>4, <2>5 DEF InUseInv, RouterConsistent
  <2> QED BY <1>0, <1>1, <1>2, <1>3, <2>1, <2>3, <2>6, ReloadFrame
<1>7. CASE ReloadGlobal(t)
  <2>1. CASE ConfigGood
    <3>1. /\ pc[t] = "global" /\ pc' = [pc EXCEPT ![t] = "calling"]
          /\ UNCHANGED <<disk, edits, loaded, config, router, phase>>
      BY <1>7, <2>1 DEF ReloadGlobal
    <3>2. ReloadInv(t)'
      BY <1>0, <3>1 DEF ReloadInv, LoaderTypeOK, WatcherTypeOK
    <3> QED BY <1>0, <1>1, <1>2, <1>3, <3>1, <3>2, InUseFrame, ReloadFrame
  <2>2. CASE ~ConfigGood
    <3>1. /\ pc' = [pc EXCEPT ![t] = "planning"]
          /\ UNCHANGED <<disk, edits, config, router, phase>>
      BY <1>7, <2>2 DEF ReloadGlobal, MakePlans
    <3>2. ReloadInv(t)'
      BY <1>0, <3>1 DEF ReloadInv, LoaderTypeOK, WatcherTypeOK
    <3> QED BY <1>0, <1>1, <1>2, <1>3, <3>1, <3>2, InUseFrame, ReloadFrame
  <2> QED BY <2>1, <2>2
<1>8. CASE CallBack(t)
  <2>1. /\ pc[t] = "calling" /\ pc' = [pc EXCEPT ![t] = "planning"]
        /\ router' = router \/ router' = [config |-> config, table |-> loaded[t]]
        /\ UNCHANGED <<disk, edits, loaded, config, phase>>
    BY <1>8 DEF CallBack, MakePlans
  <2>2. ReloadInv(t)'
    BY <1>0, <2>1 DEF ReloadInv, LoaderTypeOK, WatcherTypeOK
  <2>3. config = loaded[t] /\ \A f \in ConfigFiles : config[f] <= config[f]
    BY <1>0, <2>1, Ordering DEF ReloadInv, LoaderTypeOK, WatcherTypeOK
  <2>4. InUseInv'
    BY <1>0, <2>1, <2>3 DEF InUseInv, RouterConsistent, UpToDate
  <2> QED BY <1>0, <1>1, <1>2, <1>3, <2>1, <2>2, <2>4, ReloadFrame
<1>9. CASE Plan(t)
  <2>1. /\ pc[t] = "planning"
        /\ pc' = [pc EXCEPT ![t] = "planning"] \/ pc' = [pc EXCEPT ![t] = "placing"]
        /\ UNCHANGED <<disk, edits, config, router, phase>>
    BY <1>0, <1>9, PlanType DEF Plan, LoaderTypeOK, WatcherTypeOK
  <2>2. ReloadInv(t)'
    BY <1>0, <2>1 DEF ReloadInv, LoaderTypeOK, WatcherTypeOK
  <2> QED BY <1>0, <1>1, <1>2, <1>3, <2>1, <2>2, InUseFrame, ReloadFrame
<1>10. CASE Place(t)
  <2>1. /\ pc' = [pc EXCEPT ![t] = "planning"]
        /\ UNCHANGED <<disk, edits, config, router, phase>>
    BY <1>10 DEF Place
  <2>2. ReloadInv(t)'
    BY <1>0, <2>1 DEF ReloadInv, LoaderTypeOK, WatcherTypeOK
  <2> QED BY <1>0, <1>1, <1>2, <1>3, <2>1, <2>2, InUseFrame, ReloadFrame
<1>11. CASE Finish(t)
  <2>1. /\ pc' = [pc EXCEPT ![t] = "free"]
        /\ UNCHANGED <<disk, edits, config, router, phase>>
    BY <1>11 DEF Finish
  <2>2. ReloadInv(t)'
    BY <1>0, <2>1 DEF ReloadInv, LoaderTypeOK, WatcherTypeOK
  <2> QED BY <1>0, <1>1, <1>2, <1>3, <2>1, <2>2, InUseFrame, ReloadFrame
<1> QED BY <1>4, <1>5, <1>6, <1>7, <1>8, <1>9, <1>10, <1>11 DEF Reloads, ReloadStep

\* The steps of the start-up: no reload is at work when the router is set up.
LEMMA StartInv == ASSUME LoaderInv, StartUp PROVE LoaderInv'
<1>0. LoaderTypeOK /\ LoaderTypeOK' /\ InUseInv /\ StageInv
  BY StartType DEF LoaderInv, InUseInv
<1> USE DEF diskVars, watchVars, threadVars, inUse, watcherVars
<1>1. ASSUME UNCHANGED <<pc, loaded, config>>,
             UpToDate(config)', StageInv', InUseInv'
      PROVE  LoaderInv'
  <2>1. OneReload'
    BY <1>1 DEF LoaderInv, OneReload, Waiting
  <2>2. ASSUME NEW t \in Threads, UNCHANGED <<disk, edits>> PROVE ReloadInv(t)'
    BY <1>1, <2>2 DEF LoaderInv, ReloadInv, UpToDate
  <2>3. UNCHANGED <<disk, edits>>
    BY DEF StartUp, ReadPlugin, PrepareConfig, PreparePlans, Watch, StartReload,
           Watching, StartObserver, TakeConfig, TakeTable
  <2> QED BY <1>0, <1>1, <2>1, <2>2, <2>3 DEF LoaderInv, InUseInv
<1>2. CASE ReadPlugin \/ PrepareConfig \/ PreparePlans
  <2>1. /\ phase = "new" /\ \A t \in Threads : pc[t] = "free"
        /\ stage' \in {"choosing", "preparing", "planning", "watching"}
        /\ UNCHANGED <<phase, pc, loaded, disk, edits, config, router>>
    BY <1>0, <1>2 DEF ReadPlugin, PrepareConfig, PreparePlans, StageInv
  <2>2. StageInv'
    BY <2>1 DEF StageInv
  <2>3. InUseInv'
    BY <1>0, <2>1, InUseFrame
  <2> QED BY <1>1, <2>1, <2>2, <2>3 DEF InUseInv
<1>3. CASE Watch
  <2>1. /\ \A t \in Threads : pc[t] = "free"
        /\ phase' = "starting" /\ stage' = "starting"
        /\ pc' = [pc EXCEPT ![Main] = "loading"]
        /\ UNCHANGED <<loaded, disk, edits, config, router>>
    BY <1>0, <1>3 DEF Watch, StartReload, StageInv
  <2>2. \A t \in Threads : t # Main => pc'[t] = "free"
    BY <1>0, <2>1 DEF LoaderTypeOK, WatcherTypeOK
  <2>3. StageInv'
    BY <2>1, <2>2 DEF StageInv
  <2>4. OneReload'
    BY <2>2 DEF OneReload, Waiting
  <2>5. ASSUME NEW t \in Threads PROVE ReloadInv(t)'
    BY <1>0, <2>1, <2>2 DEF ReloadInv, LoaderTypeOK, WatcherTypeOK
  <2>6. InUseInv'
    BY <1>0, <2>1, InUseFrame
  <2> QED BY <1>0, <2>3, <2>4, <2>5, <2>6 DEF LoaderInv, InUseInv
<1>4. CASE Watching
  <2>1. /\ phase = "starting" /\ pc[Main] = "free" /\ phase' \in {"running", "off"}
        /\ stage' \in {"taking", "serving"}
        /\ UNCHANGED <<pc, loaded, disk, edits, config, router>>
    BY <1>4 DEF Watching, StartObserver
  <2>2. \A t \in Threads : pc[t] = "free"
    BY <1>0, <2>1 DEF StageInv
  <2>3. StageInv'
    BY <2>1, <2>2 DEF StageInv, Idle, Waiting
  <2>4. InUseInv'
    BY <1>0, <2>1, InUseFrame
  <2> QED BY <1>1, <2>1, <2>3, <2>4 DEF InUseInv
<1>5. CASE TakeConfig
  <2>1. /\ stage = "taking" /\ prepared' = config /\ stage' \in {"serving", "routing"}
        /\ UNCHANGED <<phase, pc, loaded, disk, edits, config, router>>
    BY <1>5 DEF TakeConfig
  <2>2. StageInv'
    BY <1>0, <2>1 DEF StageInv, Idle, Waiting
  <2>3. InUseInv'
    BY <1>0, <2>1, InUseFrame
  <2> QED BY <1>1, <2>1, <2>2, <2>3 DEF InUseInv
<1>6. CASE TakeTable
  <2>1. /\ stage = "routing" /\ router' = [config |-> prepared, table |-> config]
        /\ stage' = "serving"
        /\ UNCHANGED <<phase, pc, loaded, disk, edits, config>>
    BY <1>6 DEF TakeTable
  <2>2. prepared = config /\ phase # "starting"
    BY <1>0, <2>1 DEF StageInv
  <2>3. StageInv'
    BY <2>1, <2>2 DEF StageInv
  <2>4. \A f \in ConfigFiles : config[f] <= config[f]
    BY <1>0, Ordering DEF LoaderTypeOK, WatcherTypeOK
  <2>5. InUseInv'
    BY <1>0, <2>1, <2>2, <2>4 DEF InUseInv, UpToDate, RouterConsistent
  <2> QED BY <1>1, <2>1, <2>3, <2>5 DEF InUseInv
<1> QED BY <1>2, <1>3, <1>4, <1>5, <1>6 DEF StartUp

LEMMA StopInv ==
    ASSUME LoaderInv, CancelTimer \/ StopObserver, UNCHANGED <<startVars, missed>>
    PROVE  LoaderInv'
<1>0. LoaderTypeOK /\ LoaderTypeOK' /\ InUseInv
  BY StopType DEF LoaderInv, InUseInv
<1>1. /\ phase \in {"running", "cancelled"} /\ phase' \in {"cancelled", "stopped"}
      /\ UNCHANGED <<disk, edits, loaded, config, router, stage, prepared>>
      /\ \A t \in Threads : \/ Waiting(t) /\ Waiting(t)'
                            \/ pc'[t] = pc[t] /\ Waiting(t)' = Waiting(t)
  BY <1>0 DEF CancelTimer, StopObserver, diskVars, threadVars, inUse, startVars, Waiting,
              LoaderTypeOK, WatcherTypeOK
<1>2. StageInv'
  BY <1>1 DEF LoaderInv, StageInv, Idle
<1>3. OneReload'
  BY <1>1 DEF LoaderInv, OneReload
<1>4. ASSUME NEW u \in Threads PROVE ReloadInv(u)'
  BY <1>1 DEF LoaderInv, ReloadInv, Waiting, UpToDate
<1>5. InUseInv'
  BY <1>0, <1>1, InUseFrame
<1> QED BY <1>0, <1>2, <1>3, <1>4, <1>5 DEF LoaderInv, InUseInv

LEMMA NextInv == ASSUME Orderly, LoaderInv, [Next]_vars PROVE LoaderInv'
<1>1. CASE UNCHANGED vars
  <2>1. LoaderTypeOK'
    BY <1>1, NextType DEF LoaderInv
  <2>2. UNCHANGED <<disk, edits, phase, pc, loaded, config, router, stage, prepared>>
    BY <1>1 DEF vars, watcherVars, startVars, diskVars, watchVars, threadVars, inUse
  <2> QED BY <2>1, <2>2 DEF LoaderInv, StageInv, OneReload, ReloadInv, UpToDate, Idle,
                            Waiting, RouterConsistent
<1> QED BY <1>1, EditInv, ObserveInv, FireInv, ReloadsInv, StartInv, StopInv
        DEF Next, WatcherStep

-----------------------------------------------------------------------------
\* Every variable keeps its type and no two timers wait at once, whatever
\* reloads overlap.
THEOREM LoaderTypes == Spec => []LoaderTypeOK
<1>1. LoaderInit => LoaderTypeOK
  BY InitType
<1>2. LoaderTypeOK /\ [Next]_vars => LoaderTypeOK'
  BY NextType
<1> QED BY <1>1, <1>2, PTL DEF Spec

\* The inductive invariant.
THEOREM LoaderInvariant == Orderly => (Spec => []LoaderInv)
<1> SUFFICES ASSUME Orderly PROVE Spec => []LoaderInv
  OBVIOUS
<1>1. LoaderInit => LoaderInv
  BY InitInv
<1>2. LoaderInv /\ [Next]_vars => LoaderInv'
  BY NextInv
<1> QED BY <1>1, <1>2, PTL DEF Spec

\* The table that the router uses was built from the configuration it uses.
THEOREM LoaderRouterConsistent == Orderly => (Spec => []RouterConsistent)
<1>1. LoaderInv => RouterConsistent
  BY DEF LoaderInv
<1> QED BY <1>1, LoaderInvariant, PTL

\* The router never goes back to the table of an earlier edit.
THEOREM LoaderNeverBackwards == Orderly => (Spec => NeverBackwards)
<1> SUFFICES ASSUME Orderly PROVE Spec => NeverBackwards
  OBVIOUS
<1>1. LoaderInv /\ [Next]_vars
      => [\A f \in ConfigFiles : router'.table[f] >= router.table[f]]_vars
  <2> SUFFICES ASSUME LoaderInv, Next
               PROVE  \A f \in ConfigFiles : router'.table[f] >= router.table[f]
    OBVIOUS
  <2>0. LoaderTypeOK /\ \A f \in ConfigFiles : router.table[f] <= config[f]
    BY DEF LoaderInv
  <2>1. \/ router' = router
        \/ router'.table = config
        \/ \E t \in Threads : pc[t] = "calling" /\ router'.table = loaded[t]
    BY DEF Next, StartUp, ReadPlugin, PrepareConfig, PreparePlans, Watch, StartReload,
           Watching, StartObserver, TakeConfig, TakeTable, Write, Edit, TimerFires, Fire,
           Reloads, ReloadStep, Clear, Load, Swap, ReloadGlobal, CallBack, Plan, Place,
           Finish, WatcherStep, Observe, CancelTimer, StopObserver, inUse, watcherVars
  <2>2. router'.table = router.table \/ router'.table = config
    BY <2>1 DEF LoaderInv, ReloadInv
  <2> SUFFICES ASSUME NEW f \in ConfigFiles PROVE router'.table[f] >= router.table[f]
    OBVIOUS
  <2>3. router.table[f] \in Nat /\ config[f] \in Nat
    BY <2>0, Ordering DEF LoaderTypeOK, WatcherTypeOK
  <2> QED BY <2>0, <2>2, <2>3
<1> QED BY <1>1, LoaderInvariant, PTL DEF Spec, NeverBackwards

-----------------------------------------------------------------------------
(* The configuration in use converges to the files.                        *)

\* A plan's own file is not part of the configuration.
LEMMA OwnApart ==
    \A k \in Kinds : OwnFile[k] \notin ConfigFiles /\ OwnFile[k] \in Files /\ OwnFile[k] # "profiles"
BY DEF Kinds, OwnFile, ConfigFiles, Files

\* The files are good, and a reload that is done has read them.
ConfigDue ==
    /\ phase \in {"starting", "running"}
    /\ ConfigGood /\ missed \cap ConfigFiles = {} /\ ~ ReloadComes

\* A step that neither reads nor replaces a configuration.
LEMMA ConfigFrame ==
    ASSUME ConfigInv, ConfigDue' => ConfigDue,
           UNCHANGED <<loaded, config, singleton, router>>,
           ConfigDue' => plugin' = plugin /\ OnDisk' = OnDisk,
           \A t \in Threads :
              \/ pc'[t] = pc[t]
              \/ {pc[t], pc'[t]} \cap {"swapping", "global", "calling"} = {}
    PROVE  ConfigInv'
<1> SUFFICES ASSUME ConfigDue' PROVE ConfigInv'
  BY DEF ConfigInv, ConfigDue
<1>1. ConfigDue /\ plugin' = plugin /\ OnDisk' = OnDisk
  OBVIOUS
<1>2. \A t \in Threads : \A place \in {"swapping", "global", "calling"} :
         pc'[t] = place <=> pc[t] = place
  OBVIOUS
<1> QED BY <1>1, <1>2 DEF ConfigInv, ConfigDue

\* An edit is announced by an event, or nobody knows of it.
LEMMA ConfigWrite ==
    ASSUME LoaderInv, ConfigInv, NEW f \in Files, Write(f) PROVE ConfigInv'
<1>0. disk \in [Files -> Versions]
  BY DEF LoaderInv, LoaderTypeOK, WatcherTypeOK
<1>1. /\ \E content \in {edits + 2, Broken} : disk' = [disk EXCEPT ![f] = content]
      /\ UNCHANGED <<phase, plugin, pc, loaded, config, singleton, router>>
  BY DEF Write, Edit, watchVars, threadVars, inUse
<1>2. CASE Watched
  <2>1. events' # {}
    BY <1>2 DEF Write, Edit
  <2> QED BY <2>1 DEF ConfigInv, ReloadComes
<1>3. CASE ~ Watched /\ f \in ConfigFiles
  <2>1. f \in missed'
    BY <1>3 DEF Write
  <2> QED BY <1>3, <2>1 DEF ConfigInv
<1>4. CASE ~ Watched /\ f \notin ConfigFiles
  <2>1. missed' = missed \cup {f} /\ events' = events
    BY <1>4 DEF Write, Edit
  <2>2. \A g \in ConfigFiles : g \in Files /\ disk'[g] = disk[g]
    BY <1>0, <1>1, <1>4 DEF ConfigFiles, Files
  <2>3. OnDisk' = OnDisk /\ ConfigGood' = ConfigGood
    BY <2>2 DEF OnDisk, ConfigGood, ConfigFiles
  <2>4. ConfigDue' => ConfigDue
    BY <1>1, <2>1, <2>3 DEF ConfigDue, ReloadComes
  <2> QED BY <1>1, <2>3, <2>4, ConfigFrame
<1> QED BY <1>2, <1>3, <1>4

\* What a reload has read is in use as far as it has come.
LEMMA ConfigReloads ==
    ASSUME LoaderInv, ConfigInv, NEW t \in Threads, Reloads(t) PROVE ConfigInv'
<1>0. LoaderTypeOK /\ ReloadInv(t) /\ pc \in [Threads -> {"free", "armed", "clearing",
            "loading", "swapping", "global", "calling", "planning", "placing"}]
  BY DEF LoaderInv, LoaderTypeOK, WatcherTypeOK
<1> USE DEF diskVars, watchVars, inUse
<1>1. ~ Waiting(t)
  BY DEF Reloads, ReloadStep, Clear, Load, Swap, ReloadGlobal, CallBack, Plan, Place,
         Finish, Waiting
<1>2. \A u \in Threads : u # t => Waiting(u)
  BY <1>1 DEF LoaderInv, OneReload
<1>3. UNCHANGED <<disk, events, phase, plugin>> /\ OnDisk' = OnDisk /\ ConfigGood' = ConfigGood
  BY DEF Reloads, ReloadStep, Clear, Load, Swap, ReloadGlobal, CallBack, Plan, Place,
         Finish, OnDisk, ConfigGood
<1>4. \A u \in Threads : u # t => pc'[u] = pc[u]
  BY <1>0 DEF Reloads, ReloadStep, Clear, Load, Swap, ReloadGlobal, CallBack, Plan, Place,
         Finish, MakePlans
<1>5. CASE Clear(t)
  <2>1. pc'[t] = "loading"
    BY <1>0, <1>5 DEF Clear
  <2> QED BY <2>1 DEF ConfigInv, ReloadComes
<1>6. CASE Load(t)
  <2>1. CASE ConfigGood
    <3>1. loaded'[t] = OnDisk /\ pc'[t] = "swapping"
      BY <1>0, <1>6, <2>1 DEF Load, LoaderTypeOK, WatcherTypeOK
    <3>2. \A u \in Threads : pc'[u] = "swapping" => u = t
      BY <1>2, <1>4 DEF Waiting
    <3> QED BY <1>3, <3>1, <3>2 DEF ConfigInv
  <2>2. CASE ~ ConfigGood
    BY <1>3, <2>2 DEF ConfigInv
  <2> QED BY <2>1, <2>2
<1>7. CASE Swap(t) \/ ReloadGlobal(t) \/ CallBack(t)
  <2>1. missed' = missed /\ pc[t] \in {"swapping", "global", "calling"}
    BY <1>7 DEF Reloads, Swap, ReloadGlobal, CallBack
  <2>2. ReloadComes => ReloadComes'
    BY <1>3, <1>4, <2>1 DEF ReloadComes
  <2> SUFFICES ASSUME ConfigDue' PROVE ConfigInv'
    BY DEF ConfigInv, ConfigDue
  <2>3. ConfigDue
    BY <1>3, <2>1, <2>2 DEF ConfigDue
  <2>4. \A u \in Threads : pc'[u] \in {"swapping", "global", "calling"} => u = t
    BY <1>2, <1>4 DEF Waiting
  <2>5. \A u \in Threads : pc[u] \in {"swapping", "global", "calling"} => u = t
    BY <1>2 DEF Waiting
  <2>6. CASE Swap(t)
    <3>1. config' = OnDisk /\ pc'[t] = "global"
      BY <1>0, <2>3, <2>6 DEF Swap, ConfigInv, ConfigDue
    <3> QED BY <1>3, <2>4, <3>1 DEF ConfigInv
  <2>7. CASE ReloadGlobal(t)
    <3>1. ConfigGood
      BY <2>3 DEF ConfigDue
    <3>2. pc[t] = "global" /\ pc'[t] = "calling" /\ singleton' = OnDisk /\ config' = config
      BY <1>0, <2>7, <3>1 DEF ReloadGlobal
    <3>3. config = OnDisk
      BY <2>3, <2>5, <3>2 DEF ConfigInv, ConfigDue
    <3> QED BY <1>3, <2>4, <3>2, <3>3 DEF ConfigInv
  <2>8. CASE CallBack(t)
    <3>1. /\ pc[t] = "calling" /\ pc'[t] = "planning"
          /\ config' = config /\ singleton' = singleton
          /\ plugin = "conversation" => router' = [config |-> config, table |-> loaded[t]]
      BY <1>0, <2>8 DEF CallBack, MakePlans
    <3>2. config = OnDisk /\ singleton = OnDisk
      BY <2>3, <2>5, <3>1 DEF ConfigInv, ConfigDue
    <3>3. config = loaded[t]
      BY <1>0, <3>1 DEF ReloadInv
    <3> QED BY <1>3, <2>4, <3>1, <3>2, <3>3 DEF ConfigInv
  <2> QED BY <1>7, <2>6, <2>7, <2>8
<1>8. CASE Plan(t) \/ Place(t) \/ Finish(t)
  <2>1. /\ pc[t] \in {"planning", "placing"} /\ pc'[t] \in {"planning", "placing", "free"}
        /\ UNCHANGED <<loaded, config, singleton, router>>
    BY <1>0, <1>8 DEF Plan, Place, Finish
  <2>2. NextKind(t) \in Kinds
    BY <1>0, KindDue
  <2>3. missed' \cap ConfigFiles = missed \cap ConfigFiles
    BY <2>1, <2>2, OwnApart DEF Reloads
  <2>4. ReloadComes => ReloadComes'
    BY <1>3, <1>4, <2>1 DEF ReloadComes
  <2>5. ConfigDue' => ConfigDue
    BY <1>3, <2>3, <2>4 DEF ConfigDue
  <2>6. \A u \in Threads :
           \/ pc'[u] = pc[u]
           \/ {pc[u], pc'[u]} \cap {"swapping", "global", "calling"} = {}
    BY <1>4, <2>1
  <2> QED BY <1>3, <2>1, <2>5, <2>6, ConfigFrame
<1> QED BY <1>5, <1>6, <1>7, <1>8 DEF Reloads, ReloadStep

\* The set-up of the router takes over what is in use.
LEMMA ConfigStart == ASSUME LoaderInv, ConfigInv, StartUp PROVE ConfigInv'
<1>0. LoaderTypeOK /\ StageInv
  BY DEF LoaderInv
<1> USE DEF diskVars, watchVars, threadVars, inUse, watcherVars
<1>1. CASE ReadPlugin \/ PrepareConfig \/ PreparePlans
  <2>1. phase' = "new"
    BY <1>0, <1>1 DEF ReadPlugin, PrepareConfig, PreparePlans, StageInv
  <2> QED BY <2>1 DEF ConfigInv
<1>2. CASE Watch
  <2>1. pc'[Main] = "loading"
    BY <1>0, <1>2, WatcherAssumption DEF Watch, StartReload, LoaderTypeOK, WatcherTypeOK
  <2> QED BY <2>1, WatcherAssumption DEF ConfigInv, ReloadComes
<1>3. CASE Watching \/ TakeConfig
  <2>1. /\ UNCHANGED <<disk, events, pc, plugin, loaded, config, singleton, router, missed>>
        /\ phase' \in {"starting", "running"} => phase \in {"starting", "running"}
    BY <1>3 DEF Watching, StartObserver, TakeConfig
  <2>2. OnDisk' = OnDisk /\ ConfigGood' = ConfigGood /\ ReloadComes' = ReloadComes
    BY <2>1 DEF OnDisk, ConfigGood, ReloadComes
  <2>3. ConfigDue' => ConfigDue
    BY <2>1, <2>2 DEF ConfigDue
  <2> QED BY <2>1, <2>2, <2>3, ConfigFrame
<1>4. CASE TakeTable
  <2>1. /\ UNCHANGED <<disk, events, pc, plugin, loaded, config, singleton, missed, phase>>
        /\ router' = [config |-> config, table |-> config]
    BY <1>0, <1>4 DEF TakeTable, StageInv
  <2>2. OnDisk' = OnDisk /\ ConfigGood' = ConfigGood /\ ReloadComes' = ReloadComes
    BY <2>1 DEF OnDisk, ConfigGood, ReloadComes
  <2>3. ConfigDue' => ConfigDue
    BY <2>1, <2>2 DEF ConfigDue
  <2> QED BY <2>1, <2>2, <2>3 DEF ConfigInv, ConfigDue
<1> QED BY <1>1, <1>2, <1>3, <1>4 DEF StartUp

\* Every step keeps the invariant.
LEMMA ConfigNext == ASSUME LoaderInv, ConfigInv, [Next]_vars PROVE ConfigInv'
<1>0. pc \in [Threads -> {"free", "armed", "clearing",
            "loading", "swapping", "global", "calling", "planning", "placing"}]
  BY DEF LoaderInv, LoaderTypeOK, WatcherTypeOK
<1>1. ASSUME NEW t \in Threads, TimerFires(t) PROVE ConfigInv'
  <2>1. pc'[t] = "clearing"
    BY <1>0, <1>1 DEF TimerFires, Fire
  <2> QED BY <2>1 DEF ConfigInv, ReloadComes
<1>2. ASSUME NEW f \in Files, Observe(f) PROVE ConfigInv'
  <2>1. PICK t \in Threads : pc'[t] = "armed"
    BY <1>2 DEF Observe, Schedule
  <2> QED BY <2>1 DEF ConfigInv, ReloadComes
<1>3. CASE CancelTimer \/ StopObserver
  BY <1>3 DEF CancelTimer, StopObserver, ConfigInv
<1>4. CASE UNCHANGED vars
  <2>1. UNCHANGED <<disk, events, phase, plugin, pc, loaded, config, singleton, router, missed>>
    BY <1>4 DEF vars, watcherVars, diskVars, watchVars, threadVars, inUse
  <2> QED BY <2>1 DEF ConfigInv, ConfigGood, OnDisk, ReloadComes
<1> QED BY <1>1, <1>2, <1>3, <1>4, ConfigWrite, ConfigReloads, ConfigStart
        DEF Next, WatcherStep

\* When every event has been handled, the configuration in use, the global one
\* and the router's are those on disk, but for edits that nobody announced.
THEOREM LoaderConverges == Orderly => (Spec => []Converges)
<1> SUFFICES ASSUME Orderly PROVE Spec => []Converges
  OBVIOUS
<1>1. LoaderInit => LoaderInv /\ ConfigInv
  BY InitInv DEF LoaderInit, Init, ConfigInv
<1>2. LoaderInv /\ ConfigInv /\ [Next]_vars => LoaderInv' /\ ConfigInv'
  BY NextInv, ConfigNext
<1>3. ConfigInv => Converges
  BY DEF ConfigInv, Converges, InService, Settled, ReloadComes
<1> QED BY <1>1, <1>2, <1>3, PTL DEF Spec

-----------------------------------------------------------------------------
(* So does every plan to its own file.                                     *)

\* Where a thread may be.
Places == {"free", "armed", "clearing", "loading", "swapping", "global", "calling",
           "planning", "placing"}

\* Nothing is announced before the observer runs.
LEMMA QuietNext ==
    ASSUME LoaderTypeOK, QuietStart, [Next]_vars PROVE QuietStart'
<1>0. /\ pc \in [Threads -> Places] /\ changed \in [Threads -> SUBSET Files]
      /\ due \in [Threads -> SUBSET Kinds]
  BY DEF LoaderTypeOK, WatcherTypeOK, Places
<1> SUFFICES ASSUME phase' \in {"new", "starting"} PROVE QuietStart'
  BY DEF QuietStart
<1> USE DEF diskVars, watchVars, threadVars, inUse, watcherVars, startVars
<1>1. CASE UNCHANGED <<phase, pending, events, pc, changed, due>>
  BY <1>1 DEF QuietStart
<1>2. ASSUME NEW f \in Files, Write(f) PROVE QuietStart'
  BY <1>2 DEF Write, Edit, Watched, QuietStart
<1>3. CASE Watch
  BY <1>0, <1>3 DEF Watch, StartReload, QuietStart
<1>4. ASSUME NEW t \in Threads, Reloads(t) PROVE QuietStart'
  <2>1. /\ UNCHANGED <<phase, events, changed>>
        /\ pending' \in {pending, {}}
        /\ \A u \in Threads \ {t} : pc'[u] = pc[u] /\ due'[u] = due[u]
        /\ pc'[t] # "armed"
    BY <1>0, <1>4 DEF Reloads, ReloadStep, Clear, Load, Swap, ReloadGlobal, CallBack,
       Plan, Place, Finish, MakePlans
  <2>2. \/ due'[t] \subseteq due[t]
        \/ MakePlans(t)
    BY <1>0, <1>4 DEF Reloads, ReloadStep, Clear, Load, Swap, ReloadGlobal, CallBack,
       Plan, Place, Finish
  <2>3. changed[t] = {} /\ due[t] = {}
    BY <2>1 DEF QuietStart
  <2>4. due'[t] = {}
    BY <1>0, <2>2, <2>3 DEF MakePlans
  <2> QED BY <2>1, <2>4 DEF QuietStart
<1>5. ASSUME NEW f \in Files, Observe(f) PROVE QuietStart'
  BY <1>5 DEF Observe, Watched
<1>6. ASSUME NEW t \in Threads, TimerFires(t) PROVE QuietStart'
  BY <1>6 DEF TimerFires, Fire, QuietStart
<1>7. CASE CancelTimer \/ StopObserver
  BY <1>7 DEF CancelTimer, StopObserver
<1>8. CASE Watching
  BY <1>1, <1>8 DEF Watching, StartObserver
<1>9. CASE ReadPlugin \/ PrepareConfig \/ PreparePlans \/ TakeConfig \/ TakeTable
           \/ UNCHANGED vars
  BY <1>1, <1>9 DEF ReadPlugin, PrepareConfig, PreparePlans, TakeConfig, TakeTable, vars
<1> QED BY <1>2, <1>3, <1>4, <1>5, <1>6, <1>7, <1>8, <1>9 DEF Next, StartUp, WatcherStep

\* What has been announced stays so until a reload takes it.
LEMMA PendingNext ==
    ASSUME ~ TornTake, Orderly, LoaderInv, PendingInv, [Next]_vars PROVE PendingInv'
<1>q. QuietStart'
  BY QuietNext DEF LoaderInv, PendingInv
<1>0. /\ LoaderTypeOK /\ pc \in [Threads -> Places]
      /\ changed \in [Threads -> SUBSET Files]
  BY DEF LoaderInv, LoaderTypeOK, WatcherTypeOK, Places
<1> USE DEF diskVars, watchVars, threadVars, inUse, watcherVars
<1>p. phase = "starting" => pending = {}
  BY DEF PendingInv, QuietStart
<1>1. ASSUME UNCHANGED <<pending, pc, changed>>,
             phase' = "running" => phase \in {"running", "starting"}
      PROVE  PendingInv'
  BY <1>q, <1>p, <1>1 DEF PendingInv
<1>2. CASE UNCHANGED vars
  BY <1>1, <1>2 DEF vars
<1>3. ASSUME NEW f \in Files, Write(f) PROVE PendingInv'
  BY <1>1, <1>3 DEF Write, Edit, Watched
<1>4. CASE StopObserver \/ Watching \/ TakeConfig \/ TakeTable \/ PrepareConfig
           \/ PreparePlans \/ ReadPlugin
  BY <1>1, <1>4 DEF StopObserver, Watching, StartObserver, TakeConfig, TakeTable,
                    PrepareConfig, PreparePlans, ReadPlugin
<1>5. CASE Watch
  BY <1>q, <1>0, <1>5 DEF Watch, StartReload, PendingInv
<1>6. CASE CancelTimer
  BY <1>q, <1>0, <1>6 DEF CancelTimer, PendingInv
<1>7. ASSUME NEW f \in Files, Observe(f) PROVE PendingInv'
  <2>1. PICK t \in Threads : pc'[t] = "armed"
    BY <1>7 DEF Observe, Schedule
  <2>2. \A u \in Threads : pc'[u] # "clearing"
    BY <1>7 DEF Observe, Schedule
  <2> QED BY <1>q, <2>1, <2>2 DEF PendingInv
<1>8. ASSUME NEW t \in Threads, TimerFires(t) PROVE PendingInv'
  <2>1. /\ pc' = [pc EXCEPT ![t] = "clearing"] /\ changed' = [changed EXCEPT ![t] = pending]
        /\ UNCHANGED <<pending, events, phase>>
        /\ \A u \in Threads : Waiting(u)
    BY <1>8 DEF TimerFires, Fire, Orderly
  <2>2. pc'[t] = "clearing"
    BY <1>0, <2>1
  <2>3. \A u \in Threads : pc'[u] = "clearing" => pending \subseteq changed'[u]
    BY <1>0, <2>1 DEF Waiting
  <2> QED BY <1>q, <2>1, <2>2, <2>3 DEF PendingInv
<1>9. ASSUME NEW t \in Threads, Reloads(t) PROVE PendingInv'
  <2>1. CASE Clear(t)
    <3>1. /\ pending' = {} /\ pc' = [pc EXCEPT ![t] = "loading"]
          /\ UNCHANGED <<changed, events, phase>>
      BY <2>1 DEF Clear
    <3> QED BY <1>q, <3>1 DEF PendingInv
  <2>2. CASE ~ Clear(t)
    <3>1. /\ UNCHANGED <<pending, changed, events, phase>>
          /\ pc[t] \notin {"armed", "clearing"} /\ pc'[t] # "clearing"
          /\ \A u \in Threads \ {t} : pc'[u] = pc[u]
      BY <1>0, <1>9, <2>2 DEF Reloads, ReloadStep, Load, Swap, ReloadGlobal, CallBack,
         Plan, Place, Finish, MakePlans
    <3> QED BY <1>q, <3>1 DEF PendingInv
  <2> QED BY <2>1, <2>2
<1> QED BY <1>2, <1>3, <1>4, <1>5, <1>6, <1>7, <1>8, <1>9 DEF Next, StartUp, WatcherStep

-----------------------------------------------------------------------------
\* A plan could be made before if it can be made now, of the same files.
LEMMA StillReadable ==
    ASSUME NEW k \in Kinds, Readable(k)', disk' = disk,
           phase' \in {"new", "starting"} => phase \in {"new", "starting"},
           Watched' => Watched \/ phase = "starting"
    PROVE  Readable(k)
BY DEF Readable, Fails

\* The plan of kind k is due no more than before, and it is as it was.
LEMMA PlanFrame ==
    ASSUME NEW k \in Kinds, PlanInv(k),
           Readable(k)' /\ ~ PlanComes(k)' =>
              /\ Readable(k) /\ ~ PlanComes(k) /\ disk' = disk
              /\ \A t \in Threads : Placing(t, k)' = Placing(t, k)
              /\ UNCHANGED <<made, plans>>
              /\ plugin' = k /\ stage' \notin {"choosing", "preparing", "planning"} =>
                    plugin = k /\ stage \notin {"choosing", "preparing", "planning"}
    PROVE  PlanInv(k)'
BY DEF PlanInv

\* A step of the thread at work that leaves the plan of kind k as due as it was.
LEMMA StillComes ==
    ASSUME NEW k \in Kinds, NEW t \in Threads, PlanComes(k),
           UNCHANGED <<events, pending, changed>>,
           OwnFile[k] \in missed => OwnFile[k] \in missed',
           \A u \in Threads \ {t} : pc'[u] = pc[u] /\ due'[u] = due[u],
           pc[t] \in Reading /\ Sources(k) \cap changed[t] # {} =>
              pc'[t] \in Reading \/ (pc'[t] = "planning" /\ k \in due'[t]),
           pc[t] \in {"planning", "placing"} /\ k \in due[t]
              /\ (pc[t] = "placing" => NextKind(t) # k) =>
              pc'[t] = "planning" /\ k \in due'[t]
    PROVE  PlanComes(k)'
<1>1. CASE OwnFile[k] \in missed \/ Sources(k) \cap (events \cup pending) # {}
  BY <1>1 DEF PlanComes, Sources
<1>2. ASSUME NEW u \in Threads, pc[u] \in Reading, Sources(k) \cap changed[u] # {}
      PROVE  PlanComes(k)'
  BY <1>2 DEF PlanComes, Sources
<1>3. ASSUME NEW u \in Threads, pc[u] \in {"planning", "placing"}, k \in due[u],
             pc[u] = "placing" => NextKind(u) # k
      PROVE  PlanComes(k)'
  <2>1. CASE u = t
    BY <1>3, <2>1 DEF PlanComes
  <2>2. CASE u # t
    BY <1>3, <2>2 DEF PlanComes, NextKind
  <2> QED BY <2>1, <2>2
<1> QED BY <1>1, <1>2, <1>3 DEF PlanComes

\* The reading steps of a reload.
LEMMA ReadKeepsPlan ==
    ASSUME LoaderInv, PendingInv, NEW k \in Kinds, PlanInv(k), NEW t \in Threads, Reloads(t),
           Clear(t) \/ Load(t) \/ Swap(t) \/ ReloadGlobal(t) \/ CallBack(t)
    PROVE  PlanInv(k)'
<1>0. /\ LoaderTypeOK /\ pc \in [Threads -> Places]
      /\ due \in [Threads -> SUBSET Kinds]
  BY DEF LoaderInv, LoaderTypeOK, WatcherTypeOK, Places
<1> USE DEF diskVars, watchVars, threadVars, inUse, watcherVars
<1>1. /\ UNCHANGED <<disk, events, changed, made, plans, plugin, phase, stage>>
      /\ pc[t] \in Reading
      /\ \A u \in Threads \ {t} : pc'[u] = pc[u] /\ due'[u] = due[u]
  BY <1>0 DEF Reloads, Clear, Load, Swap, ReloadGlobal, CallBack, MakePlans, startVars, Reading
<1>2. \/ pc'[t] \in Reading
      \/ /\ pc'[t] = "planning"
         /\ Sources(k) \cap changed[t] # {} => k \in due'[t]
  <2>1. \/ pc'[t] \in Reading
        \/ MakePlans(t)
    BY <1>0 DEF Reloads, Clear, Load, Swap, ReloadGlobal, CallBack, Reading
  <2>2. ASSUME MakePlans(t) PROVE pc'[t] = "planning" /\ (Sources(k) \cap changed[t] # {} => k \in due'[t])
    BY <1>0, <2>2 DEF MakePlans, Triggers, Sources
  <2> QED BY <2>1, <2>2
<1>3. OwnFile[k] \in missed => OwnFile[k] \in missed'
  BY <1>1, OwnApart DEF Reloads, Reading
<1>4. Sources(k) \cap pending # {} =>
         \/ Sources(k) \cap pending' # {}
         \/ pc'[t] \in Reading /\ Sources(k) \cap changed[t] # {}
  <2>1. CASE Clear(t)
    BY <1>0, <2>1 DEF Clear, PendingInv, Reading
  <2>2. CASE ~ Clear(t)
    BY <2>2 DEF Load, Swap, ReloadGlobal, CallBack
  <2> QED BY <2>1, <2>2
<1>5. PlanComes(k) => PlanComes(k)'
  <2>1. ASSUME NEW u \in Threads, pc[u] \in Reading, Sources(k) \cap changed[u] # {}
        PROVE  PlanComes(k)'
    <3>1. CASE u = t
      BY <1>1, <1>2, <2>1, <3>1 DEF PlanComes
    <3>2. CASE u # t
      BY <1>1, <2>1, <3>2 DEF PlanComes
    <3> QED BY <3>1, <3>2
  <2>2. ASSUME NEW u \in Threads, pc[u] \in {"planning", "placing"}, k \in due[u],
               pc[u] = "placing" => NextKind(u) # k
        PROVE  PlanComes(k)'
    <3>1. u # t
      BY <1>1, <2>2 DEF Reading
    <3> QED BY <1>1, <2>2, <3>1 DEF PlanComes, NextKind
  <2>3. CASE OwnFile[k] \in missed \/ Sources(k) \cap (events \cup pending) # {}
    <3>1. Sources(k)' = Sources(k)
      BY DEF Sources
    <3> QED BY <1>1, <1>3, <1>4, <2>3, <3>1 DEF PlanComes
  <2> QED BY <2>1, <2>2, <2>3 DEF PlanComes
<1>6. \A u \in Threads : Placing(u, k)' = Placing(u, k)
  <2> SUFFICES ASSUME NEW u \in Threads PROVE Placing(u, k)' <=> Placing(u, k)
    BY DEF Placing
  <2>1. CASE u = t
    BY <1>1, <1>2, <2>1 DEF Placing, Reading
  <2>2. CASE u # t
    BY <1>1, <2>2 DEF Placing, NextKind
  <2> QED BY <2>1, <2>2
<1>7. Readable(k)' => Readable(k)
  BY <1>1, StillReadable DEF Watched
<1> QED BY <1>1, <1>5, <1>6, <1>7, PlanFrame

\* The plan is made from its file as it is, and is put in place.
LEMMA PlanKeepsPlan ==
    ASSUME LoaderInv, PendingInv, NEW k \in Kinds, PlanInv(k), NEW t \in Threads,
           Reloads(t), Plan(t) \/ Place(t) \/ Finish(t)
    PROVE  PlanInv(k)'
<1>0. /\ LoaderTypeOK /\ pc \in [Threads -> Places]
      /\ due \in [Threads -> SUBSET Kinds] /\ made \in [Threads -> Plans]
      /\ plans \in [Kinds -> Plans]
  BY DEF LoaderInv, LoaderTypeOK, WatcherTypeOK, Places
<1> USE DEF diskVars, watchVars, threadVars, inUse, watcherVars
<1>1. /\ UNCHANGED <<disk, events, pending, changed, plugin, phase, stage>>
      /\ \A u \in Threads \ {t} : pc'[u] = pc[u] /\ due'[u] = due[u] /\ made'[u] = made[u]
      /\ pc[t] \in {"planning", "placing"}
  BY <1>0 DEF Reloads, Plan, Place, Finish, startVars
<1>2. \A u \in Threads \ {t} : Waiting(u)
  BY <1>1 DEF LoaderInv, OneReload, Waiting
<1>3. \A u \in Threads \ {t} : ~ Placing(u, k) /\ ~ Placing(u, k)'
  BY <1>1, <1>2 DEF Placing, Waiting
<1>r. Readable(k)' => Readable(k)
  BY <1>1, StillReadable DEF Watched
<1>k. NextKind(t) \in Kinds /\ \A j \in Kinds : OwnFile[j] = OwnFile[k] => j = k
  BY <1>0, KindDue DEF OwnFile, Kinds
<1>4. CASE Finish(t)
  <2>1. /\ pc[t] = "planning" /\ due[t] = {} /\ pc'[t] = "free"
        /\ UNCHANGED <<due, made, plans>> /\ missed' = missed
    BY <1>0, <1>4 DEF Finish, Reloads
  <2>2. PlanComes(k) => PlanComes(k)'
    BY <1>1, <2>1, StillComes DEF Reading
  <2>3. ~ Placing(t, k) /\ ~ Placing(t, k)'
    BY <2>1 DEF Placing
  <2>4. \A u \in Threads : Placing(u, k)' = Placing(u, k)
    BY <1>3, <2>3 DEF Placing
  <2> QED BY <1>1, <1>r, <2>1, <2>2, <2>4, PlanFrame
<1>5. CASE Place(t)
  <2> DEFINE j == NextKind(t)
  <2>1. /\ pc[t] = "placing" /\ pc'[t] = "planning" /\ due'[t] = due[t] \ {j}
        /\ plans' = [plans EXCEPT ![j] = made[t]]
        /\ UNCHANGED made /\ missed' = missed
    BY <1>0, <1>5 DEF Place, Reloads
  <2>2. PlanComes(k) => PlanComes(k)'
    <3>1. k \in due[t] /\ j # k => k \in due'[t]
      BY <2>1
    <3> QED BY <1>1, <2>1, <3>1, StillComes DEF Reading
  <2>3. \A u \in Threads : ~ Placing(u, k)'
    BY <1>3, <2>1 DEF Placing
  <2>4. CASE j = k
    <3>1. plans'[k] = made[t] /\ Placing(t, k)
      BY <1>0, <2>1, <2>4 DEF Placing
    <3> QED BY <1>1, <1>r, <2>2, <2>3, <3>1 DEF PlanInv
  <2>5. CASE j # k
    <3>1. plans'[k] = plans[k] /\ ~ Placing(t, k)
      BY <1>0, <2>1, <2>5 DEF Placing
    <3>2. \A u \in Threads : ~ Placing(u, k)
      BY <1>3, <3>1
    <3> QED BY <1>1, <1>r, <2>2, <2>3, <3>1, <3>2 DEF PlanInv
  <2> QED BY <2>4, <2>5
<1>6. CASE Plan(t)
  <2> DEFINE j == NextKind(t)
             own == disk[OwnFile[j]]
  <2>1. pc[t] = "planning" /\ due[t] # {} /\ UNCHANGED plans /\ ~ Placing(t, k)
    BY <1>6 DEF Plan, Placing
  <2>2. missed' = IF Planless THEN missed \cup {OwnFile[j]} ELSE missed \ {OwnFile[j]}
    BY <2>1 DEF Reloads
  <2>n. \A u \in Threads : ~ Placing(u, k)
    BY <1>3, <2>1
  <2>3. CASE Planless \/ Fails(j)
    <3>1. due' = [due EXCEPT ![t] = @ \ {j}] /\ pc' = pc /\ made' = made
      BY <1>6, <2>3 DEF Plan
    <3>2. \A u \in Threads : ~ Placing(u, k)'
      BY <1>3, <2>1, <3>1 DEF Placing
    <3>3. CASE j = k
      <4>1. CASE Planless
        <5>1. OwnFile[k] \in missed'
          BY <2>2, <3>3, <4>1
        <5> QED BY <5>1 DEF PlanInv, PlanComes
      <4>2. CASE Fails(k)
        <5>1. phase' \notin {"new", "starting"}
          BY <1>1, <2>1 DEF PendingInv, QuietStart
        <5>2. Fails(k)'
          BY <1>1, <4>2 DEF Fails
        <5> QED BY <5>1, <5>2 DEF PlanInv, Readable
      <4> QED BY <2>3, <3>3, <4>1, <4>2
    <3>4. CASE j # k
      <4>1. OwnFile[k] \in missed => OwnFile[k] \in missed'
        BY <1>k, <2>2, <3>4
      <4>2. k \in due[t] => k \in due'[t]
        BY <1>0, <3>1, <3>4
      <4>3. PlanComes(k) => PlanComes(k)'
        BY <1>1, <2>1, <3>1, <4>1, <4>2, StillComes DEF Reading
      <4> QED BY <1>1, <1>r, <2>1, <2>n, <3>1, <3>2, <4>3, PlanFrame DEF Placing
    <3> QED BY <3>3, <3>4
  <2>4. CASE ~ (Planless \/ Fails(j))
    <3>1. /\ made'[t] = IF own = Broken THEN NoPlan
                        ELSE [models |-> PlanModels, own |-> own]
          /\ pc'[t] = "placing" /\ due' = due
      BY <1>0, <1>6, <2>4 DEF Plan
    <3>2. NextKind(t)' = j
      BY <3>1 DEF NextKind
    <3>3. CASE j = k
      <4>1. Placing(t, k)'
        BY <3>1, <3>2, <3>3 DEF Placing
      <4>2. own # Broken => made'[t].own = own
        BY <3>1
      <4> QED BY <1>1, <1>3, <3>3, <4>1, <4>2 DEF PlanInv, Readable
    <3>4. CASE j # k
      <4>1. OwnFile[k] \in missed => OwnFile[k] \in missed'
        BY <1>k, <2>2, <3>4
      <4>2. \A u \in Threads : ~ Placing(u, k)'
        BY <1>3, <3>2, <3>4 DEF Placing
      <4>3. PlanComes(k) => PlanComes(k)'
        <5>1. ASSUME k \in due[t] PROVE PlanComes(k)'
          BY <3>1, <3>2, <3>4, <5>1 DEF PlanComes
        <5>2. ASSUME k \notin due[t], PlanComes(k) PROVE PlanComes(k)'
          BY <1>1, <2>1, <4>1, <5>2, StillComes DEF Reading
        <5> QED BY <5>1, <5>2
      <4> QED BY <1>1, <1>r, <2>1, <2>n, <4>2, <4>3 DEF PlanInv
    <3> QED BY <3>3, <3>4
  <2> QED BY <2>3, <2>4
<1> QED BY <1>4, <1>5, <1>6

\* All other steps.
LEMMA OthersKeepPlan ==
    ASSUME LoaderInv, PendingInv, NEW k \in Kinds, PlanInv(k), [Next]_vars,
           \A t \in Threads : ~ Reloads(t)
    PROVE  PlanInv(k)'
<1>0. /\ LoaderTypeOK /\ StageInv /\ pc \in [Threads -> Places]
      /\ disk \in [Files -> Versions] /\ changed \in [Threads -> SUBSET Files]
      /\ plans \in [Kinds -> Plans]
  BY DEF LoaderInv, LoaderTypeOK, WatcherTypeOK, Places
<1> USE DEF diskVars, watchVars, threadVars, inUse, watcherVars, startVars
<1>1. ASSUME NEW f \in Files, Write(f) PROVE PlanInv(k)'
  <2>1. CASE f = OwnFile[k]
    <3>1. f \in events' \cup missed'
      BY <1>1 DEF Write, Edit
    <3> QED BY <2>1, <3>1 DEF PlanInv, PlanComes, Sources
  <2>3. CASE f = "profiles" /\ Watched
    <3>1. f \in events'
      BY <1>1, <2>3 DEF Write, Edit
    <3> QED BY <2>3, <3>1 DEF PlanInv, PlanComes, Sources
  <2>2. CASE f # OwnFile[k] /\ ~ (f = "profiles" /\ Watched)
    <3>1. /\ disk'[OwnFile[k]] = disk[OwnFile[k]]
          /\ events \subseteq events' /\ missed \subseteq missed'
          /\ UNCHANGED <<pending, pc, changed, due, made, plans, plugin, phase, stage>>
      BY <1>0, <1>1, <2>2, OwnApart DEF Write, Edit
    <3>2. PlanComes(k) => PlanComes(k)'
      BY <3>1 DEF PlanComes, NextKind, Sources
    <3>3. Readable(k)' => Readable(k)
      <4>1. Watched => disk'["profiles"] = disk["profiles"]
        BY <1>0, <1>1, <2>2 DEF Write, Edit, Files
      <4> QED BY <3>1, <4>1 DEF Readable, Fails, Watched
    <3> QED BY <3>1, <3>2, <3>3 DEF PlanInv, Placing, NextKind
  <2> QED BY <2>1, <2>2, <2>3
<1>2. ASSUME NEW f \in Files, Observe(f), UNCHANGED <<startVars, missed>> PROVE PlanInv(k)'
  <2>1. /\ UNCHANGED <<disk, changed, due, made, plans, plugin, phase, stage, missed>>
        /\ events \cup pending \subseteq events' \cup pending'
    BY <1>2 DEF Observe, Schedule
  <2>2. \A u \in Threads : pc'[u] = pc[u] \/ (Waiting(u) /\ Waiting(u)')
    BY <1>0, <1>2 DEF Observe, Schedule, Waiting
  <2>3. \A u \in Threads : \A place \in Reading \cup {"planning", "placing"} :
           pc'[u] = place <=> pc[u] = place
    BY <2>2 DEF Waiting, Reading
  <2>4. PlanComes(k) => PlanComes(k)'
    BY <2>1, <2>3 DEF PlanComes, NextKind
  <2>5. \A u \in Threads : Placing(u, k)' = Placing(u, k)
    BY <2>1, <2>3 DEF Placing, NextKind
  <2>r. Readable(k)' => Readable(k)
    BY <2>1, StillReadable DEF Watched
  <2> QED BY <2>1, <2>r, <2>4, <2>5, PlanFrame
<1>3. ASSUME NEW t \in Threads, TimerFires(t) PROVE PlanInv(k)'
  <2>1. /\ UNCHANGED <<disk, events, pending, due, made, plans, plugin, phase, stage, missed>>
        /\ pc[t] = "armed" /\ pc'[t] = "clearing"
        /\ \A u \in Threads \ {t} : pc'[u] = pc[u] /\ changed'[u] = changed[u]
    BY <1>0, <1>3 DEF TimerFires, Fire
  <2>2. PlanComes(k) => PlanComes(k)'
    BY <2>1 DEF PlanComes, NextKind, Reading
  <2>3. \A u \in Threads : Placing(u, k)' = Placing(u, k)
    BY <2>1 DEF Placing, NextKind
  <2>r. Readable(k)' => Readable(k)
    BY <2>1, StillReadable DEF Watched
  <2> QED BY <2>1, <2>r, <2>2, <2>3, PlanFrame
<1>4. CASE (CancelTimer \/ StopObserver) /\ UNCHANGED <<startVars, missed>>
  <2>1. /\ UNCHANGED <<disk, events, pending, changed, due, made, plans, plugin, stage, missed>>
        /\ phase' \notin {"new", "starting"} /\ (Watched' => Watched)
    BY <1>4 DEF CancelTimer, StopObserver, Watched
  <2>2. \A u \in Threads : pc'[u] = pc[u] \/ (pc[u] = "armed" /\ pc'[u] = "free")
    BY <1>0, <1>4 DEF CancelTimer, StopObserver
  <2>3. \A u \in Threads : \A place \in Reading \cup {"planning", "placing"} :
           pc'[u] = place <=> pc[u] = place
    BY <2>2 DEF Reading
  <2>4. PlanComes(k) => PlanComes(k)'
    BY <2>1, <2>3 DEF PlanComes, NextKind
  <2>5. \A u \in Threads : Placing(u, k)' = Placing(u, k)
    BY <2>1, <2>3 DEF Placing, NextKind
  <2>r. Readable(k)' => Readable(k)
    BY <2>1, StillReadable
  <2> QED BY <2>1, <2>r, <2>4, <2>5, PlanFrame
<1>5. CASE ReadPlugin \/ PrepareConfig
  <2>1. /\ UNCHANGED <<disk, events, pending, pc, changed, due, made, plans, missed>>
        /\ plugin' = k => stage' \in {"choosing", "preparing", "planning"}
        /\ \A u \in Threads : pc[u] = "free"
    BY <1>0, <1>5 DEF ReadPlugin, PrepareConfig, StageInv, Kinds
  <2> QED BY <2>1 DEF PlanInv, Placing
<1>6. CASE PreparePlans
  <2>1. /\ UNCHANGED <<disk, events, pending, pc, changed, due, made, plugin>>
        /\ \A u \in Threads : pc[u] = "free"
    BY <1>0, <1>6 DEF PreparePlans, StageInv
  <2>2. CASE plugin # k \/ stage' = "choosing"
    BY <2>1, <2>2 DEF PlanInv, Placing
  <2>3. CASE plugin = k /\ stage' # "choosing"
    <3>1. plans'[k] = InitialPlan(disk[OwnFile[k]])
      BY <1>0, <1>6, <2>3 DEF PreparePlans
    <3>2. disk[OwnFile[k]] # Broken => plans'[k].own = disk[OwnFile[k]]
      BY <3>1 DEF InitialPlan
    <3> QED BY <2>1, <3>2 DEF PlanInv, Placing, Readable
  <2> QED BY <2>2, <2>3
<1>7. CASE Watch
  <2>1. /\ UNCHANGED <<disk, events, pending, changed, due, made, plans, plugin, missed>>
        /\ stage = "watching" /\ phase = "new" /\ pc'[Main] = "loading"
        /\ \A u \in Threads : pc[u] = "free"
        /\ \A u \in Threads \ {Main} : pc'[u] = pc[u]
    BY <1>0, <1>7, WatcherAssumption DEF Watch, StartReload, StageInv
  <2>2. \A u \in Threads : ~ Placing(u, k) /\ ~ Placing(u, k)'
    BY <2>1 DEF Placing
  <2>3. PlanComes(k) => PlanComes(k)'
    BY <2>1 DEF PlanComes, Reading
  <2>4. Readable(k)' => Readable(k)
    BY <1>7, <2>1, StillReadable DEF Watch, StartReload, Watched
  <2> QED BY <2>1, <2>2, <2>3, <2>4, PlanFrame DEF Placing
<1>8. CASE Watching \/ TakeConfig \/ TakeTable
  <2>1. /\ UNCHANGED <<disk, events, pending, pc, changed, due, made, plans, plugin, missed>>
        /\ stage \in {"starting", "taking", "routing"}
        /\ phase' \notin {"new", "starting"} \/ phase' = phase
        /\ Watched' => Watched \/ phase = "starting"
    BY <1>0, <1>8 DEF Watching, StartObserver, TakeConfig, TakeTable, StageInv, Watched
  <2>2. Readable(k)' => Readable(k)
    BY <2>1, StillReadable
  <2> QED BY <2>1, <2>2 DEF PlanInv, PlanComes, Placing, NextKind
<1>9. CASE UNCHANGED vars
  BY <1>9 DEF vars, PlanInv, Readable, Fails, Watched, PlanComes, Placing, NextKind
<1> QED BY <1>1, <1>2, <1>3, <1>4, <1>5, <1>6, <1>7, <1>8, <1>9
        DEF Next, StartUp, WatcherStep

\* The invariant of the plans.
PlansInv == LoaderInv /\ PendingInv /\ \A k \in Kinds : PlanInv(k)

\* Every step keeps it.
LEMMA PlansNext ==
    ASSUME Orderly, ~ TornTake, PlansInv, [Next]_vars PROVE PlansInv'
<1>1. LoaderInv' /\ PendingInv'
  BY NextInv, PendingNext DEF PlansInv
<1>2. ASSUME NEW k \in Kinds PROVE PlanInv(k)'
  <2>1. CASE \A t \in Threads : ~ Reloads(t)
    BY <2>1, OthersKeepPlan DEF PlansInv
  <2>2. ASSUME NEW t \in Threads, Reloads(t) PROVE PlanInv(k)'
    BY <2>2, ReadKeepsPlan, PlanKeepsPlan DEF PlansInv, Reloads, ReloadStep
  <2> QED BY <2>1, <2>2
<1> QED BY <1>1, <1>2 DEF PlansInv

\* At first there is neither a plan nor an event.
LEMMA PlansInit == LoaderInit => PlansInv
<1> SUFFICES ASSUME LoaderInit PROVE PlansInv
  OBVIOUS
<1>1. PendingInv
  BY DEF LoaderInit, Init, PendingInv, QuietStart
<1>2. ASSUME NEW k \in Kinds PROVE PlanInv(k)
  BY DEF LoaderInit, Init, PlanInv, Placing
<1> QED BY <1>1, <1>2, InitInv DEF PlansInv

\* In service the plug-in's plan was made from its own file as it is on disk,
\* whenever a plan can be made of it with the profiles as they are.
THEOREM LoaderOwnFilesConverge == Orderly /\ ~ TornTake => (Spec => []OwnFilesConverge)
<1> SUFFICES ASSUME Orderly, ~ TornTake PROVE Spec => []OwnFilesConverge
  OBVIOUS
<1>1. PlansInv /\ [Next]_vars => PlansInv'
  BY PlansNext
<1>2. PlansInv => OwnFilesConverge
  <2> SUFFICES ASSUME PlansInv, InService, plugin \in Kinds, disk[OwnFile[plugin]] # Broken,
                      ~ Fails(plugin), OwnFile[plugin] \notin missed
               PROVE  plans[plugin].own = disk[OwnFile[plugin]]
    BY DEF OwnFilesConverge
  <2>1. phase = "running" /\ events = {} /\ stage = "serving"
        /\ \A t \in Threads : pc[t] = "free"
    BY DEF InService, Settled
  <2>2. pending = {}
    BY <2>1 DEF PlansInv, PendingInv
  <2>3. ~ PlanComes(plugin) /\ \A t \in Threads : ~ Placing(t, plugin)
    BY <2>1, <2>2 DEF PlanComes, Placing, Reading
  <2>4. Readable(plugin)
    BY <2>1 DEF Readable, Watched
  <2> QED BY <2>1, <2>3, <2>4 DEF PlansInv, PlanInv
<1> QED BY <1>1, <1>2, PlansInit, PTL DEF Spec
===============================================================================
