# AegisRouter: specifications, model checking and proofs

AegisRouter (`src/aegis_router`) is a gateway between clients and language
models. A request passes through a LiteLLM hook that checks it for compliance,
replaces personal data by placeholders, chooses a target model, and restores the
personal data in the answer. This directory holds TLA+ specifications of its own
logic, the TLC configurations that check them, and TLAPS proofs. Paths below are
relative to `src/aegis_router/`.

## 1. Inventory

| Component | State | Operations | Interacts with | Hard behaviour | What makes it correct |
|---|---|---|---|---|---|
| ClawVault pool, `callbacks/uds_pool.py` | semaphore, idle queue, closed flag, per call: connection | `call`, `_acquire`, `close` | ClawVault process over UDS/TCP; gateway hooks, health probe | timeouts and cancellation at every await; server crash, hang; `close()` with calls in flight; answers without id check | permits balance, connections bounded and exclusive, no late answer crosses to another call, calls end |
| ClawVault server, `clawvault/server.py` | singletons (masker, restorer, engine), connections, socket file | `dispatch_request`, `handle_connection`, `start`, `shutdown` | pool, masker, restorer, compliance, supervisor | crash and restart, signals before the socket is bound, one synchronous analysis blocks every connection | one answer per request, in order; a restart begins from the files |
| Compliance engine, `clawvault/compliance.py` | two rule lists, mode | `check_compliance`, `reload`, `get_compliance_engine` | server, rule files | made by the first check of a process, from files that may be broken then | a rule that is there is enforced; a broken file costs no rule of the other |
| Masker and restorer, `clawvault/masker.py`, `clawvault/restorer.py`, `storage/redis_client.py` | Redis: per request and per session a mapping placeholder -> value with a TTL | `mask`, `restore`, `get_mapping`, `update_session_mapping` | Redis, gateway | several messages per request, concurrent requests of a session, read-modify-write, failures, TTL | a placeholder is restored to the value it stands for |
| Gateway hook, `callbacks/base_router.py`, `callbacks/degradation.py` | degradation flags, request metadata | pre-call hook, success hook, streaming hook | pool, routers, degradation manager | ClawVault or Redis failing between two steps | personal data leaves only when a documented bypass applies |
| A request in LiteLLM: `callbacks/base_router.py`'s hooks as LiteLLM calls them | metadata, failed calls, the response object | pre-call, failure and success hooks | LiteLLM, gateway hook, models | which hooks LiteLLM finds; hooks that raise; calls repeated; the success hook beside the delivery | nothing reaches a model past the hook, and every answer finds the id of its placeholders |
| Request logger, `observability/request_logger.py`, `config/custom_callbacks.py` | log files | the same hooks | LiteLLM | - (never called, section 7) | - |
| Session routing, `router/route_resolver.py`, `callbacks/smart_router.py` | tiers, strategy, session locks with expiry | `resolve`, `apply_session_policy`, `update_configuration`, `clear_session` | watcher (another thread), classifier | reload while a request is between classifier and resolver; expiry | sessions stay on their model, never downgrade under `escalate_only` |
| Config watcher, `router/config_watcher.py`, `config.py` | config, table, two plan stores, pending files, timer | `start`, `_schedule_reload`, `_do_reload`, plan reloads, `stop` | file system, routers | three threads; overlapping reloads; one step failing; edits before the observer runs | the last change wins; a bad file keeps the previous configuration |
| Plug-in loader, `callbacks/plugin_loader.py` | the active plug-in | `load_routing_plugin`, one set-up per plug-in | watcher, routers | plans made before, a router set up after the watcher starts | the router is of one edit and never goes back |
| Plan routers, `callbacks/transaction_router.py`, `callbacks/agent_workbuddy_router.py` | reference to the current plan store | `_execute_routing`, failure hook, failover | watcher, capability profiles | store swapped between two reads; failures under other names, repeated calls | a planned model fits the files; failures announce the planned model's chain in order, once |
| Stream rehydrator, `callbacks/stream_rehydrator.py` | buffer | `process_chunk`, `flush_remaining` | gateway streaming hook | placeholder cut at any chunk border | the concatenated output equals the restored text |
| Selection, `router/capability_profiles.py`, `router/model_scorer.py`, `router/template_plan_generator.py`, `router/agent_plan_generator.py` | none (pure) | scoring, filtering, plan generation | watcher, plan routers | ties, empty candidates | a plan names an existing model or the fallback |
| Classifier, `router/model_classifier.py` | `_router`, `_loaded`, `_load_error`, `_config`, lock | `ensure_loaded`, `classify`, `aclassify`, `reload` | session routing, health endpoint | worker threads; attributes read without the lock; failed loads | one load for all callers, no replaced model, availability that agrees with it |
| Health, `health.py` | none | two endpoints | pool, Redis, classifier | attributes and probes read one after the other | a report was true at some time of its request |
| Audit log and metrics, `observability/` | buffers, counters | records, counters | gateway | pure output | - |

## 2. Modules

| Module | Uses | Contents |
|---|---|---|
| `RpcContract` | | what a caller may expect of a call to ClawVault |
| `ClawVaultPool` | refines `RpcContract` | the pool and the server it can observe |
| `PoolReconnect` | `ClawVaultPool` | the same with a history of steady calls |
| `ClawVaultServer` | | the server's process, its compliance engine and rule files |
| `RouteSelection` | | choosing a tier for a score (operators) |
| `SessionRouting` | `RouteSelection` | requests, session locks, reload callback, clock |
| `SessionHistory` | `SessionRouting` | the same with a history of what sessions were served; properties |
| `PiiMapping` | | masking, the mappings in Redis, restoring |
| `StreamContract` | | what a client of a streamed answer sees |
| `StreamRehydrator` | refines `StreamContract` | the buffer that implements it |
| `Gateway` | | decisions of the pre-call hook |
| `RequestLifecycle` | refines `Gateway` | a request in LiteLLM: hooks, failing and repeated calls, the answer |
| `ConfigWatcher` | | `start()`, events, timers, reload threads, plans, `stop()` |
| `PluginLoader` | `ConfigWatcher` | the start of a process with each plug-in; the watcher's properties |
| `PlanSelection` | | scoring, constraints and plan generation (operators) |
| `PlanDispatch` | `PlanSelection` | look-ups in a plan that is replaced, failures and announcements |
| `ModelClassifier` | | calls, lazy load and reload, access by access |
| `Health` | `ModelClassifier` | the health endpoint beside Redis and the classifier at work |

`MC<module>` gives constants for TLC (`Health` and `ClawVaultServer` need none
but those of their configurations). The theorems are in eight modules:
`<module>Proofs` is about that module (`HealthProofs` about `ModelClassifier`
too, `RequestLifecycleProofs` about `Gateway`, `PluginLoaderProofs` about
`ConfigWatcher`), and `MaskingProofs` is about `PiiMapping` and
`StreamRehydrator`. Two modules whose proofs share one have different names for
their specification (`Spec` and `StreamSpec`, `HealthSpec`, `LifecycleSpec`).

Left for later: the hook composed with `RpcContract` instead of "every call may
end with None" and with `PiiMapping` for the requests it forwards.

## 3. Modules and code

A step is the code between two awaits for what runs on the event loop, and the
code between two accesses to shared state for what runs in threads.
`PROJECT.json` gives the lines of every definition; this section says how to
read them together.

**ClawVaultPool.** `pc[t]` is the await at which the coroutine of `t` is
suspended (the header of the module lists them with lines). `Call`,
`CallAfterClose`, `ResumeEmpty`, `ResumeReuse`, `ResumeStale`, `Replaced`,
`OpenConn`, `OpenRefused`, `Drained`, `ReadResult`, `ReadError`, `ReadEof` and
`Discarded` are the segments of `call()`, `_do_call()` and `_acquire()`;
`Timeout` and `Cancel` end a call at any await with the handlers and `finally`
blocks that belong to it (`LeaveQueue`, `LeaveWithPermit`, `LeaveWithConn`).
`permits` and `waiters` are asyncio's semaphore, whose waiters are granted their
permit before they run. `CloseBegin`, `CloseNext` and `CloseEnd` are `close()`.
A connection is a pair of queues of requests and answers; `link` tells apart a
lost connection that `is_closing()` notices ("reset") and one that it does not
("eof"). `Serve` is the server's handler, one request of a connection after the
other; `Crash`, `Restart`, `Hang` and `Recover` are its process. Requests of
closed connections may still be executed (`orphans`).

**RouteSelection, SessionRouting, SessionHistory.** `Ask` and `AskTrivial` are
the start of `_execute_routing()` up to the classifier; `Classified` and
`ClassifierFailed` its answers; `Select` reads the table; `Apply` is
`apply_session_policy()` under its lock. `Publish`, `AssignTiers`, `UpdateLocks`
and `UpdateRules` are the reload callback in the watcher's thread. Between two
requests only the classifier lets another one run; the callback may come
anywhere, except inside the lock. `Tick` is the clock. `SessionHistory` adds the
model and the time of the last answer of each session and changes nothing else.

**PiiMapping.** A text is the sequence of the values found in it. `Begin` is
the first `mask()` of a prompt; `Number` extends the known numbers
(`_apply_placeholders`), in an order that the recognizers' results leave open;
`Read`, `Store`, `Fetch`, `Write` are the Redis commands of `mask()`, each with
an action for its failure, with and without effect on the server; `Advance`
turns to the next message of the loop in `base_router.py`; `Restore` is the
success hook. `ExpireRequest` and `ExpireSession` are the TTLs.
`MaskerRedis = FALSE` is the wiring of `clawvault/server.py:101`.

**StreamRehydrator.** Characters are classes (an upper-case letter, a digit, the
three special characters, a newline, any other), which is what the two patterns
tell apart. `Process` is `process_chunk()` with the buffer cut at the last
character that cannot begin a placeholder, `Flush` is `flush_remaining()` with
the template chunk of the hook, `GotMapping`, `NoMapping` and `Bypass` are the
hook before and without a mapping.

**ConfigWatcher, PluginLoader.** A file holds the number of its last edit or
`Broken`, and a table or a plan the numbers of the edits it was made from.
`StartReload` and `StartObserver` are `start()`, `Observe` and `Schedule` run in
the observer's thread, `Fire` to `Finish` in a timer's thread, `CancelTimer` and
`StopObserver` are `stop()`. `Place` joins storing a plan and its callback (the
callback assigns one reference). `PluginLoader` begins with
`load_routing_plugin()`: the plan plug-ins load the configuration and make their
plans (`PrepareConfig`, `PreparePlans`) before the watcher starts (`Watch`,
`Watching`); the conversation plug-in takes configuration and table over after
it (`TakeConfig`, `TakeTable`). A plug-in that fails ends the process, which may
be started again. `missed` notes the files whose last edit came before the
observer or could not be used for lack of a configuration, and were not read
since. `Fails` is a plan that cannot be made: a broken agent file, or files that
can be read and do not go together, such as an agent whose profile the profiles
have lost, without "medium" to fall back on (`capability_profiles.py:227`; the
error is caught at `config_watcher.py:415` and the old plan stays). Which edits do
not go together is the constant `Ungenerated`; `PlanSelection` computes it from
contents. Broken profiles are the built-in ones and broken templates none, so
neither is an error. `Overlap`, `TornTake` and `SlowStart` allow what the code does not rule
out but the debounce time (two seconds by default) makes rare: a reload or a
start that outlasts it, an event between two adjacent statements.

**Gateway.** `pc[r]` is the await of the pre-call hook. Every call of the pool
may end with `None`. `Probe` joins the Redis check with the policy that reads
its result, since no await lies between them.

**RequestLifecycle.** The plug-in is the only callback, as in
`config/config.yaml` and `k8s/configmap.yaml`. `Come` brings a request; metadata
that is null fails in the proxy before any hook (`proxy_server.py:4045`).
`HasHook` is LiteLLM's look into the class of the callback: without it the
request goes to the model at once. `RunHook` is a step of `Gateway`, with the
ids that its first step puts into the metadata (`BeginHook`). Whatever the hook
raises, LiteLLM runs the failure hooks (`NoteFailure`) before the request ends
(`proxy/utils.py:239`). `Fail` is a call of the model that fails: after the
failure hook it is repeated with the same data, up to `MaxRetries` times, or its
error raised; `GiveUp` is the router without a deployment left, of which no hook
hears. `Restore` is the success hook, a task of its own that rewrites the
response object before or after `Deliver` sends it.

**ModelClassifier, Health.** A step is one access to an attribute, or two where
no other thread could tell. `config` is the number of the reload that brought
it; a model remembers the configuration and the epoch it was built in.
`Check`, `Consult` and `Acquire` are the looks of `ensure_loaded()` without and
with the lock, `Score` and `Answer` the rest of `classify()`, `BeginReload`,
`ClearRouter` and `Unload` are `reload()`, which only tests call so far;
`LoadWell`, `Publish`, `LoadFails` and `Record` are `_do_load()`. `Health` adds
the endpoint: `Ask` starts both probes, which end in any order, in time or not;
`ReadLoaded` and `ReadError` are the two reads of `is_available`. `seen` is what
a probe could have found since it began.

**ClawVaultServer.** A rule is a model value; a text says which rules it
contains, in the clear or in Base64, and whether it is dense with the built-in
role-switch keywords. The handler of a check has no await, so `HandleCheck` is
one step: it makes the engine if there is none (`EngineFor`), from the files as
they are, and decides. `StartProcess`, `Listen`, `Shutdown`, `TerminateEarly`,
`Exit` and `Crash` are the process; a stale socket file survives a crash.

**PlanSelection, PlanDispatch.** A configuration is the files' content:
models, profiles, templates, fallback model. Prices, context lengths and
benchmarks are integers in hundredths of their range and scores in hundredths
of a percent, so that sums and ties are exact; the three benchmark dimensions
are one. `Plan` is `generate_all()` of both generators; `Generates` is false
where `get_profile()` raises a `KeyError` for lack of "medium", after which the
watcher keeps the old plan. `FindTemplate` and `TransactionModel` are the two
reads of the transaction plug-in, `AgentModel` the one of the other plug-in,
`Unnamed` their early returns, `Blocked` the common hook's refusals before them.
LiteLLM calls one model and repeats that call; `Fail` is a failed call, reported
to the plug-in (`FailureEvent`) or, without a deployment left, to nobody, and
`Reject` the failure event that follows a refusal. The plug-ins only announce the
next model, in metadata and in their log, and nothing reads it. LiteLLM reports a
failure under the deployment's name or the one that the request asked for:
`Reported` is the set of names, from which each event takes any.

## 4. Runs

| Run | Configuration | Shows |
|---|---|---|
| `pool_safety` | 3 callers, 2 connections, 1 call each, 1 fault | permits balance, connections stay bounded, exclusive and clean, and the pool implements `RpcContract` |
| `pool_liveness` | 3 callers, 1 connection, 1 fault | every call ends, if a hang of the server ends |
| `session_routing` | 2 requests, 3 turns, 2 reloads among 5 configurations, clock to 2 | locks agree with the table and last, sticky keeps, escalate_only never downgrades |
| `pii` | 3 requests, 2 at once, prompts of one and two messages, 2 failures of any kind | placeholders are one to one, and an answer shows all of its own prompt's values and no other, under the conditions written in the properties |
| `pii_wiring` (violation) | masker without Redis | nothing can be restored |
| `stream_rehydrator` | texts of up to 6 characters, any chunks | the client sees a beginning of the restored text, at the end all of it |
| `watcher` | each plug-in, 2 timer threads, 2 edits, any file but the profiles may break, or profiles and templates not go together, any edit may come before the observer | what is in use is what is on disk or, of a plan, the last that could be made, the router is of one edit and never goes back, and a good last edit arrives |
| `lifecycle` | 2 requests, 6 prompts, 3 forms of metadata, 1 retry, 1 change of Redis | sent, blocked and rejected agree with the policy; a refused request never reaches the model; an answer finds the id of its placeholders |
| `lifecycle_hook` (violation) | the conversation plug-in | a request reaches the model without the hook |
| `plan_dispatch` | 2 requests, 7 configurations, both plug-ins, 2 retries | planned models fit the files, failures announce the planned model's chain in order, once |
| `health` | 2 threads, 1 reload, 1 probe, 1 change of Redis | one load serves all, no replaced model, a true report, every call ends |
| `clawvault_server` | 2 rules, 2 edits, any number of restarts | what stood in a rule file since the process began is enforced where the code searches for it: words in the clear in either direction, patterns in inbound texts, there also in Base64 |

Why the bounds are enough to be worth something:

- pool: with three callers and two connections one caller queues while two
  talk, and a permit can be granted to a caller that times out at that moment.
  One caller's payload exceeds the socket buffers, so that `drain()` really
  waits. A second call of a caller adds no state that another caller's first
  does not.
- session routing: three turns are a first answer, a second in its period and
  one after it; the five configurations differ in policy, strategy, order and
  presence of tiers and period. Two reloads let a table change and change back.
- mapping: three values and texts of up to two give equal, reordered and new
  values, and a text without any; two failures are a cause and a second one that
  removes the first safeguard, such as a failed SET and an expired session; with
  three requests one can come before and one after the two that overlap.
  `MaxNumber` is never used up, so it cuts nothing off.
- stream: the shortest placeholder, `[A_1]`, has five characters; with six the
  characters before, after and inside it vary, including the longer `[A_11]`.
- watcher: two threads are a reload and a timer armed during it; two edits are
  one that breaks a file and its repair, or one during the reload of the other.
  `Unmatched` lets the first edit of the templates, or of the profiles, leave a
  pair that no plan can be made of, and the second repair it from either side.
  The profiles never break, since a broken file is just another content.
- lifecycle: prompts of none, one and two messages, with and without personal
  data, passing compliance or not; requests with an id, without metadata and
  with null metadata; two requests share the flags of the degradation manager.
  One retry is a failed call that is repeated and one that is not.
- plans: the configurations are chosen so that a preferred model wins against a
  better one, nothing meets the constraints, scores tie, an agent is named
  twice, a profile is unknown, the default profile is missing, a template is
  renamed, and templates or models are missing altogether. The chains of two
  models name each other. Failures are reported under a name with a chain and one
  without; with two retries three failures reach the end of the longest chain and
  one beyond.
- classifier and health: two threads are two calls that race for the load, or a
  call and a reload. Threads call again as often as they like; only reloads are
  bounded, since each is an epoch.
- server: two rules let the two files lose a different one each; two edits break
  and repair a file around the start of a process.

Deadlock is checked in `plan_dispatch`, where a reload is always possible.
Elsewhere the bounded counters (calls, turns, edits, requests) let a run stop.

Fairness. `pool_liveness`: a task that can go on does (the event loop runs ready
coroutines), a timeout fires, the server serves what it can read, and
a hang ends (`RecoveringSpec`); nothing is assumed of callers, faults or
`close()`. `watcher`: the set-up of a router goes on, the observer handles
events, timers fire and reload threads go on; nothing is assumed of edits, nor
that a process that ended is started again. `health`: a thread that is in a call or a reload and
can go on does, so that building a model ends and a free lock is taken; nothing
is assumed of new calls, reloads or probes. Weak fairness is enough for the lock
because the bounded reloads leave it free at last.

## 5. Proofs

The theorems hold for every value of the constants that satisfies the module's
named assumption. TLC evaluates the assumptions in the runs.

- `ClawVaultPoolProofs`. `IInv` is inductive: permits, queue and connections
  alone are not, since a caller that found the queue empty holds a slot for a
  connection it has not opened. `SlotBound` counts these slots,
  `OpenOwned` says who has which connection, and `WireDiscipline` that at most
  one message is under way on each, from which `CleanIdle` follows: a connection
  that is put back carries no late answer. Theorems: `PoolTypeOK`,
  `PoolPermits`, `PoolOpenBound`, `PoolExclusiveUse`, `PoolCleanIdle`. With
  `ContractInv`, which adds what the pool knows of the request it is working on
  (who was executed, whose answer is on which wire), every step of pool and
  server is one of `RpcContract` or a stutter: `PoolImplementsContract`.
- `SessionRoutingProofs`. `IInv` adds to the lock's two properties that no
  request has read a clock of the future and that the period in use is one of a
  configuration. `StickyKeepsModel` and `NeverDowngrades` follow step by step:
  the lock of a session that asks in time has not expired (`LockLasts`), and its
  score is the one of its model in the table in use (`LockScores`).
- `MaskingProofs`, on `PiiMapping`. The types hold for every masker
  (`PiiTypeOK`). `MaskingInv` assumes only a masker with Redis: any prompts, any
  number of requests at once, failures of every kind. `PairsInv` says what a
  request has replaced at each step: the whole of several messages leaves no
  pair, the first message exactly those of its mapping, the second continues
  them if it could read them. `KeyInv` says where the request's own key is its
  last mapping. `SessionInv`, for a session whose requests come one after the
  other and know its numbers, says that the session's mapping agrees with that
  of the open request and holds the pairs of all others. It is this part that
  makes `restore()` right after the request's own key has expired. The lemmas
  about the operators: a numbering is injective (`NumberingInjective`) and
  continues the mapping it knows (`NumberingExtends`, `NumberingAgrees`), and
  merging mappings that agree adds up their pairs (`MergedPairs`). Theorems:
  `PiiNeverForeign`, `PiiAllRestored`, `PiiRequestOneToOne`,
  `PiiSessionOneToOne`, each the property the run checks. Without Redis
  `PiiNeverForeign` holds because nothing is replaced (`Keyless`); the other
  three do not, as `pii_wiring` shows of `AllRestored`.
- `MaskingProofs`, on `StreamRehydrator`. `StreamInv` says that what was passed
  on has been shown, restored, and that the buffer begins with `[` and has no `]`
  or, where it is empty, that after every `[` received came a character that is
  no letter, underscore or digit. So no placeholder is cut (`CleanAfter`), and a text may
  be restored in two parts wherever none is (`RehydratedCut`). That rests on
  what a placeholder is, place by place (`Spans`), which does not depend on the
  text around it, and on `FlattenSeq` of two concatenated sequences
  (`FlattenConcat`): the community module defines it with a recursive function
  and the library's induction theorems cannot be instantiated, so the lemma is
  proved by induction over a *set* of lengths, from the least element of a
  well-founded set (`NatInduct`). Theorems: `StreamNothingLost`, and
  `StreamKeepsContract`, the refinement of `StreamContract`, for every mapping
  and every way to cut an answer into chunks; `StreamAssumption` only says that
  chunks, placeholders and values are texts.
- `RequestLifecycleProofs`. `HookInv`, about `Gateway`, records at each await
  what the earlier ones have established (the prompt passed, Redis was seen up).
  It gives `StrictBlocks` and `AnnouncedSingleBypass` for every degradation
  manager, the one of `base_router.py:54` without a Redis client included; only
  `RedisPolicy`, which that manager breaks, is proved for one with a client
  (`HasRedis`). `LifecycleImplementsGateway` shows that LiteLLM, whatever the
  plug-in and however often it repeats a call, runs `Gateway` step by step or
  leaves it alone, so these hold there. `LifecycleInv` says which requests have
  their id (`NamedInv`, for every plug-in) and that what is with a model has been
  forwarded by the hook and what is failing has passed it or been refused
  (`StageInv`, with a plug-in that has its own hook). `LifecycleHookRuns` and
  `LifecyclePlaceholdersRestorable` follow; `LifecycleHook.cfg` shows that the
  first needs the plug-in's own hook.
- `PluginLoaderProofs`. `LoaderTypes` holds without assumptions. The invariant
  `LoaderInv` orders what was read: who is reloading holds edits no older than
  those in use, the router those of a finished reload, the set-up those it began
  with. If reloads do not overlap and a start does not outlast the debounce time
  (`Orderly`), it gives `RouterConsistent` and, step by step, `NeverBackwards`.
  `ConfigInv` says that the configuration in use is the one on disk as soon as
  no event, reload or missed edit stands for a difference, which gives
  `LoaderConverges`; `PlanInv` says the same of each plan and its own file, as far as a plan can be
  made of that file with the profiles (`Fails`).
  `PendingInv` says that a pending file has a timer or a reload to come, and that
  a reload about to clear the set has all of it; with the assumption that no
  event falls between the copy and the clear of that set (`~TornTake`) the two
  give `LoaderOwnFilesConverge`. Section 6 has the runs that show that the
  assumptions are needed.
- `HealthProofs`. `IInv`, about `ModelClassifier`, says that who is inside
  `_do_load()` or `reload()` holds the lock, what the attributes are at each
  place inside, and that between loads they agree (`Coherent`). `LoadedOnce`,
  `NoStaleAnswer` and `AvailableIsUsable` follow for any number of threads and
  reloads. `Health` is the classifier with a probe beside it
  (`HealthIsClassifier`), so all of this holds in it. `ProbeInv` relates what the
  probe has read to what it could have found since it began (`Evidence`), across
  its two reads of `is_available`: `HealthReportIsTrue`.
- `ClawVaultServerProofs`. `SteadyInv` says that a rule its file has shown since
  the process began is on disk and, once there is one, in the engine: the engine
  is made by the first check of a process, and an edit that removes a rule or
  makes the file unreadable ends the rule's claim. `ServerRulesEnforced` follows.
- `PlanDispatchProofs`. `PlanFits` is about the operators: the first of a
  stable sort is a best candidate. It rests on the least element of a set of
  numbers, taken from the well-foundedness of finite sets, because `CHOOSE` is
  only known to give what exists. `DispatchInv` says that the plan is the
  configuration's and that a planned request holds the chain of its model, with
  the number of failures it has heard of as its index, up to the chain's end. For
  any chains, names and number of retries it gives `AnnouncedInOrder`, and with
  `PlanFits` `FitsWhenSent`.

TLC checked each invariant on the runs' configurations before it was proved.
Three were not inductive at first and were strengthened: `PairsInv` had not said
that a request of one message that is storing has replaced exactly what it
stores; `StreamInv` needs the case of a stream that ends before any chunk had
text; and a type invariant alone does not bound the message a request is at,
since only a request that has not begun is known to be at the first
(`NotBegun`).

## 6. Where code and documentation differ

Two disagreements are runs with an expected violation (`pii_wiring`,
`lifecycle_hook`, see "findings" in `PROJECT.json`). The others can be run by
hand, `tlc -config <cfg> <module>`, after the change named here to the
configuration, if any; all end with the property violated.

| Configuration | Module | Property | What the trace shows |
|---|---|---|---|
| `PoolHang` | `MCClawVaultPool` | `CallsReturn` | no timeout bounds `drain()` (`uds_pool.py:257`): a large payload to a hung server never ends |
| `PoolClose` | `MCClawVaultPool` | `ClosedMeansNoConnection` | a call in flight puts its connection back after `close()` has emptied the queue (`uds_pool.py:191`) |
| `PoolReconnect` | `PoolReconnect` | `ReconnectsAfterRestart` | after a restart the first call on each dead connection is bypassed (`uds_pool.py:265`) |
| `SessionExpiry` | `MCSessionRouting` | `ReloadKeepsOnlyValidLocks` | a reload extends locks that have expired (`route_resolver.py:119`) |
| `PiiMessages` | `MCPiiMapping` | `AlwaysOneToOne` | the messages of a prompt are numbered one by one, so one number stands for two values (`masker.py:174`) |
| `PiiMessagesRestore` | `MCPiiMapping` | `AlwaysRestored` | each `mask()` replaces the mapping of the one before (`base_router.py:242`) |
| `PiiSession` | `MCPiiMapping` | `AlwaysOneToOneInSession` | two requests at once number from the same mapping (`masker.py:174`) |
| `PiiSession` with `PROPERTY MergeKeepsKeys` | `MCPiiMapping` | `MergeKeepsKeys` | and the later SET replaces what the earlier one stored (`redis_client.py:218`) |
| `LifecycleMessages` | `MCRequestLifecycle` | `AnnouncedBypass` | a message of several whose masking fails is sent as it is without an alert (`base_router.py:250`) |
| `LifecycleRestore` | `MCRequestLifecycle` | `RestoredIsShown` | the success hook restores the response after the client has got it (`base_router.py:335`) |
| `Lifecycle`, `HasRedis = FALSE` | `MCRequestLifecycle` | `RedisPolicy` | without a Redis client the manager reports Redis healthy (`base_router.py:54`) |
| `Watcher`, `Overlap = TRUE` | `MCPluginLoader` | `Converges` | a reload that outlasts the debounce time overwrites the newer one (`config_watcher.py:287`) |
| `Watcher`, `Overlap = TRUE` | `MCPluginLoader` | `NeverBackwards` | and the router goes back to the older table (`config_watcher.py:302`) |
| `Watcher`, `TornTake = TRUE` | `MCPluginLoader` | `OwnFilesConverge` | an event between the copy and the clear of the pending set is lost (`config_watcher.py:249`) |
| `Watcher`, `SlowStart = TRUE` | `MCPluginLoader` | `RouterConsistent` | a reload between taking the configuration and the table over (`smart_router.py:108`) mixes two edits |
| `Watcher` | `MCPluginLoader` | `PlansConverge` | plans made while `route_config.yaml` was broken are not made again when it is repaired (`config_watcher.py:346`) |
| `Watcher` | `MCPluginLoader` | `NothingMissed` | an edit before the observer runs is not seen until the next (`config_watcher.py:158`) |
| `Watcher` | `MCPluginLoader` | `KeepsTransactionPlan` | a broken file of templates reads as an empty one and clears the plan (`template_models.py:87`) |
| `Watcher` | `MCPluginLoader` | `StopIsFinal` | an event between cancelling the timer and stopping the observer starts a reload (`config_watcher.py:180`) |
| `PlanDispatch` | `MCPlanDispatch` | `NoTemplatesFallBack` | without templates requests that name one get status 400 (`transaction_router.py:198`), not the fallback model of the repository's `README.md:653` |
| `PlanDispatch` | `MCPlanDispatch` | `UnknownOfTemplate` | a plan replaced between the two reads turns a template that has just gone into an unknown agent (`transaction_router.py:203`) |
| `PlanDispatch` | `MCPlanDispatch` | `AnnouncedIsCalled` | a failed model is called again and the announced one never, where `.kiro/specs/agent-workbuddy/design.md:569` has it attempt the models of the chain (`transaction_router.py:334`) |
| `PlanDispatch` | `MCPlanDispatch` | `AnnouncedOnce` | a request without a stored chain takes that of each failed model anew and announces one model over and over (`transaction_router.py:307`) |
| `PlanDispatch` | `MCPlanDispatch` | `RejectedQuietly` | a failover is announced for a request that was refused before any call, if the model it asked for has a chain (`transaction_router.py:308`) |
| `PlanDispatch` | `MCPlanDispatch` | `CurrentFallback` | the fallback model and the chains of the plug-in stay those of the start (`plugin_loader.py:150`) |
| `Health` | `Health` | `NeverCrashes` | a call that passed `ensure_loaded()` finds `_router` cleared by `reload()` and ends with an AttributeError (`model_classifier.py:136`) |
| `Health` | `Health` | `LabelIsTrue` | the answer names the type that a reload in between has configured (`model_classifier.py:150`) |
| `Health` | `Health` | `UpWasUsable` | `_loaded` is set before the error of a failed load, so a probe in between reports it up (`model_classifier.py:217`) |
| `HealthPing` | `Health` | `UpWhenAnswering` | the server has no method `ping` and its error makes the probe report it down (`health.py:52`) |
| `ClawVaultServer`, `Modes = {"strict", "permissive"}` | `ClawVaultServer` | `ModeAsAsked` | the mode of the first check of a process counts for all later ones (`compliance.py:433`) |

Where a row names a property that the configuration does not, put it in place of
the configuration's own; for `Watcher` use `Spec` instead of `FairSpec`. With only the plans' own files breakable and no early edits,
`PlansConverge` holds.

Seen while reading, without a model: `select_best_model()` says that it takes the
first name of `prefer_models` (`capability_profiles.py:318`) and takes the
best-scored preferred model; `get_next_failover_model()`, when it is called after
the failure event, skips a model; `ComplianceEngine.reload()` is called by tests
only; `async_post_call_streaming_iterator_hook()` is not a name that the vendored
LiteLLM calls.

## 7. What is only model-checked, and what is not modelled

- Liveness (`CallsReturn`, `EditsArrive`, `CallsEnd`) is checked by
  TLC only: the installed provers have no rules for `ENABLED`, which fairness is
  defined by. All other properties of the passing runs, invariants, action
  properties and refinements, are also theorems, under the assumptions that
  section 5 names.
- The recognizers and the matching of patterns are inputs: which values and which
  rules a text holds. Their regular expressions are data.
- Redis is a map with failures; its retries are an operation that may have
  taken effect although it failed.
- LiteLLM is the caller of the hooks, with calls that fail and are repeated; its
  deployments and its load balancing are not modelled. In
  `ConfigWatcher` a good `models.yaml` names at least one model (without any, every
  plan is empty: that case is in `PlanSelection`).
- Streams and metadata: a chunk without text is passed on at once and overtakes
  text held in the buffer (`base_router.py:407`); the contract is about text.
- The request logger is not modelled because no configuration of the repository
  calls it: `config/config.yaml:101` and `k8s/configmap.yaml:80` name one
  callback, `custom_callbacks.py:39` appends the logger to `litellm.callbacks`
  while LiteLLM imports that callback, and LiteLLM then assigns a new list that
  holds it alone (`proxy_server.py:2598`).
- `GET /health/routing` reads a table that one assignment replaces.
- Not modelled because they keep no state that anything reads back: metrics,
  audit records, deployment files; and vendored code.
