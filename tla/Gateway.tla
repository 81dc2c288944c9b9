------------------------------- MODULE Gateway -------------------------------
(***************************************************************************)
(* callbacks/base_router.py's pre-call hook with callbacks/degradation.py: *)
(* the decisions that lead a request to a model or refuse it.  Requests    *)
(* are coroutines of one event loop, so a step is the code between two     *)
(* awaits.  Every call of the pool may end with None (RpcContract's        *)
(* "bypass").  A prompt says which of its messages hold personal data and  *)
(* whether the compliance engine passes it.                                *)
(***************************************************************************)
EXTENDS Naturals, Sequences

CONSTANTS
    Requests,
    Prompts,     \* what a request may ask: [personal : Seq(BOOLEAN), passed : BOOLEAN]
    Mode,        \* compliance mode of the service
    HasRedis,    \* whether the degradation manager was given a Redis client
    MaxChanges   \* bound: changes of Redis

ASSUME GatewayAssumption ==
    /\ Prompts \subseteq [personal : Seq(BOOLEAN), passed : BOOLEAN]
    /\ \A p \in Prompts : p.personal = <<>> => p.passed
    /\ HasRedis \in BOOLEAN /\ MaxChanges \in Nat

VARIABLES
    redisUp, changes,
    clawvaultState, redisState,  \* DegradationManager
    pc,        \* per request, the await it is at or how it ended
    prompt,    \* per request
    masked,    \* per request: messages that have had their turn in masked form
    turn,      \* per request: the message of several to mask next
    announced, \* per request: whether a bypass was logged and reported
    redisSeen  \* per request: the states of Redis (up or not) since it came

environment == <<redisUp, changes>>
flags == <<clawvaultState, redisState>>
texts == <<prompt, masked, turn>>
vars == <<environment, flags, pc, texts, announced, redisSeen>>

ComponentState == {"healthy", "unhealthy", "unknown"}
NoPrompt == [personal |-> <<>>, passed |-> TRUE]
Ended == {"forwarded", "blocked", "rejected", "failed"}

Personal(r) == {i \in DOMAIN prompt[r].personal : prompt[r].personal[i]}
Single(r) == Len(prompt[r].personal) = 1
Goto(r, place) == pc' = [pc EXCEPT ![r] = place]
Observed == IF redisUp THEN "healthy" ELSE "unhealthy"

-----------------------------------------------------------------------------
Init ==
    /\ redisUp \in BOOLEAN /\ changes = 0
    /\ clawvaultState = "unknown" /\ redisState = "unknown"
    /\ pc = [r \in Requests |-> "new"]
    /\ prompt = [r \in Requests |-> NoPrompt]
    /\ masked = [r \in Requests |-> {}]
    /\ turn = [r \in Requests |-> 1]
    /\ announced = [r \in Requests |-> FALSE]
    /\ redisSeen = [r \in Requests |-> {}]

RedisChanges ==
    /\ changes < MaxChanges
    /\ changes' = changes + 1
    /\ redisUp' = ~ redisUp
    /\ redisSeen' = [r \in Requests |->
          IF pc[r] \in {"new"} \cup Ended THEN redisSeen[r] ELSE redisSeen[r] \cup {redisUp'}]
    /\ UNCHANGED <<flags, pc, texts, announced>>

\* Up to the call of check_compliance; a prompt without text passes at once.
Arrive(r) ==
    /\ pc[r] = "new"
    /\ \E p \in Prompts :
          /\ prompt' = [prompt EXCEPT ![r] = p]
          /\ Goto(r, IF p.personal = <<>> THEN "forwarded" ELSE "checking")
    /\ redisSeen' = [redisSeen EXCEPT ![r] = {redisUp}]
    /\ UNCHANGED <<environment, flags, masked, turn, announced>>

\* check_compliance, or mask of the whole prompt, ends with None.
Bypass(r) ==
    /\ pc[r] \in {"checking", "masking"}
    /\ clawvaultState' = "unhealthy"
    /\ announced' = [announced EXCEPT ![r] = TRUE]
    /\ Goto(r, "routing")
    /\ UNCHANGED <<environment, redisState, texts, redisSeen>>

\* A permissive service blocks, a strict one does not.
WrongChecked(r) ==
    /\ pc[r] = "checking"
    /\ Goto(r, IF ~ prompt[r].passed /\ Mode = "permissive" THEN "blocked" ELSE "masking")
    /\ UNCHANGED <<environment, flags, texts, announced, redisSeen>>

\* check_compliance answers.
Checked(r) ==
    /\ pc[r] = "checking"
    /\ Goto(r, IF ~ prompt[r].passed /\ Mode = "strict" THEN "blocked" ELSE "masking")
    /\ UNCHANGED <<environment, flags, texts, announced, redisSeen>>

\* mask of the whole prompt answers.
Masked(r) ==
    /\ pc[r] = "masking"
    /\ clawvaultState' = "healthy"
    /\ Goto(r, IF Personal(r) # {} THEN "probing" ELSE "replacing")
    /\ UNCHANGED <<environment, redisState, texts, announced, redisSeen>>

\* Asks Redis only while its state is unknown.
WrongProbe(r) ==
    /\ pc[r] = "probing"
    /\ redisState' = IF redisState = "unknown" THEN Observed ELSE redisState
    /\ Goto(r, IF redisState' = "unhealthy" THEN "rejected" ELSE "replacing")
    /\ UNCHANGED <<environment, clawvaultState, texts, announced, redisSeen>>

\* check_redis_health() and, without an await in between, enforce_redis_policy().
Probe(r) ==
    /\ pc[r] = "probing"
    /\ redisState' = IF HasRedis THEN Observed ELSE redisState
    /\ Goto(r, IF HasRedis /\ redisState' = "unhealthy" THEN "rejected" ELSE "replacing")
    /\ UNCHANGED <<environment, clawvaultState, texts, announced, redisSeen>>

\* The masked prompt goes to the router only.
WrongReplace(r) ==
    /\ pc[r] = "replacing" /\ Single(r)
    /\ Goto(r, "routing")
    /\ UNCHANGED <<environment, flags, texts, announced, redisSeen>>

\* The only message takes the masked prompt.
Replace(r) ==
    /\ pc[r] = "replacing" /\ Single(r)
    /\ masked' = [masked EXCEPT ![r] = {1}]
    /\ Goto(r, "routing")
    /\ UNCHANGED <<environment, flags, prompt, turn, announced, redisSeen>>

\* mask of one message of several ends; with None the message stays as it is.
MaskMessage(r) ==
    /\ pc[r] = "replacing" /\ ~ Single(r)
    /\ \E done \in BOOLEAN :
          masked' = [masked EXCEPT ![r] = IF done THEN @ \cup {turn[r]} ELSE @]
    /\ turn' = [turn EXCEPT ![r] = @ + 1]
    /\ Goto(r, IF turn[r] = Len(prompt[r].personal) THEN "routing" ELSE "replacing")
    /\ UNCHANGED <<environment, flags, prompt, announced, redisSeen>>

\* _execute_routing() of the plug-in; it may refuse the request.
Route(r) ==
    /\ pc[r] = "routing"
    /\ Goto(r, "forwarded") \/ Goto(r, "failed")
    /\ UNCHANGED <<environment, flags, texts, announced, redisSeen>>

-----------------------------------------------------------------------------
Step(r) ==
    \/ Arrive(r)
    \/ Bypass(r)
    \/ Checked(r)
    \/ Masked(r)
    \/ Probe(r)
    \/ Replace(r)
    \/ MaskMessage(r)
    \/ Route(r)

Next == RedisChanges \/ \E r \in Requests : Step(r)

Spec == Init /\ [][Next]_vars

-----------------------------------------------------------------------------
\* Type invariant.  Only messages that hold personal data are masked.
TypeOK ==
    /\ redisUp \in BOOLEAN /\ changes \in 0 .. MaxChanges
    /\ clawvaultState \in ComponentState /\ redisState \in ComponentState
    /\ pc \in [Requests -> {"new", "checking", "masking", "probing", "replacing",
                            "routing"} \cup Ended]
    /\ prompt \in [Requests -> Prompts \cup {NoPrompt}]
    /\ turn \in [Requests -> Nat \ {0}]
    /\ masked \in [Requests -> SUBSET Nat]
    /\ \A r \in Requests : masked[r] \subseteq DOMAIN prompt[r].personal
    /\ announced \in [Requests -> BOOLEAN]
    /\ redisSeen \in [Requests -> SUBSET BOOLEAN]

Clear(r) == Personal(r) \ masked[r]
Replaced(r) == Personal(r) \cap masked[r]

\* Personal data reaches a model as it is only after the bypass was logged as
\* critical and reported (NFR-3.1).
AnnouncedBypass ==
    \A r \in Requests : pc[r] = "forwarded" /\ Clear(r) # {} => announced[r]

\* The same for a prompt of one message.
AnnouncedSingleBypass ==
    \A r \in Requests :
        pc[r] = "forwarded" /\ Single(r) /\ Clear(r) # {} => announced[r]

\* In strict mode a prompt with a violation reaches a model only after the
\* bypass was announced.
StrictBlocks ==
    Mode = "strict" => \A r \in Requests :
        pc[r] = "forwarded" /\ ~ prompt[r].passed => announced[r]

\* A request with placeholders is not sent if Redis was down all the time, and
\* none is rejected if it was up all the time (NFR-3.2), whatever other
\* requests found out about Redis; for a manager that was given a client.
RedisPolicy ==
    \A r \in Requests :
        /\ pc[r] = "forwarded" /\ Replaced(r) # {} => TRUE \in redisSeen[r]
        /\ pc[r] = "rejected" => FALSE \in redisSeen[r]

\* What makes the three inductive: what each await may rely on about its request,
UnderWay(r) == pc[r] \notin {"new"} \cup Ended

\* and what it knows of Redis, if the manager can ask it.
RedisInv(r) ==
    /\ UnderWay(r) => redisUp \in redisSeen[r]
    /\ pc[r] = "replacing" /\ Personal(r) # {} => TRUE \in redisSeen[r]
    /\ pc[r] \in {"routing", "forwarded"} /\ Replaced(r) # {} => TRUE \in redisSeen[r]
    /\ pc[r] = "rejected" => FALSE \in redisSeen[r]

RequestInv(r) ==
    /\ pc[r] \in {"new", "checking", "masking", "probing"} => masked[r] = {} /\ turn[r] = 1
    /\ UnderWay(r) => prompt[r].personal # <<>>
    /\ pc[r] = "replacing" => turn[r] <= Len(prompt[r].personal)
    /\ Mode = "strict" =>
          /\ pc[r] \in {"masking", "probing", "replacing"} => prompt[r].passed
          /\ pc[r] \in {"routing", "forwarded"} => prompt[r].passed \/ announced[r]
    /\ pc[r] \in {"routing", "forwarded"} /\ Single(r) =>
          masked[r] = {1} \/ announced[r]
    /\ HasRedis => RedisInv(r)

HookInv == TypeOK /\ \A r \in Requests : RequestInv(r)
=============================================================================
