------------------------ MODULE RequestLifecycleProofs ------------------------
(***************************************************************************)
(* Proofs about Gateway and RequestLifecycle.  For any number of requests  *)
(* and any prompts a strict gateway keeps its promise about violations and *)
(* the one about personal data in a prompt of one message, with Redis or   *)
(* without; with a degradation manager that was given a Redis client it    *)
(* keeps the one about Redis too.  The life of a request in LiteLLM        *)
(* implements the gateway, so all three hold there; and with a plug-in     *)
(* whose hook LiteLLM finds no request gets round the hook, and no         *)
(* placeholder is sent without the id that its restoring needs.            *)
(***************************************************************************)
EXTENDS RequestLifecycle, TLAPS

\* The state of one request.
RequestVars(r) == <<pc[r], prompt[r], masked[r], turn[r], announced[r], redisSeen[r]>>

\* A request that did not move keeps its invariant.
LEMMA GatewayFrame ==
    ASSUME NEW r \in Requests, RequestInv(r), RequestVars(r)' = RequestVars(r),
           redisUp' = redisUp
    PROVE  RequestInv(r)'
BY DEF RequestInv, RedisInv, RequestVars, UnderWay, Personal, Replaced, Single

\* What a prompt is.
LEMMA GatewayPrompt ==
    ASSUME TypeOK, NEW r \in Requests
    PROVE  prompt[r].personal \in Seq(BOOLEAN) /\ prompt[r].passed \in BOOLEAN
<1>1. prompt[r] \in Prompts \cup {NoPrompt}
  BY DEF TypeOK
<1>2. NoPrompt.personal \in Seq(BOOLEAN) /\ NoPrompt.passed \in BOOLEAN
  BY DEF NoPrompt
<1> QED BY <1>1, <1>2, GatewayAssumption

\* In the initial state no request has come.
LEMMA GatewayInit == Init => HookInv
<1> SUFFICES ASSUME Init PROVE HookInv
  OBVIOUS
<1>1. TypeOK
  BY GatewayAssumption DEF Init, TypeOK, ComponentState, NoPrompt
<1>2. ASSUME NEW r \in Requests PROVE RequestInv(r)
  BY DEF Init, RequestInv, RedisInv, UnderWay, Replaced, Ended
<1> QED BY <1>1, <1>2 DEF HookInv

\* Redis comes or goes: every request on its way sees it.
LEMMA GatewayRedis == HookInv /\ RedisChanges => HookInv'
<1> SUFFICES ASSUME HookInv, RedisChanges PROVE HookInv'
  OBVIOUS
<1>0. TypeOK /\ \A r \in Requests : RequestInv(r)
  BY DEF HookInv
<1>1. TypeOK'
  <2>1. changes' \in 0 .. MaxChanges
    BY <1>0, GatewayAssumption DEF TypeOK, RedisChanges
  <2>2. redisUp' \in BOOLEAN
    BY <1>0 DEF TypeOK, RedisChanges
  <2>3. redisSeen' \in [Requests -> SUBSET BOOLEAN]
    BY <1>0, <2>2 DEF TypeOK, RedisChanges
  <2> QED BY <1>0, <2>1, <2>2, <2>3 DEF TypeOK, RedisChanges, flags, texts
<1>2. ASSUME NEW r \in Requests PROVE RequestInv(r)'
  <2>1. UNCHANGED <<pc[r], prompt[r], masked[r], turn[r], announced[r]>>
    BY DEF RedisChanges, texts
  <2>2. redisSeen[r] \subseteq redisSeen'[r]
    BY <1>0, <1>2 DEF TypeOK, RedisChanges
  <2>3. UnderWay(r)' => redisUp' \in redisSeen'[r]
    BY <1>0, <1>2, <2>1 DEF TypeOK, RedisChanges, UnderWay
  <2> QED BY <1>0, <1>2, <2>1, <2>2, <2>3
          DEF RequestInv, RedisInv, UnderWay, Personal, Replaced, Single
<1> QED BY <1>1, <1>2 DEF HookInv

-----------------------------------------------------------------------------
(* The steps of one request r; the others do not move.                     *)

\* A request comes.
LEMMA GatewayArrive ==
    ASSUME HookInv, NEW r \in Requests, Arrive(r)
    PROVE  HookInv'
<1>0. TypeOK /\ \A u \in Requests : RequestInv(u)
  BY DEF HookInv
<1>1. TypeOK'
  <2>1. PICK p \in Prompts :
           /\ prompt' = [prompt EXCEPT ![r] = p]
           /\ pc' = [pc EXCEPT ![r] = IF p.personal = <<>> THEN "forwarded" ELSE "checking"]
    BY DEF Arrive, Goto
  <2>2. masked[r] = {}
    BY <1>0 DEF RequestInv, Arrive
  <2>3. UNCHANGED <<redisUp, changes, clawvaultState, redisState, masked, turn, announced>>
    BY DEF Arrive, environment, flags
  <2>4. prompt' \in [Requests -> Prompts \cup {NoPrompt}]
    BY <1>0, <2>1 DEF TypeOK
  <2>5. \A u \in Requests : masked'[u] \subseteq DOMAIN prompt'[u].personal
    BY <1>0, <2>1, <2>2, <2>3 DEF TypeOK
  <2>6. redisSeen' \in [Requests -> SUBSET BOOLEAN]
    BY <1>0 DEF TypeOK, Arrive
  <2>7. pc' \in [Requests -> {"new", "checking", "masking", "probing", "replacing",
                              "routing"} \cup Ended]
    BY <1>0, <2>1 DEF TypeOK, Ended
  <2> QED BY <1>0, <2>3, <2>4, <2>5, <2>6, <2>7 DEF TypeOK
<1>2. RequestInv(r)'
  <2>1. PICK p \in Prompts :
           /\ prompt' = [prompt EXCEPT ![r] = p]
           /\ pc' = [pc EXCEPT ![r] = IF p.personal = <<>> THEN "forwarded" ELSE "checking"]
    BY DEF Arrive, Goto
  <2>2. prompt'[r] = p /\ (p.personal = <<>> => p.passed)
    BY <1>0, <2>1, GatewayAssumption DEF TypeOK
  <2>3. pc'[r] = IF p.personal = <<>> THEN "forwarded" ELSE "checking"
    BY <1>0, <2>1 DEF TypeOK
  <2>4. masked'[r] = {} /\ turn'[r] = 1
    BY <1>0 DEF RequestInv, Arrive
  <2>5. redisSeen'[r] = {redisUp} /\ redisUp' = redisUp
    BY <1>0 DEF TypeOK, Arrive, environment
  <2>6. Replaced(r)' = {}
    BY <2>4 DEF Replaced
  <2>7. p.personal = <<>> => Len(p.personal) = 0
    OBVIOUS
  <2> QED BY <2>2, <2>3, <2>4, <2>5, <2>6, <2>7 DEF RequestInv, RedisInv, UnderWay, Ended, Single
<1>3. ASSUME NEW u \in Requests, u # r PROVE RequestInv(u)'
  <2>1. RequestVars(u)' = RequestVars(u) /\ redisUp' = redisUp
    BY <1>0, <1>3 DEF TypeOK, Arrive, Goto, RequestVars, environment, flags, texts
  <2> QED BY <1>0, <1>3, <2>1, GatewayFrame
<1> QED BY <1>1, <1>2, <1>3 DEF HookInv

\* A call ended with None.
LEMMA GatewayBypass ==
    ASSUME HookInv, NEW r \in Requests, Bypass(r)
    PROVE  HookInv'
<1>0. TypeOK /\ \A u \in Requests : RequestInv(u)
  BY DEF HookInv
<1>1. TypeOK'
  BY <1>0 DEF TypeOK, Bypass, Goto, Ended, ComponentState, Observed, environment, flags, texts
<1>2. RequestInv(r)'
  <2>1. RequestInv(r)
    BY <1>0
  <2> QED BY <1>0, <2>1 DEF TypeOK, Bypass, Goto, Ended, RequestInv, RedisInv, UnderWay, Personal,
             Replaced, Single, Observed, environment, flags, texts
<1>3. ASSUME NEW u \in Requests, u # r PROVE RequestInv(u)'
  <2>1. RequestVars(u)' = RequestVars(u) /\ redisUp' = redisUp
    BY <1>0, <1>3 DEF TypeOK, Bypass, Goto, RequestVars, environment, flags, texts
  <2> QED BY <1>0, <1>3, <2>1, GatewayFrame
<1> QED BY <1>1, <1>2, <1>3 DEF HookInv

\* Strict mode lets only prompts without a violation on.
LEMMA GatewayChecked ==
    ASSUME HookInv, NEW r \in Requests, Checked(r)
    PROVE  HookInv'
<1>0. TypeOK /\ \A u \in Requests : RequestInv(u)
  BY DEF HookInv
<1>1. TypeOK'
  BY <1>0 DEF TypeOK, Checked, Goto, Ended, ComponentState, Observed, environment, flags, texts
<1>2. RequestInv(r)'
  <2>1. RequestInv(r)
    BY <1>0
  <2> QED BY <1>0, <2>1 DEF TypeOK, Checked, Goto, Ended, RequestInv, RedisInv, UnderWay, Personal,
             Replaced, Single, Observed, environment, flags, texts
<1>3. ASSUME NEW u \in Requests, u # r PROVE RequestInv(u)'
  <2>1. RequestVars(u)' = RequestVars(u) /\ redisUp' = redisUp
    BY <1>0, <1>3 DEF TypeOK, Checked, Goto, RequestVars, environment, flags, texts
  <2> QED BY <1>0, <1>3, <2>1, GatewayFrame
<1> QED BY <1>1, <1>2, <1>3 DEF HookInv

\* The whole prompt was masked.
LEMMA GatewayMasked ==
    ASSUME HookInv, NEW r \in Requests, Masked(r)
    PROVE  HookInv'
<1>0. TypeOK /\ \A u \in Requests : RequestInv(u)
  BY DEF HookInv
<1>1. TypeOK'
  BY <1>0 DEF TypeOK, Masked, Goto, Ended, ComponentState, Observed, environment, flags, texts
<1>2. RequestInv(r)'
  <2>1. pc[r] = "masking" /\ RequestInv(r)
    BY <1>0 DEF Masked
  <2>2. pc'[r] = IF Personal(r) # {} THEN "probing" ELSE "replacing"
    BY <1>0 DEF TypeOK, Masked, Goto
  <2>3. UNCHANGED <<redisUp, prompt, masked, turn, announced, redisSeen>>
    BY DEF Masked, environment, texts
  <2>4. Len(prompt[r].personal) >= 1
    BY <1>0, <2>1, GatewayPrompt DEF RequestInv, RedisInv, UnderWay, Ended
  <2>5. Personal(r)' = Personal(r) /\ Replaced(r)' = Replaced(r)
    BY <2>3 DEF Personal, Replaced
  <2> QED BY <2>1, <2>2, <2>3, <2>4, <2>5 DEF RequestInv, RedisInv, UnderWay, Ended, Single
<1>3. ASSUME NEW u \in Requests, u # r PROVE RequestInv(u)'
  <2>1. RequestVars(u)' = RequestVars(u) /\ redisUp' = redisUp
    BY <1>0, <1>3 DEF TypeOK, Masked, Goto, RequestVars, environment, flags, texts
  <2> QED BY <1>0, <1>3, <2>1, GatewayFrame
<1> QED BY <1>1, <1>2, <1>3 DEF HookInv

\* Redis is asked; the answer is one of the states the request has seen.
LEMMA GatewayProbe ==
    ASSUME HookInv, NEW r \in Requests, Probe(r)
    PROVE  HookInv'
<1>0. TypeOK /\ \A u \in Requests : RequestInv(u)
  BY DEF HookInv
<1>1. TypeOK'
  BY <1>0 DEF TypeOK, Probe, Goto, Ended, ComponentState, Observed, environment, flags, texts
<1>2. RequestInv(r)'
  <2>1. pc[r] = "probing" /\ RequestInv(r) /\ redisUp \in BOOLEAN
    BY <1>0 DEF Probe, TypeOK
  <2>2. UNCHANGED <<redisUp, prompt, masked, turn, announced, redisSeen>>
    BY DEF Probe, environment, texts
  <2>3. Personal(r)' = Personal(r) /\ Replaced(r)' = Replaced(r) /\ Replaced(r) = {}
    BY <2>1, <2>2 DEF RequestInv, Personal, Replaced
  <2>4. turn[r] <= Len(prompt[r].personal) /\ UnderWay(r)
    BY <1>0, <2>1, GatewayPrompt DEF RequestInv, UnderWay, Ended
  <2>5. pc'[r] = IF HasRedis /\ ~ redisUp THEN "rejected" ELSE "replacing"
    BY <1>0, <2>1 DEF TypeOK, Probe, Goto, Observed
  <2>6. HasRedis => RedisInv(r)'
    <3> SUFFICES ASSUME HasRedis PROVE RedisInv(r)'
      OBVIOUS
    <3>1. redisUp \in redisSeen[r]
      BY <2>1, <2>4 DEF RequestInv, RedisInv
    <3> QED BY <2>1, <2>2, <2>3, <2>5, <3>1 DEF RedisInv
  <2>7. pc'[r] \in {"rejected", "replacing"}
    BY <2>5
  <2> QED BY <2>1, <2>2, <2>4, <2>6, <2>7 DEF RequestInv, UnderWay, Ended, Single
<1>3. ASSUME NEW u \in Requests, u # r PROVE RequestInv(u)'
  <2>1. RequestVars(u)' = RequestVars(u) /\ redisUp' = redisUp
    BY <1>0, <1>3 DEF TypeOK, Probe, Goto, RequestVars, environment, flags, texts
  <2> QED BY <1>0, <1>3, <2>1, GatewayFrame
<1> QED BY <1>1, <1>2, <1>3 DEF HookInv

\* The only message takes the masked prompt.
LEMMA GatewayReplace ==
    ASSUME HookInv, NEW r \in Requests, Replace(r)
    PROVE  HookInv'
<1>0. TypeOK /\ \A u \in Requests : RequestInv(u)
  BY DEF HookInv
<1>1. TypeOK'
  <2>1. 1 \in DOMAIN prompt[r].personal
    BY <1>0, GatewayPrompt DEF Replace, Single
  <2>2. masked' \in [Requests -> SUBSET Nat]
    BY <1>0 DEF TypeOK, Replace
  <2>3. \A u \in Requests : masked'[u] \subseteq DOMAIN prompt'[u].personal
    BY <1>0, <2>1 DEF TypeOK, Replace
  <2> QED BY <1>0, <2>2, <2>3 DEF TypeOK, Replace, Goto, Ended, environment, flags
<1>2. RequestInv(r)'
  <2>1. RequestInv(r)
    BY <1>0
  <2> QED BY <1>0, <2>1 DEF TypeOK, Replace, Goto, Ended, RequestInv, RedisInv, UnderWay, Personal,
             Replaced, Single, Observed, environment, flags, texts
<1>3. ASSUME NEW u \in Requests, u # r PROVE RequestInv(u)'
  <2>1. RequestVars(u)' = RequestVars(u) /\ redisUp' = redisUp
    BY <1>0, <1>3 DEF TypeOK, Replace, Goto, RequestVars, environment, flags, texts
  <2> QED BY <1>0, <1>3, <2>1, GatewayFrame
<1> QED BY <1>1, <1>2, <1>3 DEF HookInv

\* One message of several.
LEMMA GatewayMaskMessage ==
    ASSUME HookInv, NEW r \in Requests, MaskMessage(r)
    PROVE  HookInv'
<1>0. TypeOK /\ \A u \in Requests : RequestInv(u)
  BY DEF HookInv
<1>1. TypeOK'
  <2>0. /\ turn[r] <= Len(prompt[r].personal) /\ turn[r] \in Nat \ {0}
        /\ prompt[r].personal \in Seq(BOOLEAN)
    BY <1>0, GatewayPrompt DEF TypeOK, MaskMessage, RequestInv
  <2>1. turn[r] \in DOMAIN prompt[r].personal /\ turn[r] \in Nat
    BY <2>0
  <2>2. PICK done \in BOOLEAN :
          masked' = [masked EXCEPT ![r] = IF done THEN @ \cup {turn[r]} ELSE @]
    BY DEF MaskMessage
  <2>3. masked' \in [Requests -> SUBSET Nat]
    BY <1>0, <2>1, <2>2 DEF TypeOK
  <2>4. \A u \in Requests : masked'[u] \subseteq DOMAIN prompt'[u].personal
    BY <1>0, <2>1, <2>2 DEF TypeOK, MaskMessage
  <2>5. turn' \in [Requests -> Nat \ {0}]
    BY <1>0 DEF TypeOK, MaskMessage
  <2> QED BY <1>0, <2>3, <2>4, <2>5 DEF TypeOK, MaskMessage, Goto, Ended, environment, flags
<1>2. RequestInv(r)'
  <2>1. pc[r] = "replacing" /\ ~ Single(r) /\ RequestInv(r)
    BY <1>0 DEF MaskMessage
  <2>2. pc'[r] = IF turn[r] = Len(prompt[r].personal) THEN "routing" ELSE "replacing"
    BY <1>0 DEF TypeOK, MaskMessage, Goto
  <2>3. turn'[r] = turn[r] + 1
    BY <1>0 DEF TypeOK, MaskMessage
  <2>4. UNCHANGED <<redisUp, prompt, announced, redisSeen>>
    BY DEF MaskMessage, environment
  <2>5. turn[r] <= Len(prompt[r].personal) /\ turn[r] \in Nat
        /\ Len(prompt[r].personal) \in Nat
    BY <1>0, <2>1, GatewayPrompt DEF TypeOK, RequestInv
  <2>6. Personal(r)' = Personal(r) /\ ~ Single(r)' /\ Replaced(r)' \subseteq Personal(r)
    BY <2>1, <2>4 DEF Personal, Replaced, Single
  <2>7. pc'[r] = "replacing" => turn'[r] <= Len(prompt[r].personal)
    BY <2>2, <2>3, <2>5
  <2>8. UnderWay(r) /\ UnderWay(r)'
    BY <2>1, <2>2 DEF UnderWay, Ended
  <2>9. pc'[r] \in {"routing", "replacing"}
    BY <2>2
  <2>10. HasRedis => RedisInv(r)'
    <3> SUFFICES ASSUME HasRedis PROVE RedisInv(r)'
      OBVIOUS
    <3>1. RedisInv(r)
      BY <2>1 DEF RequestInv
    <3>2. redisUp \in redisSeen[r] /\ (Personal(r) # {} => TRUE \in redisSeen[r])
      BY <2>1, <2>8, <3>1 DEF RedisInv
    <3> QED BY <2>4, <2>6, <2>9, <3>2 DEF RedisInv
  <2>11. prompt[r].personal # <<>> /\ (Mode = "strict" => prompt[r].passed)
    BY <2>1, <2>8 DEF RequestInv
  <2> QED BY <2>4, <2>6, <2>7, <2>9, <2>10, <2>11 DEF RequestInv
<1>3. ASSUME NEW u \in Requests, u # r PROVE RequestInv(u)'
  <2>1. RequestVars(u)' = RequestVars(u) /\ redisUp' = redisUp
    BY <1>0, <1>3 DEF TypeOK, MaskMessage, Goto, RequestVars, environment, flags, texts
  <2> QED BY <1>0, <1>3, <2>1, GatewayFrame
<1> QED BY <1>1, <1>2, <1>3 DEF HookInv

\* The plug-in has chosen a model or refused.
LEMMA GatewayRoute ==
    ASSUME HookInv, NEW r \in Requests, Route(r)
    PROVE  HookInv'
<1>0. TypeOK /\ \A u \in Requests : RequestInv(u)
  BY DEF HookInv
<1>1. TypeOK'
  BY <1>0 DEF TypeOK, Route, Goto, Ended, ComponentState, Observed, environment, flags, texts
<1>2. RequestInv(r)'
  <2>1. RequestInv(r)
    BY <1>0
  <2> QED BY <1>0, <2>1 DEF TypeOK, Route, Goto, Ended, RequestInv, RedisInv, UnderWay, Personal,
             Replaced, Single, Observed, environment, flags, texts
<1>3. ASSUME NEW u \in Requests, u # r PROVE RequestInv(u)'
  <2>1. RequestVars(u)' = RequestVars(u) /\ redisUp' = redisUp
    BY <1>0, <1>3 DEF TypeOK, Route, Goto, RequestVars, environment, flags, texts
  <2> QED BY <1>0, <1>3, <2>1, GatewayFrame
<1> QED BY <1>1, <1>2, <1>3 DEF HookInv

-----------------------------------------------------------------------------
\* Every step keeps the invariant.
LEMMA GatewayNext == HookInv /\ [Next]_vars => HookInv'
<1> SUFFICES ASSUME HookInv, [Next]_vars PROVE HookInv'
  OBVIOUS
<1>1. CASE RedisChanges
  BY <1>1, GatewayRedis
<1>2. ASSUME NEW r \in Requests, Step(r) PROVE HookInv'
  BY <1>2, GatewayArrive, GatewayBypass, GatewayChecked, GatewayMasked, GatewayProbe,
     GatewayReplace, GatewayMaskMessage, GatewayRoute DEF Step
<1>3. CASE UNCHANGED vars
  <2>1. UNCHANGED <<redisUp, changes, clawvaultState, redisState, pc, prompt, masked,
                    turn, announced, redisSeen>>
    BY <1>3 DEF vars, environment, flags, texts
  <2>2. TypeOK'
    BY <2>1 DEF HookInv, TypeOK
  <2>3. ASSUME NEW u \in Requests PROVE RequestInv(u)'
    BY <2>1, <2>3, GatewayFrame DEF HookInv, RequestVars
  <2> QED BY <2>2, <2>3 DEF HookInv
<1> QED BY <1>1, <1>2, <1>3 DEF Next

\* The hook's invariant: what each await may rely on about its request.
THEOREM GatewayHook == Spec => []HookInv
<1>1. Init => HookInv
  BY GatewayInit
<1>2. HookInv /\ [Next]_vars => HookInv'
  BY GatewayNext
<1> QED BY <1>1, <1>2, PTL DEF Spec

\* In strict mode no prompt with a violation is sent unannounced
\* (async_pre_call_hook raises).
THEOREM GatewayStrictBlocks == Spec => []StrictBlocks
<1>1. HookInv => StrictBlocks
  BY DEF HookInv, RequestInv, StrictBlocks
<1> QED BY <1>1, GatewayHook, PTL

\* The personal data of a prompt of one message is never sent unannounced.
THEOREM GatewayAnnouncedSingleBypass == Spec => []AnnouncedSingleBypass
<1>1. HookInv => AnnouncedSingleBypass
  <2> SUFFICES ASSUME HookInv, NEW r \in Requests, pc[r] = "forwarded", Single(r),
                      Clear(r) # {}
               PROVE  announced[r]
    BY DEF AnnouncedSingleBypass
  <2>1. masked[r] = {1} \/ announced[r]
    BY DEF HookInv, RequestInv
  <2>2. prompt[r].personal \in Seq(BOOLEAN)
    BY GatewayPrompt DEF HookInv
  <2>3. DOMAIN prompt[r].personal = 1 .. 1
    BY <2>2 DEF Single
  <2>4. DOMAIN prompt[r].personal = {1}
    BY <2>3
  <2>5. CASE masked[r] = {1}
    BY <2>4, <2>5 DEF Clear, Personal
  <2> QED BY <2>1, <2>5
<1> QED BY <1>1, GatewayHook, PTL

\* With a Redis client, placeholders are not sent while Redis is down throughout,
\* and nothing is rejected while it is up throughout.
THEOREM GatewayRedisPolicy == HasRedis => (Spec => []RedisPolicy)
<1> SUFFICES ASSUME HasRedis PROVE Spec => []RedisPolicy
  OBVIOUS
<1>1. HookInv => RedisPolicy
  BY DEF HookInv, RequestInv, RedisInv, RedisPolicy
<1> QED BY <1>1, GatewayHook, PTL

-----------------------------------------------------------------------------
(* The life of a request implements Gateway.                               *)

\* Every step of the life is a step of the gateway or leaves it alone.
LEMMA LifecycleStep == [LifecycleNext]_lifecycleVars => [Next]_vars
<1> SUFFICES ASSUME [LifecycleNext]_lifecycleVars PROVE [Next]_vars
  OBVIOUS
<1>1. CASE RedisChanges /\ UNCHANGED lifeVars
  BY <1>1 DEF Next
<1>2. CASE UNCHANGED lifecycleVars
  BY <1>2 DEF lifecycleVars
<1>3. ASSUME NEW r \in Requests, Progress(r) PROVE [Next]_vars
  <2>1. CASE RunHook(r)
    <3>1. Step(r)
      BY <2>1 DEF RunHook, BeginHook, Step
    <3> QED BY <3>1 DEF Next
  <2>2. CASE ~ RunHook(r)
    BY <1>3, <2>2 DEF Progress, Come, Fail, GiveUp, NoteFailure, Answer, Restore, Deliver
  <2> QED BY <2>1, <2>2
<1> QED BY <1>1, <1>2, <1>3 DEF LifecycleNext

\* Whatever plug-in is configured, the hook's part of a request's life is a
\* behaviour of Gateway.
THEOREM LifecycleImplementsGateway == LifecycleSpec => Spec
<1>1. LifecycleInit => Init
  BY DEF LifecycleInit
<1> QED BY <1>1, LifecycleStep, PTL DEF LifecycleSpec, Spec

\* So in LiteLLM a strict gateway blocks violations unless it announced a bypass.
THEOREM LifecycleStrictBlocks == LifecycleSpec => []StrictBlocks
BY LifecycleImplementsGateway, GatewayStrictBlocks

\* The personal data of a prompt of one message is never sent unannounced.
THEOREM LifecycleAnnouncedSingleBypass == LifecycleSpec => []AnnouncedSingleBypass
BY LifecycleImplementsGateway, GatewayAnnouncedSingleBypass

\* And with a Redis client a request with placeholders is sent, or rejected, as
\* Redis was seen.
THEOREM LifecycleRedisPolicy == HasRedis => (LifecycleSpec => []RedisPolicy)
BY LifecycleImplementsGateway, GatewayRedisPolicy

-----------------------------------------------------------------------------
(* What a request keeps on its way through LiteLLM.                        *)

\* The gateway's invariant holds there.
LEMMA LifecycleHook == LifecycleSpec => []HookInv
BY LifecycleImplementsGateway, GatewayHook

\* The state of one request, as its invariant sees it.
LifeOf(r) == <<stage[r], named[r], pc[r], masked[r]>>

\* A request that did not move keeps its invariant.
LEMMA LifecycleFrame ==
    ASSUME NEW r \in Requests, LifeOf(r)' = LifeOf(r),
           NamedInv(r), HasHook => StageInv(r)
    PROVE  NamedInv(r)' /\ (HasHook => StageInv(r)')
BY DEF NamedInv, StageInv, LifeOf, UnderWay

\* At first no request has come.
LEMMA LifecycleBegins == LifecycleInit => LifecycleInv
BY LifecycleAssumption DEF LifecycleInit, Init, LifecycleInv, LifecycleTypeOK, Forms, Contents, Final,
   NamedInv, StageInv, UnderWay, Ended

\* A step of one request leaves the others alone.
LEMMA OthersRest ==
    ASSUME LifecycleTypeOK, TypeOK, NEW r \in Requests, Progress(r),
           NEW u \in Requests, u # r
    PROVE  LifeOf(u)' = LifeOf(u)
<1>1. stage'[u] = stage[u] /\ named'[u] = named[u]
  BY DEF LifecycleTypeOK, Progress, Come, RunHook, BeginHook, Fail, GiveUp, NoteFailure,
         Answer, Restore, Deliver
<1>2. pc'[u] = pc[u] /\ masked'[u] = masked[u]
  <2>1. CASE RunHook(r)
    <3>1. Step(r)
      BY <2>1 DEF RunHook, BeginHook, Step
    <3> QED BY <3>1 DEF TypeOK, Step, Arrive, Bypass, Checked, Masked, Probe, Replace,
                        MaskMessage, Route, Goto, texts
  <2>2. CASE ~ RunHook(r)
    BY <2>2 DEF Progress, Come, Fail, GiveUp, NoteFailure, Answer, Restore, Deliver, vars, texts
  <2> QED BY <2>1, <2>2
<1> QED BY <1>1, <1>2 DEF LifeOf

\* Every step keeps the types.
LEMMA LifecycleTypes ==
    ASSUME LifecycleTypeOK, NEW r \in Requests, Progress(r)
    PROVE  LifecycleTypeOK'
<1>1. asked' \in [Requests -> Forms]
  BY DEF LifecycleTypeOK, Progress, Come, RunHook, Fail, GiveUp, NoteFailure, Answer, Restore, Deliver
<1>2. stage' \in [Requests -> {"new", "before", "sent", "failing", "answered"} \cup Final]
  BY DEF LifecycleTypeOK, Final, Progress, Come, RunHook, Fail, GiveUp, NoteFailure, Answer,
         Restore, Deliver
<1>3. tries' \in [Requests -> 0 .. MaxRetries + 1]
  <2>1. CASE Fail(r)
    <3>1. tries[r] + 1 \in 0 .. MaxRetries + 1
      BY <2>1, LifecycleAssumption DEF LifecycleTypeOK, Fail
    <3> QED BY <2>1, <3>1 DEF LifecycleTypeOK, Fail
  <2>2. CASE ~ Fail(r)
    BY <2>2 DEF LifecycleTypeOK, Progress, Come, RunHook, GiveUp, NoteFailure, Answer,
                Restore, Deliver
  <2> QED BY <2>1, <2>2
<1>4. named' \in [Requests -> BOOLEAN]
  BY DEF LifecycleTypeOK, Progress, Come, RunHook, BeginHook, Fail, GiveUp, NoteFailure,
         Answer, Restore, Deliver
<1>5. answer' \in [Requests -> Contents] /\ shown' \in [Requests -> Contents]
  BY DEF LifecycleTypeOK, Contents, Progress, Come, RunHook, Fail, GiveUp, NoteFailure,
         Answer, Restore, Deliver
<1> QED BY <1>1, <1>2, <1>3, <1>4, <1>5 DEF LifecycleTypeOK

\* A step of the hook: it ends by sending the request or by raising, and gives
\* the request its id before it masks anything.
LEMMA HookKeeps ==
    ASSUME HookInv, LifecycleInv, NEW r \in Requests, RunHook(r)
    PROVE  NamedInv(r)' /\ StageInv(r)'
<1>0. LifecycleTypeOK /\ TypeOK /\ NamedInv(r) /\ RequestInv(r)
  BY DEF LifecycleInv, HookInv
<1>1. stage[r] = "before"
  BY DEF RunHook
<1>2. stage'[r] = CASE pc'[r] = "forwarded" -> "sent"
                    [] pc'[r] \in Refused -> "failing"
                    [] OTHER -> "before"
  BY <1>0, <1>1 DEF RunHook, LifecycleTypeOK
<1>3. StageInv(r)'
  BY <1>2 DEF StageInv, Refused
<1>4. masked'[r] # {} \/ UnderWay(r)' => named'[r]
  <2>1. CASE BeginHook(r)
    <3>1. masked'[r] = {}
      BY <1>0, <2>1 DEF BeginHook, Arrive, RequestInv
    <3>2. CASE asked[r].messages
      BY <1>0, <2>1, <3>2 DEF BeginHook, LifecycleTypeOK
    <3>3. CASE ~ asked[r].messages
      BY <2>1, <3>1, <3>3 DEF BeginHook, UnderWay, Ended
    <3> QED BY <3>2, <3>3
  <2>2. CASE pc[r] # "new" /\ Step(r) /\ UNCHANGED named
    <3>1. UnderWay(r)
      BY <2>2 DEF Step, Arrive, Bypass, Checked, Masked, Probe, Replace, MaskMessage, Route,
                  UnderWay, Ended
    <3> QED BY <1>0, <2>2, <3>1 DEF NamedInv
  <2> QED BY <2>1, <2>2 DEF RunHook
<1>5. stage'[r] # "new"
  BY <1>2
<1> QED BY <1>3, <1>4, <1>5 DEF NamedInv

\* So does every other step of the request.
LEMMA OthersKeep ==
    ASSUME HookInv, LifecycleInv, NEW r \in Requests,
           \/ Come(r) \/ Fail(r) \/ GiveUp(r) \/ NoteFailure(r)
           \/ Answer(r) \/ Restore(r) \/ Deliver(r)
    PROVE  NamedInv(r)' /\ (HasHook => StageInv(r)')
<1>0. LifecycleTypeOK /\ NamedInv(r) /\ RequestInv(r) /\ (HasHook => StageInv(r))
  BY DEF LifecycleInv, HookInv
<1>1. pc' = pc /\ masked' = masked
  BY DEF Come, Fail, GiveUp, NoteFailure, Answer, Restore, Deliver, vars, texts
<1>2. CASE Come(r)
  <2>1. pc[r] = "new" /\ masked[r] = {}
    BY <1>0, <1>2 DEF Come, NamedInv, RequestInv
  <2>2. stage'[r] # "new" /\ (HasHook => stage'[r] \in {"refused", "before"})
    BY <1>0, <1>2 DEF Come, LifecycleTypeOK
  <2> QED BY <1>1, <2>1, <2>2 DEF NamedInv, StageInv, UnderWay
<1>3. CASE NoteFailure(r)
  <2>1. PICK next \in {"refused", "broken", "sent"} :
           (next = "refused" <=> pc[r] \in Refused) /\ stage' = [stage EXCEPT ![r] = next]
    BY <1>3 DEF NoteFailure
  <2>2. stage'[r] = next /\ named' = named /\ stage[r] = "failing"
    BY <1>0, <1>3, <2>1 DEF NoteFailure, LifecycleTypeOK
  <2>3. HasHook /\ next # "refused" => pc[r] = "forwarded"
    BY <1>0, <2>1, <2>2 DEF StageInv, Refused
  <2> QED BY <1>0, <1>1, <2>1, <2>2, <2>3 DEF NamedInv, StageInv, UnderWay
<1>4. CASE Fail(r) \/ GiveUp(r) \/ Answer(r) \/ Restore(r) \/ Deliver(r)
  <2>1. /\ named' = named /\ (stage'[r] = stage[r] \/ stage[r] \in {"sent", "answered"})
        /\ stage'[r] \in {stage[r], "failing", "broken", "answered", "served"}
    BY <1>0, <1>4 DEF Fail, GiveUp, Answer, Restore, Deliver, LifecycleTypeOK
  <2> QED BY <1>0, <1>1, <2>1 DEF NamedInv, StageInv, UnderWay, Ended
<1> QED BY <1>2, <1>3, <1>4

\* Every step keeps the invariant of the lives.
LEMMA LifecycleKeeps == HookInv /\ LifecycleInv /\ [LifecycleNext]_lifecycleVars => LifecycleInv'
<1> SUFFICES ASSUME HookInv, LifecycleInv, [LifecycleNext]_lifecycleVars PROVE LifecycleInv'
  OBVIOUS
<1>0. TypeOK /\ LifecycleTypeOK
  BY DEF HookInv, LifecycleInv
<1>1. ASSUME NEW r \in Requests, Progress(r) PROVE LifecycleInv'
  <2>1. LifecycleTypeOK'
    BY <1>0, <1>1, LifecycleTypes
  <2>2. NamedInv(r)' /\ (HasHook => StageInv(r)')
    BY <1>1, HookKeeps, OthersKeep DEF Progress
  <2>3. ASSUME NEW u \in Requests, u # r PROVE NamedInv(u)' /\ (HasHook => StageInv(u)')
    BY <1>0, <1>1, <2>3, OthersRest, LifecycleFrame DEF LifecycleInv
  <2> QED BY <2>1, <2>2, <2>3 DEF LifecycleInv, HasHook
<1>2. CASE UNCHANGED lifecycleVars \/ (RedisChanges /\ UNCHANGED lifeVars)
  <2>1. UNCHANGED <<lifeVars, pc, masked>>
    BY <1>2 DEF lifecycleVars, RedisChanges, vars, texts
  <2>2. UNCHANGED <<asked, stage, tries, named, answer, shown>>
    BY <2>1 DEF lifeVars
  <2>3. LifecycleTypeOK'
    BY <1>0, <2>2 DEF LifecycleTypeOK
  <2>4. ASSUME NEW u \in Requests PROVE NamedInv(u)' /\ (HasHook => StageInv(u)')
    BY <2>1, <2>2, <2>4, LifecycleFrame DEF LifecycleInv, LifeOf
  <2> QED BY <2>3, <2>4 DEF LifecycleInv, HasHook
<1> QED BY <1>1, <1>2 DEF LifecycleNext

\* Types, ids and stages hold on the whole way.
LEMMA LifecycleInvariant == LifecycleSpec => []LifecycleInv
BY LifecycleHook, LifecycleBegins, LifecycleKeeps, PTL DEF LifecycleSpec

\* If LiteLLM finds the plug-in's hook, every call of a model for a request with
\* messages comes after the whole hook has passed it, the repeated ones too
\* (smart_router.py's class alone does not show its hook).
THEOREM LifecycleHookRuns == HasHook => (LifecycleSpec => []HookRuns)
<1> SUFFICES ASSUME HasHook PROVE LifecycleSpec => []HookRuns
  OBVIOUS
<1>1. LifecycleInv => HookRuns
  BY DEF LifecycleInv, StageInv, HookRuns
<1> QED BY <1>1, LifecycleInvariant, PTL

\* Whatever plug-in is configured, an answer to a prompt with placeholders finds
\* the id of their mapping (base_router.py stores the ids before it masks).
THEOREM LifecyclePlaceholdersRestorable == LifecycleSpec => []PlaceholdersRestorable
<1>1. LifecycleInv => PlaceholdersRestorable
  BY DEF LifecycleInv, NamedInv, PlaceholdersRestorable, Replaced
<1> QED BY <1>1, LifecycleInvariant, PTL
===============================================================================
