--------------------------- MODULE RequestLifecycle ---------------------------
(***************************************************************************)
(* The life of a request in LiteLLM with a plug-in as its only callback:   *)
(* the plug-in's pre-call hook (Gateway), the calls of the model, and the  *)
(* plug-in's hooks that follow.  What the pre-call hook raises goes the    *)
(* way of a failed call: the failure hook first, then the refusal.  A      *)
(* failed call is repeated, after the failure hook, with the same data.    *)
(* An answer is restored in a task of its own, in the response object that *)
(* is on its way to the client.                                            *)
(***************************************************************************)
EXTENDS Gateway

CONSTANTS
    Plugin,     \* "conversation", "transaction" or "agent_workbuddy"
    MaxRetries  \* LiteLLM's num_retries

ASSUME LifecycleAssumption == MaxRetries \in Nat

VARIABLES
    asked,   \* per request: its metadata, and whether it has messages
    stage,   \* per request
    tries,   \* per request: calls of the model that failed
    named,   \* per request: whether metadata holds a request_id
    answer,  \* per request: what the response object holds
    shown    \* per request: what the client got

lifeVars == <<asked, stage, tries, named, answer, shown>>
lifecycleVars == <<vars, lifeVars>>

Forms == [metadata : {"identified", "anonymous", "null"}, messages : BOOLEAN]
Contents == {"nothing", "as sent", "left", "restored"}
Refused == Ended \ {"forwarded"}
Final == {"refused", "broken", "served"}

\* LiteLLM looks for the hook in the class itself: SmartRouterCallback, the
\* conversation plug-in's, inherits it; the two others define theirs.
HasHook == Plugin # "conversation"

-----------------------------------------------------------------------------
LifecycleInit ==
    /\ Init
    /\ asked = [r \in Requests |-> [metadata |-> "anonymous", messages |-> FALSE]]
    /\ stage = [r \in Requests |-> "new"]
    /\ tries = [r \in Requests |-> 0]
    /\ named = [r \in Requests |-> FALSE]
    /\ answer = [r \in Requests |-> "nothing"]
    /\ shown = [r \in Requests |-> "nothing"]

\* The proxy itself fails for metadata that is null, before any hook.
Come(r) ==
    /\ stage[r] = "new"
    /\ \E form \in Forms :
          /\ asked' = [asked EXCEPT ![r] = form]
          /\ named' = [named EXCEPT ![r] = form.metadata = "identified"]
          /\ stage' = [stage EXCEPT ![r] = IF form.metadata = "null" THEN "refused"
                                           ELSE IF HasHook THEN "before" ELSE "sent"]
    /\ UNCHANGED <<vars, tries, answer, shown>>

\* The ids are not put into metadata that had none.
WrongBeginHook(r) ==
    /\ pc[r] = "new"
    /\ Arrive(r)
    /\ asked[r].messages \/ pc'[r] = "forwarded"
    /\ UNCHANGED named

\* The hook begins: without messages it ends at once, otherwise it gives the
\* request its ids.
BeginHook(r) ==
    /\ pc[r] = "new"
    /\ Arrive(r)
    /\ IF asked[r].messages THEN named' = [named EXCEPT ![r] = TRUE]
       ELSE pc'[r] = "forwarded" /\ UNCHANGED named

RunHook(r) ==
    /\ stage[r] = "before"
    /\ BeginHook(r) \/ (pc[r] # "new" /\ Step(r) /\ UNCHANGED named)
    /\ stage' = [stage EXCEPT ![r] = CASE pc'[r] = "forwarded" -> "sent"
                                       [] pc'[r] \in Refused -> "failing"
                                       [] OTHER -> @]
    /\ UNCHANGED <<asked, tries, answer, shown>>

-----------------------------------------------------------------------------
\* A call of the model fails.
Fail(r) ==
    /\ stage[r] = "sent" /\ tries[r] <= MaxRetries
    /\ tries' = [tries EXCEPT ![r] = @ + 1]
    /\ stage' = [stage EXCEPT ![r] = "failing"]
    /\ UNCHANGED <<vars, asked, named, answer, shown>>

\* The router has no deployment left to call: no hook hears of it.
GiveUp(r) ==
    /\ stage[r] = "sent"
    /\ stage' = [stage EXCEPT ![r] = "broken"]
    /\ UNCHANGED <<vars, asked, tries, named, answer, shown>>

\* What failed is always repeated.
WrongNoteFailure(r) ==
    /\ stage[r] = "failing"
    /\ \E next \in {"broken"} \cup {"sent" : n \in {tries[r]} \cap 0 .. MaxRetries} :
          stage' = [stage EXCEPT ![r] = next]
    /\ UNCHANGED <<vars, asked, tries, named, answer, shown>>

\* The failure hook, which only writes to the application's log.  A request that
\* its own hook refused ends; a failed call is repeated or its error raised.
NoteFailure(r) ==
    /\ stage[r] = "failing"
    /\ \E next \in {"refused", "broken", "sent"} :
          /\ next = "refused" <=> pc[r] \in Refused
          /\ next = "sent" => tries[r] <= MaxRetries
          /\ stage' = [stage EXCEPT ![r] = next]
    /\ UNCHANGED <<vars, asked, tries, named, answer, shown>>

Answer(r) ==
    /\ stage[r] = "sent"
    /\ stage' = [stage EXCEPT ![r] = "answered"]
    /\ answer' = [answer EXCEPT ![r] = "as sent"]
    /\ UNCHANGED <<vars, asked, tries, named, shown>>

\* The success hook: without an id it does nothing; the pool may answer or not.
Restore(r) ==
    /\ answer[r] = "as sent"
    /\ \E text \in {"left"} \cup {"restored" : n \in {named[r]} \cap {TRUE}} :
          answer' = [answer EXCEPT ![r] = text]
    /\ UNCHANGED <<vars, asked, stage, tries, named, shown>>

\* The proxy does not wait for the success hook.
Deliver(r) ==
    /\ stage[r] = "answered"
    /\ stage' = [stage EXCEPT ![r] = "served"]
    /\ shown' = [shown EXCEPT ![r] = answer[r]]
    /\ UNCHANGED <<vars, asked, tries, named, answer>>

-----------------------------------------------------------------------------
Progress(r) ==
    \/ Come(r)
    \/ RunHook(r)
    \/ Fail(r)
    \/ GiveUp(r)
    \/ NoteFailure(r)
    \/ Answer(r)
    \/ Restore(r)
    \/ Deliver(r)

LifecycleNext ==
    \/ RedisChanges /\ UNCHANGED lifeVars
    \/ \E r \in Requests : Progress(r)

LifecycleSpec == LifecycleInit /\ [][LifecycleNext]_lifecycleVars

-----------------------------------------------------------------------------
LifecycleTypeOK ==
    /\ asked \in [Requests -> Forms]
    /\ stage \in [Requests -> {"new", "before", "sent", "failing", "answered"} \cup Final]
    /\ tries \in [Requests -> 0 .. MaxRetries + 1]
    /\ named \in [Requests -> BOOLEAN]
    /\ answer \in [Requests -> Contents] /\ shown \in [Requests -> Contents]

\* A request with messages reaches the model only through the plug-in's hook,
\* and one that the hook refused never does, although LiteLLM handles it like a
\* call that failed (smart_router.py: the base class's hook does the common
\* pipeline).
HookRuns ==
    \A r \in Requests : stage[r] = "sent" /\ asked[r].messages => pc[r] = "forwarded"

\* An answer to a prompt with placeholders finds the id of their mapping in the
\* metadata, whoever named the request and whatever calls failed before
\* (base_router.py stores the ids for post-call retrieval).
PlaceholdersRestorable ==
    \A r \in Requests : answer[r] = "as sent" /\ Replaced(r) # {} => named[r]

\* The client is shown the restored answer if there is one (base_router.py,
\* async_log_success_event() calls ClawVault to rehydrate the response).
RestoredIsShown ==
    \A r \in Requests : Replaced(r) # {} /\ stage[r] = "served" /\ answer[r] = "restored" =>
        shown[r] = "restored"

\* What makes the first inductive, if LiteLLM finds the hook: nothing gets past
\* the hook, and what fails has either passed it or was refused by it.
StageInv(r) ==
    /\ stage[r] \in {"sent", "answered", "served", "broken"} => pc[r] = "forwarded"
    /\ stage[r] = "failing" => pc[r] \in Ended

\* What makes the second inductive: a request has its id before its first message
\* is masked.
NamedInv(r) ==
    /\ stage[r] = "new" => pc[r] = "new"
    /\ masked[r] # {} \/ UnderWay(r) => named[r]

LifecycleInv ==
    /\ LifecycleTypeOK
    /\ \A r \in Requests : NamedInv(r) /\ (HasHook => StageInv(r))
=============================================================================
