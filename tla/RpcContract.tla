---------------------------- MODULE RpcContract ----------------------------
(***************************************************************************)
(* What callers of the connection pool rely on, without the pool: a call   *)
(* is executed by the service at most once, and it ends either with the    *)
(* result of its own execution, with an error the service reported for     *)
(* it, with None ("bypass", the caller degrades) or because the caller     *)
(* was cancelled.  A call given up early may still be executed later.      *)
(***************************************************************************)
EXTENDS Naturals

CONSTANTS Tasks,     \* coroutines that issue calls, one at a time each
          MaxCalls   \* bound: calls per task

VARIABLES
    calls,     \* calls[t]: number of calls t has begun
    pending,   \* tasks that wait for the end of their current call
    executed,  \* <<t, n>>: the service has run the n-th call of t
    outcome    \* how the last call of each task ended

vars == <<calls, pending, executed, outcome>>

NoOutcome == [kind |-> "none", of |-> <<>>]

Current(t) == <<t, calls[t]>>

Init ==
    /\ calls = [t \in Tasks |-> 0]
    /\ pending = {}
    /\ executed = {}
    /\ outcome = [t \in Tasks |-> NoOutcome]

Begin(t) ==
    /\ t \notin pending
    /\ calls[t] < MaxCalls
    /\ calls' = [calls EXCEPT ![t] = @ + 1]
    /\ pending' = pending \cup {t}
    /\ outcome' = [outcome EXCEPT ![t] = NoOutcome]
    /\ UNCHANGED executed

\* The client side refuses the call: nothing reaches the service.
Refuse(t) ==
    /\ t \notin pending
    /\ calls[t] < MaxCalls
    /\ calls' = [calls EXCEPT ![t] = @ + 1]
    /\ outcome' = [outcome EXCEPT
                     ![t] = [kind |-> "bypass", of |-> <<t, calls[t] + 1>>]]
    /\ UNCHANGED <<pending, executed>>

Execute(t, n) ==
    /\ n \in 1..calls[t]
    /\ <<t, n>> \notin executed
    /\ executed' = executed \cup {<<t, n>>}
    /\ UNCHANGED <<calls, pending, outcome>>

\* Only an executed call may bring a result or an error, and only its own.
Finish(t, kind) ==
    /\ t \in pending
    /\ kind \in {"result", "raised"} => Current(t) \in executed
    /\ pending' = pending \ {t}
    /\ outcome' = [outcome EXCEPT ![t] = [kind |-> kind, of |-> Current(t)]]
    /\ UNCHANGED <<calls, executed>>

Next ==
    \E t \in Tasks :
        \/ Begin(t)
        \/ Refuse(t)
        \/ \E n \in 1..MaxCalls : Execute(t, n)
        \/ \E kind \in {"result", "raised", "bypass", "cancelled"} :
               Finish(t, kind)

Spec == Init /\ [][Next]_vars
=============================================================================
