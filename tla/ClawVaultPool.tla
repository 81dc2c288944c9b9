--------------------------- MODULE ClawVaultPool ---------------------------
(***************************************************************************)
(* callbacks/uds_pool.py: the pool of connections over which the gateway   *)
(* calls the ClawVault process, together with the part of                  *)
(* clawvault/server.py the pool can observe.  The gateway runs on one      *)
(* asyncio loop, so a step here is the code between two awaits; pc[t]      *)
(* names the await at which the coroutine of task t is suspended:          *)
(*   "queued"      in the semaphore's queue           (uds_pool.py:170)    *)
(*   "granted"     handed a permit, not yet resumed   (uds_pool.py:170)    *)
(*   "replacing"   closing a stale idle connection    (uds_pool.py:177)    *)
(*   "opening"     creating a connection              (uds_pool.py:184)    *)
(*   "sending"     in drain()                         (uds_pool.py:257)    *)
(*   "reading"     in readline()                      (uds_pool.py:260)    *)
(*   "discarding"  closing its connection, permit     (uds_pool.py:199,205)*)
(*                 still held                                              *)
(***************************************************************************)
(* Definitions named Wrong... are the mistakes the properties guard        *)
(* against; no action uses them.                                           *)
(***************************************************************************)
EXTENDS Naturals, Sequences, SequencesExt, FiniteSets

CONSTANTS
    Tasks,           \* coroutines that issue calls
    LargeTasks,      \* tasks whose payload exceeds the socket buffers
    Conns,           \* identities of connections
    None,            \* no connection
    MaxConnections,  \* self._max_connections
    MaxCalls,        \* bound: calls per task
    MaxFaults        \* bound: crashes and hangs of the server

ASSUME PoolAssumption ==
    /\ IsFiniteSet(Tasks)
    /\ LargeTasks \subseteq Tasks
    /\ None \notin Conns
    /\ MaxConnections \in Nat \ {0}
    /\ MaxCalls \in Nat
    /\ MaxFaults \in Nat

VARIABLES
    pc,        \* where each task is suspended ("idle": no call in progress)
    calls,     \* number of calls each task has begun
    outcome,   \* how the last call of each task ended
    conn,      \* the connection a task holds, or None
    permits,   \* the semaphore's value
    waiters,   \* the semaphore's FIFO queue
    idle,      \* self._pool, the FIFO queue of idle connections
    closer,    \* close(): "open", "draining", "done"; self._closed = not "open"
    link,      \* "none", "up", "eof" (peer gone, not noticed), "reset" (noticed)
    requests,  \* requests written to a connection and not read by the server
    answers,   \* responses written to a connection and not read by the client
    orphans,   \* requests of closed connections the server may still read
    executed,  \* requests the server has run
    server,    \* "up", "hung" (accepts, does not read), "down"
    faults     \* crashes and hangs so far

poolVars   == <<permits, waiters, idle, closer>>
wireVars   == <<link, requests, answers, orphans>>
serverVars == <<executed, server, faults>>
vars == <<pc, calls, outcome, conn, poolVars, wireVars, serverVars>>

-----------------------------------------------------------------------------
NoOutcome == [kind |-> "none", of |-> <<>>]
Current(t) == <<t, calls[t]>>

Holding == {"granted", "replacing", "opening", "sending", "reading", "discarding"}
Holders == {t \in Tasks : pc[t] \in Holding}
\* Tasks that count against the connections: all holders past line 170.
Users == {t \in Tasks : pc[t] \in Holding \ {"granted"}}
Open == {c \in Conns : link[c] # "none"}

Ends(t, kind) == outcome' = [outcome EXCEPT ![t] = [kind |-> kind, of |-> Current(t)]]

Init ==
    /\ pc = [t \in Tasks |-> "idle"]
    /\ calls = [t \in Tasks |-> 0]
    /\ outcome = [t \in Tasks |-> NoOutcome]
    /\ conn = [t \in Tasks |-> None]
    /\ permits = MaxConnections
    /\ waiters = <<>>
    /\ idle = <<>>
    /\ closer = "open"
    /\ link = [c \in Conns |-> "none"]
    /\ requests = [c \in Conns |-> <<>>]
    /\ answers = [c \in Conns |-> <<>>]
    /\ orphans = {}
    /\ executed = {}
    /\ server = "up"
    /\ faults = 0

-----------------------------------------------------------------------------
(* asyncio.Semaphore: FIFO, release hands the permit to the first waiter.  *)

\* t leaves the pool and gives its permit back.
ReleaseBy(t) ==
    /\ pc' = [u \in Tasks |->
                IF u = t THEN "idle"
                ELSE IF waiters # <<>> /\ u = Head(waiters) THEN "granted"
                ELSE pc[u]]
    /\ waiters' = IF waiters = <<>> THEN <<>> ELSE Tail(waiters)
    /\ permits' = IF waiters = <<>> THEN permits + 1 ELSE permits

AcquireBy(t) ==
    IF permits > 0 /\ waiters = <<>>
    THEN /\ permits' = permits - 1
         /\ pc' = [pc EXCEPT ![t] = "granted"]
         /\ UNCHANGED waiters
    ELSE /\ waiters' = Append(waiters, t)
         /\ pc' = [pc EXCEPT ![t] = "queued"]
         /\ UNCHANGED permits

(* One connection: what is written to it and what closing it leaves.       *)

\* The request is written before drain(); a dead peer never gets it.
Write(t, c) ==
    requests' = IF link[c] = "up"
                THEN [requests EXCEPT ![c] = Append(@, Current(t))]
                ELSE requests

\* writer.close(): the server can still read what was written before.
CloseConn(c) ==
    /\ link' = [link EXCEPT ![c] = "none"]
    /\ requests' = [requests EXCEPT ![c] = <<>>]
    /\ answers' = [answers EXCEPT ![c] = <<>>]
    /\ orphans' = orphans \cup ToSet(requests[c])

\* conn.close() on the way out of _acquire; the permit is kept meanwhile.
Discard(t) ==
    /\ CloseConn(conn[t])
    /\ conn' = [conn EXCEPT ![t] = None]
    /\ pc' = [pc EXCEPT ![t] = "discarding"]

-----------------------------------------------------------------------------
(* call() and _acquire()                                                   *)

Call(t) ==
    /\ pc[t] = "idle"
    /\ calls[t] < MaxCalls
    /\ closer = "open"
    /\ calls' = [calls EXCEPT ![t] = @ + 1]
    /\ outcome' = [outcome EXCEPT ![t] = NoOutcome]
    /\ AcquireBy(t)
    /\ UNCHANGED <<conn, idle, closer, wireVars, serverVars>>

CallAfterClose(t) ==
    /\ pc[t] = "idle"
    /\ calls[t] < MaxCalls
    /\ closer # "open"
    /\ calls' = [calls EXCEPT ![t] = @ + 1]
    /\ outcome' = [outcome EXCEPT
                     ![t] = [kind |-> "bypass", of |-> <<t, calls[t] + 1>>]]
    /\ UNCHANGED <<pc, conn, poolVars, wireVars, serverVars>>

\* Creates a connection without looking into the pool first.
WrongResumeEmpty(t) ==
    /\ pc[t] = "granted"
    /\ pc' = [pc EXCEPT ![t] = "opening"]
    /\ UNCHANGED <<calls, outcome, conn, poolVars, wireVars, serverVars>>

\* QueueEmpty: a connection has to be created.
ResumeEmpty(t) ==
    /\ pc[t] = "granted"
    /\ idle = <<>>
    /\ pc' = [pc EXCEPT ![t] = "opening"]
    /\ UNCHANGED <<calls, outcome, conn, poolVars, wireVars, serverVars>>

\* Takes a connection without removing it from the pool.
WrongResumeReuse(t) ==
    /\ pc[t] = "granted"
    /\ idle # <<>>
    /\ link[Head(idle)] # "reset"
    /\ conn' = [conn EXCEPT ![t] = Head(idle)]
    /\ pc' = [pc EXCEPT ![t] = "sending"]
    /\ Write(t, Head(idle))
    /\ UNCHANGED <<calls, outcome, idle, permits, waiters, closer,
                   link, answers, orphans, serverVars>>

\* An idle connection that looks healthy is used; an undetected EOF does too.
ResumeReuse(t) ==
    /\ pc[t] = "granted"
    /\ idle # <<>>
    /\ link[Head(idle)] # "reset"
    /\ idle' = Tail(idle)
    /\ conn' = [conn EXCEPT ![t] = Head(idle)]
    /\ pc' = [pc EXCEPT ![t] = "sending"]
    /\ Write(t, Head(idle))
    /\ UNCHANGED <<calls, outcome, permits, waiters, closer,
                   link, answers, orphans, serverVars>>

\* is_closing(): the stale connection is closed and will be replaced.
ResumeStale(t) ==
    /\ pc[t] = "granted"
    /\ idle # <<>>
    /\ link[Head(idle)] = "reset"
    /\ idle' = Tail(idle)
    /\ CloseConn(Head(idle))
    /\ pc' = [pc EXCEPT ![t] = "replacing"]
    /\ UNCHANGED <<calls, outcome, conn, permits, waiters, closer, serverVars>>

Replaced(t) ==
    /\ pc[t] = "replacing"
    /\ pc' = [pc EXCEPT ![t] = "opening"]
    /\ UNCHANGED <<calls, outcome, conn, poolVars, wireVars, serverVars>>

\* A hung server's listen backlog still accepts.  The write follows at once.
OpenConn(t, c) ==
    /\ pc[t] = "opening"
    /\ server # "down"
    /\ link[c] = "none"
    /\ link' = [link EXCEPT ![c] = "up"]
    /\ requests' = [requests EXCEPT ![c] = <<Current(t)>>]
    /\ conn' = [conn EXCEPT ![t] = c]
    /\ pc' = [pc EXCEPT ![t] = "sending"]
    /\ UNCHANGED <<calls, outcome, poolVars, answers, orphans, serverVars>>

\* Connection refused, or no socket file: OSError, nothing to discard.
OpenRefused(t) ==
    /\ pc[t] = "opening"
    /\ server = "down"
    /\ Ends(t, "bypass")
    /\ ReleaseBy(t)
    /\ UNCHANGED <<calls, conn, idle, closer, wireVars, serverVars>>

\* drain() has no timeout; a large payload needs the server to read it.
Drained(t) ==
    /\ pc[t] = "sending"
    /\ t \in LargeTasks => requests[conn[t]] = <<>>
    /\ pc' = [pc EXCEPT ![t] = "reading"]
    /\ UNCHANGED <<calls, outcome, conn, poolVars, wireVars, serverVars>>

\* A result: the connection goes back to the pool (or is closed when the
\* queue is full), the permit is released.  The response's id is not looked at.
ReadResult(t) ==
    LET c == conn[t] IN
    /\ pc[t] = "reading"
    /\ link[c] # "reset"
    /\ answers[c] # <<>>
    /\ Head(answers[c]).kind = "result"
    /\ outcome' = [outcome EXCEPT
                     ![t] = [kind |-> "result", of |-> Head(answers[c]).call]]
    /\ conn' = [conn EXCEPT ![t] = None]
    /\ IF Len(idle) < MaxConnections
       THEN /\ idle' = Append(idle, c)
            /\ answers' = [answers EXCEPT ![c] = Tail(@)]
            /\ ReleaseBy(t)
            /\ UNCHANGED <<link, requests, orphans>>
       ELSE /\ CloseConn(c)
            /\ pc' = [pc EXCEPT ![t] = "discarding"]
            /\ UNCHANGED <<idle, permits, waiters>>
    /\ UNCHANGED <<calls, closer, serverVars>>

\* RuntimeError for an error response, ValueError for a line over the
\* stream limit: neither is caught by call(), both discard the connection.
ReadError(t) ==
    LET c == conn[t] IN
    /\ pc[t] = "reading"
    /\ link[c] # "reset"
    /\ answers[c] # <<>>
    /\ Head(answers[c]).kind = "error"
    /\ outcome' = [outcome EXCEPT
                     ![t] = [kind |-> "raised", of |-> Head(answers[c]).call]]
    /\ Discard(t)
    /\ UNCHANGED <<calls, poolVars, serverVars>>

\* Empty line (peer closed) or a reset: None, connection discarded.
ReadEof(t) ==
    LET c == conn[t] IN
    /\ pc[t] = "reading"
    /\ \/ link[c] = "reset"
       \/ link[c] = "eof" /\ answers[c] = <<>>
    /\ Ends(t, "bypass")
    /\ Discard(t)
    /\ UNCHANGED <<calls, poolVars, serverVars>>

\* wait_closed() returns once the write buffer is flushed or the peer is gone.
Discarded(t) ==
    /\ pc[t] = "discarding"
    /\ t \in LargeTasks => Current(t) \notin orphans
    /\ ReleaseBy(t)
    /\ UNCHANGED <<calls, outcome, conn, idle, closer, wireVars, serverVars>>

-----------------------------------------------------------------------------
(* Timeouts (asyncio.wait_for) and cancellation of the calling coroutine.  *)

\* Releases a permit the task never got: acquire() inside the try block.
WrongLeaveQueue(t, kind) ==
    /\ pc[t] = "queued"
    /\ \E i \in DOMAIN waiters :
          /\ waiters[i] = t
          /\ waiters' = RemoveAt(waiters, i)
    /\ pc' = [pc EXCEPT ![t] = "idle"]
    /\ permits' = permits + 1
    /\ Ends(t, kind)
    /\ UNCHANGED <<calls, conn, idle, closer, wireVars, serverVars>>

LeaveQueue(t, kind) ==
    /\ pc[t] = "queued"
    /\ \E i \in DOMAIN waiters :
          /\ waiters[i] = t
          /\ waiters' = RemoveAt(waiters, i)
    /\ pc' = [pc EXCEPT ![t] = "idle"]
    /\ Ends(t, kind)
    /\ UNCHANGED <<calls, conn, permits, idle, closer, wireVars, serverVars>>

\* Loses the permit: release() only on the paths that have a connection.
WrongLeaveWithPermit(t, kind, states) ==
    /\ pc[t] \in states
    /\ pc' = [pc EXCEPT ![t] = "idle"]
    /\ Ends(t, kind)
    /\ UNCHANGED <<calls, conn, poolVars, wireVars, serverVars>>

\* A permit but no connection yet: only the permit is given back.
LeaveWithPermit(t, kind, states) ==
    /\ pc[t] \in states
    /\ Ends(t, kind)
    /\ ReleaseBy(t)
    /\ UNCHANGED <<calls, conn, idle, closer, wireVars, serverVars>>

\* Gives the connection back to the pool, request or answer still on it.
WrongLeaveWithConn(t, kind, states) ==
    /\ pc[t] \in states
    /\ Ends(t, kind)
    /\ idle' = Append(idle, conn[t])
    /\ conn' = [conn EXCEPT ![t] = None]
    /\ ReleaseBy(t)
    /\ UNCHANGED <<calls, closer, wireVars, serverVars>>

\* A connection with a request on it is never given back to the pool.
LeaveWithConn(t, kind, states) ==
    /\ pc[t] \in states
    /\ Ends(t, kind)
    /\ Discard(t)
    /\ UNCHANGED <<calls, poolVars, serverVars>>

\* Closing and draining are not under a timeout.
Timeout(t) ==
    \/ LeaveQueue(t, "bypass")
    \/ LeaveWithPermit(t, "bypass", {"granted", "opening"})
    \/ LeaveWithConn(t, "bypass", {"reading"})

Cancel(t) ==
    \/ LeaveQueue(t, "cancelled")
    \/ LeaveWithPermit(t, "cancelled",
                       {"granted", "replacing", "opening", "discarding"})
    \/ LeaveWithConn(t, "cancelled", {"sending", "reading"})

-----------------------------------------------------------------------------
(* close(): one idle connection per await, in-flight calls go on meanwhile. *)

CloseBegin ==
    /\ closer = "open"
    /\ closer' = "draining"
    /\ UNCHANGED <<pc, calls, outcome, conn, permits, waiters, idle,
                   wireVars, serverVars>>

CloseNext ==
    /\ closer = "draining"
    /\ idle # <<>>
    /\ idle' = Tail(idle)
    /\ CloseConn(Head(idle))
    /\ UNCHANGED <<pc, calls, outcome, conn, permits, waiters, closer, serverVars>>

CloseEnd ==
    /\ closer = "draining"
    /\ idle = <<>>
    /\ closer' = "done"
    /\ UNCHANGED <<pc, calls, outcome, conn, permits, waiters, idle,
                   wireVars, serverVars>>

-----------------------------------------------------------------------------
(* The ClawVault process: one sequential handler per connection.           *)

Serve(c, kind) ==
    /\ server = "up"
    /\ link[c] = "up"
    /\ requests[c] # <<>>
    /\ requests' = [requests EXCEPT ![c] = Tail(@)]
    /\ executed' = executed \cup {Head(requests[c])}
    /\ answers' = [answers EXCEPT
                     ![c] = Append(@, [call |-> Head(requests[c]), kind |-> kind])]
    /\ UNCHANGED <<pc, calls, outcome, conn, poolVars, link, orphans, server, faults>>

\* A request whose client is gone is run all the same.
ServeOrphan(q) ==
    /\ server = "up"
    /\ orphans' = orphans \ {q}
    /\ executed' = executed \cup {q}
    /\ UNCHANGED <<pc, calls, outcome, conn, poolVars, link, requests, answers,
                   server, faults>>

\* The handler ends without closing the socket: its input stays unread.
WrongServerDrops(c) ==
    /\ server = "up"
    /\ link[c] = "up"
    /\ requests[c] # <<>>
    /\ Head(requests[c])[1] \in LargeTasks
    /\ link' = [link EXCEPT ![c] = "eof"]
    /\ UNCHANGED <<pc, calls, outcome, conn, poolVars, requests, answers, orphans,
                   serverVars>>

\* A request line over the stream limit makes the handler close the connection.
ServerDrops(c) ==
    /\ server = "up"
    /\ link[c] = "up"
    /\ requests[c] # <<>>
    /\ Head(requests[c])[1] \in LargeTasks
    /\ link' = [link EXCEPT ![c] = "eof"]
    /\ requests' = [requests EXCEPT ![c] = <<>>]
    /\ UNCHANGED <<pc, calls, outcome, conn, poolVars, answers, orphans, serverVars>>

\* The process dies.  Each client socket sees an EOF the pool does not look
\* at, or an error that aborts the transport (is_closing() becomes true).
Crash(resets) ==
    /\ server # "down"
    /\ faults < MaxFaults
    /\ server' = "down"
    /\ faults' = faults + 1
    /\ link' = [c \in Conns |->
                  IF link[c] # "up" THEN link[c]
                  ELSE IF c \in resets THEN "reset" ELSE "eof"]
    /\ requests' = [c \in Conns |-> <<>>]
    /\ answers' = [c \in Conns |-> IF c \in resets THEN <<>> ELSE answers[c]]
    /\ orphans' = {}
    /\ UNCHANGED <<pc, calls, outcome, conn, poolVars, executed>>

Restart ==
    /\ server = "down"
    /\ server' = "up"
    /\ UNCHANGED <<pc, calls, outcome, conn, poolVars, wireVars, executed, faults>>

\* A synchronous analysis occupies the server's event loop.
Hang ==
    /\ server = "up"
    /\ faults < MaxFaults
    /\ server' = "hung"
    /\ faults' = faults + 1
    /\ UNCHANGED <<pc, calls, outcome, conn, poolVars, wireVars, executed>>

Recover ==
    /\ server = "hung"
    /\ server' = "up"
    /\ UNCHANGED <<pc, calls, outcome, conn, poolVars, wireVars, executed, faults>>

-----------------------------------------------------------------------------
TaskStep(t) ==
    \/ ResumeEmpty(t) \/ ResumeReuse(t) \/ ResumeStale(t)
    \/ Replaced(t)
    \/ \E c \in Conns : OpenConn(t, c)
    \/ OpenRefused(t)
    \/ Drained(t)
    \/ ReadResult(t) \/ ReadError(t) \/ ReadEof(t)
    \/ Discarded(t)

ServerStep ==
    \/ \E c \in Conns, kind \in {"result", "error"} : Serve(c, kind)
    \/ \E q \in orphans : ServeOrphan(q)

ServerFault ==
    \/ \E c \in Conns : ServerDrops(c)
    \/ \E resets \in SUBSET {c \in Conns : link[c] = "up"} : Crash(resets)
    \/ Restart
    \/ Hang
    \/ Recover

Closing == CloseBegin \/ CloseNext \/ CloseEnd

Next ==
    \/ \E t \in Tasks :
          Call(t) \/ CallAfterClose(t) \/ TaskStep(t) \/ Timeout(t) \/ Cancel(t)
    \/ Closing
    \/ ServerStep
    \/ ServerFault

Spec == Init /\ [][Next]_vars

\* The event loop runs every ready coroutine, timers fire, a server that is
\* up reads its sockets.  Nothing is assumed of callers, faults or close().
Fairness ==
    /\ \A t \in Tasks : WF_vars(TaskStep(t)) /\ WF_vars(Timeout(t))
    /\ WF_vars(ServerStep)

FairSpec == Spec /\ Fairness

\* As FairSpec, and an analysis that blocks the server ends.
RecoveringSpec == FairSpec /\ WF_vars(Recover)

-----------------------------------------------------------------------------
(* Properties                                                              *)

CallIds == Tasks \X Nat
Answer == [call : CallIds, kind : {"result", "error"}]

\* Type invariant: every variable stays in its range; the semaphore's value
\* never exceeds its initial value (uds_pool.py:116, 208).
TypeOK ==
    /\ pc \in [Tasks -> Holding \cup {"idle", "queued"}]
    /\ calls \in [Tasks -> Nat]
    /\ outcome \in [Tasks ->
            [kind : {"none", "result", "raised", "bypass", "cancelled"},
             of : CallIds \cup {<<>>}]]
    /\ conn \in [Tasks -> Conns \cup {None}]
    /\ permits \in 0..MaxConnections
    /\ waiters \in Seq(Tasks)
    /\ idle \in Seq(Conns)
    /\ closer \in {"open", "draining", "done"}
    /\ link \in [Conns -> {"none", "up", "eof", "reset"}]
    /\ requests \in [Conns -> Seq(CallIds)]
    /\ answers \in [Conns -> Seq(Answer)]
    /\ orphans \in SUBSET CallIds
    /\ executed \in SUBSET CallIds
    /\ server \in {"up", "hung", "down"}
    /\ faults \in Nat

\* On every path out of _acquire (return, error, timeout or cancellation at any
\* await) exactly the permit that was taken is given back: permits and holders
\* always add up, and only queued tasks are in the queue (uds_pool.py:170-208).
PermitConservation ==
    /\ permits + Cardinality(Holders) = MaxConnections
    /\ ToSet(waiters) = {t \in Tasks : pc[t] = "queued"}
    /\ \A i, j \in DOMAIN waiters : waiters[i] = waiters[j] => i = j
    /\ waiters # <<>> => permits = 0

\* "A semaphore to bound the total number of open connections"
\* (uds_pool.py:75-76): idle connections together with those in use never
\* exceed max_connections, whatever close(), crashes and timeouts do.
OpenBound == Cardinality(Open) <= MaxConnections

\* A connection is used by at most one call and is never both in use and in
\* the pool, nor twice in the pool (uds_pool.py:174, 191).
ExclusiveUse ==
    /\ \A t, u \in Tasks : conn[t] # None /\ conn[t] = conn[u] => t = u
    /\ \A t \in Tasks : conn[t] \notin ToSet(idle)
    /\ \A i, j \in DOMAIN idle : idle[i] = idle[j] => i = j

\* An idle connection is open and carries no unanswered request and no unread
\* response, although call() never compares response ids (uds_pool.py:270-278):
\* a late answer cannot be taken for the answer to a later call.
CleanIdle ==
    \A c \in ToSet(idle) :
        /\ link[c] # "none"
        /\ requests[c] = <<>>
        /\ answers[c] = <<>>

(* The inductive strengthening of the invariants above.                    *)

\* Idle connections and the holders that have, or are about to have, one share
\* the MaxConnections slots: a task that found the queue empty reserves a slot.
SlotBound == Len(idle) + Cardinality(Users) <= MaxConnections

InUse == {t \in Tasks : pc[t] \in {"sending", "reading"}}

\* The open connections are the idle ones and those of calls that talk.
OpenOwned ==
    /\ \A t \in Tasks : conn[t] # None <=> t \in InUse
    /\ \A c \in Conns : link[c] # "none" <=>
                        c \in ToSet(idle) \/ \E t \in Tasks : conn[t] = c

\* A connection never carries more than one message, a closed one none.
WireDiscipline ==
    \A c \in Conns :
        /\ Len(requests[c]) + Len(answers[c]) <= 1
        /\ link[c] = "none" => requests[c] = <<>> /\ answers[c] = <<>>

\* What every step preserves; it implies OpenBound (uds_pool.py:162-208).
IInv ==
    /\ TypeOK
    /\ PermitConservation
    /\ SlotBound
    /\ ExclusiveUse
    /\ OpenOwned
    /\ CleanIdle
    /\ WireDiscipline

\* The pool gives its callers the contract of RpcContract: a call is executed
\* at most once, and a result or an error is the one of the call itself.
Contract == INSTANCE RpcContract WITH
    pending <- {t \in Tasks : pc[t] # "idle"},
    outcome <- [t \in Tasks |-> IF pc[t] = "idle" THEN outcome[t] ELSE NoOutcome]

ImplementsContract == Contract!Spec

(* What the refinement needs besides IInv: where the current call of a     *)
(* task is, and that the service has run it at most once.                  *)

Begun == {q \in CallIds : q[2] # 0 /\ q[2] <= calls[q[1]]}

\* The call has not been written, or it is on the task's connection, or its
\* outcome is settled; in every case the outcome can only be its own.
CallPlace(t) ==
    /\ pc[t] # "idle" => calls[t] # 0
    /\ pc[t] \in {"queued", "granted", "replacing", "opening"} =>
          Current(t) \notin executed \cup orphans
    /\ pc[t] \in {"sending", "reading"} =>
          /\ Current(t) \notin orphans
          /\ \A i \in DOMAIN requests[conn[t]] :
                requests[conn[t]][i] = Current(t) /\ Current(t) \notin executed
          /\ \A i \in DOMAIN answers[conn[t]] :
                answers[conn[t]][i].call = Current(t) /\ Current(t) \in executed
    /\ pc[t] = "discarding" =>
          /\ outcome[t].kind # "none" /\ outcome[t].of = Current(t)
          /\ outcome[t].kind \in {"result", "raised"} => Current(t) \in executed

ContractInv ==
    /\ \A t \in Tasks : calls[t] <= MaxCalls /\ CallPlace(t)
    /\ executed \cup orphans \subseteq Begun
    /\ executed \cap orphans = {}

\* Every call ends: with an answer, None, an exception or a cancellation.  No
\* permit is lost that a queued call waits for (uds_pool.py:162-208, 259-263).
CallsReturn == \A t \in Tasks : (pc[t] # "idle") ~> (pc[t] = "idle")

\* "Gracefully close all pooled connections" (uds_pool.py:297): once close()
\* has returned and no call is in progress, no connection is open.
ClosedMeansNoConnection ==
    closer = "done" /\ (\A t \in Tasks : pc[t] = "idle") => Open = {}
=============================================================================
