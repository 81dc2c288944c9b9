--------------------------- MODULE PoolReconnect ---------------------------
(***************************************************************************)
(* ClawVaultPool with a history variable: the tasks whose current call     *)
(* began while the server was up and has seen no crash and no hang since.  *)
(***************************************************************************)
EXTENDS ClawVaultPool

VARIABLE steady

hvars == <<vars, steady>>

HInit == Init /\ steady = {}

HNext ==
    /\ Next
    /\ steady' = IF server' # "up" \/ faults' # faults
                 THEN {}
                 ELSE {t \in Tasks : \/ t \in steady
                                     \/ pc[t] = "idle" /\ pc'[t] # "idle"}

HSpec == HInit /\ [][HNext]_hvars

\* The pool supports "lazy creation, automatic reconnection, graceful close"
\* (uds_pool.py:6): a call that begins after a restart, with the server up all
\* along, does not end in bypass because of a connection lost before.
ReconnectsAfterRestart == [][\A t \in Tasks : ReadEof(t) => t \notin steady]_hvars
=============================================================================
