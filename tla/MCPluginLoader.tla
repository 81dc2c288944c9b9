---------------------------- MODULE MCPluginLoader ----------------------------
(* Small instances of PluginLoader and its ConfigWatcher.                  *)
EXTENDS PluginLoader
CONSTANTS t1, t2, t3

\* Templates whose first edit names a profile that there is none of, and profiles
\* whose first edit loses the one that the templates name; a second edit, of
\* either, repairs it.  For agents the first edit leaves no mapping of profiles at
\* all, which only a second edit of the profiles repairs.
Unmatched ==
    [k \in Kinds |-> {<<1, 2>>} \cup IF k = "transaction" THEN {<<2, 1>>} ELSE {2} \X Versions]
===============================================================================
