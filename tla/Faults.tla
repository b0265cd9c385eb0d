------------------------------- MODULE Faults -------------------------------
(***************************************************************************)
(* What may go wrong in any request of the backend: its query to           *)
(* PostgreSQL fails, or was executed and its answer is lost, and the       *)
(* process ends between two steps and starts again.                        *)
(***************************************************************************)
CONSTANTS
    DbMayFail,      \* TRUE: a query or a transaction may fail, or its answer be lost
    MayRestart      \* TRUE: the backend process may be restarted at any time

ASSUME FaultSwitches == DbMayFail \in BOOLEAN /\ MayRestart \in BOOLEAN
=============================================================================
