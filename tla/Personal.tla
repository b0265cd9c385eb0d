----------------------------- MODULE Personal -----------------------------
(***************************************************************************)
(* What a user keeps for himself lives in a Map and in a table: a request  *)
(* reads the Map, awaits its query and sets the Map.  Requests under way   *)
(* at once use different connections, so their queries may be executed,    *)
(* and answered, in another order than the requests began.                 *)
(***************************************************************************)
EXTENDS Faults

Idle == [step |-> "idle"]

UnderWay(writes) == {w \in DOMAIN writes : writes[w].step # "idle"}

\* A write is over; no other counts it among those begun before.
Ended(writes, over) ==
    [w \in DOMAIN writes |->
        IF w \in {over} \union (DOMAIN writes \ UnderWay(writes)) THEN Idle
        ELSE [writes[w] EXCEPT !.older = @ \ {over}]]

\* The query of a write is executed before that of an older one.
OvertakesQuery(writes, w) == \E v \in writes[w].older : writes[v].step = "sent"

\* A write sets the Map before an older one does.
OvertakesAnswer(writes, w) == writes[w].older # {}
=============================================================================
