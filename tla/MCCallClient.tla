---------------------------- MODULE MCCallClient ----------------------------
(***************************************************************************)
(* One page that starts one call and gets one, over a socket that may drop *)
(* at any time.                                                            *)
(***************************************************************************)
EXTENDS CallClient

CONSTANTS out, in

\* Bound: a run ends when a handler has been overtaken; the properties say
\* nothing of what follows.
NotOvertaken == ~overtaken

\* Bound: three packets are on their way to the backend and two to the page.
ShortQueues == Len(toBackend) <= 3 /\ Len(toPage) <= 2
=============================================================================
