---------------------------- MODULE MCAutomation ----------------------------
(***************************************************************************)
(* Two webhook calls at once for one ticket, and three requests in the     *)
(* backend: one more than the calls, so that an attempt the adapter has    *)
(* given up on races the attempts that follow it.  A second ticket is      *)
(* reported once in a while.                                               *)
(***************************************************************************)
EXTENDS Automation, TLC

CONSTANTS t1, t2, g1, g2, g3, d1, d2, h1, h2, h3

Symmetry ==
    Permutations({g1, g2, g3}) \union Permutations({d1, d2})
        \union Permutations({h1, h2, h3})

\* Bound: the second ticket is reported by one call, which is answered at its
\* first attempt.
SecondTicketIsRare ==
    /\ Cardinality({d \in Delivery : adapter[d].ticket = t2}) <= 1
    /\ t2 \notin cutShort
    /\ \A d \in Delivery : adapter[d].ticket = t2 => adapter[d].attempt = 1
    /\ Cardinality({h \in Request : req[h].ticket = t2}) <= 1
    /\ \A h \in Request : req[h].ticket = t2 => \E d \in Delivery : adapter[d].call = h
=============================================================================
