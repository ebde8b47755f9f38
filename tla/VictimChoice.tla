---------------------------- MODULE VictimChoice ----------------------------
(***************************************************************************)
(* Which way of a set the searches of cache_access choose.  `order' gives   *)
(* the position of each way in the way list of the set, 0 for way_head.     *)
(* VictimLoop runs the loops of the code and is checked against these.      *)
(***************************************************************************)
EXTENDS Integers

CONSTANTS assoc, RRPV_MAX

ASSUME WaysAssumption == assoc \in Nat \ {0} /\ RRPV_MAX \in Nat \ {0}

Ways == 0..(assoc - 1)

\* w is the first way of S in the list.
FirstOf(S, order, w) == w \in S /\ \A x \in S : order[w] <= order[x]

\* The first way whose NRU bit is set.  When there is none, all bits are set
\* and the search goes on with the second way of the list.
NotUsed(NRU) == {w \in Ways : NRU[w]}

ChosenByNRU(order, NRU, w) ==
  \/ FirstOf(NotUsed(NRU), order, w)
  \/ NotUsed(NRU) = {} /\ order[w] = 1

\* The first way whose RRPV is RRPV_MAX.  When a pass over the list finds none,
\* every RRPV is incremented and the next pass starts with the second way: w is
\* found after n increments.
Distant(rrpv)            == {w \in Ways : rrpv[w] = RRPV_MAX}
Approaching(order, rrpv) == {w \in Ways : order[w] > 0 /\ rrpv[w] < RRPV_MAX}

ChosenByDRRIP(order, rrpv, w, n) ==
  \/ n = 0 /\ FirstOf(Distant(rrpv), order, w)
  \/ /\ Distant(rrpv) = {}
     /\ n \in 1..RRPV_MAX
     /\ FirstOf({x \in Approaching(order, rrpv) : rrpv[x] + n = RRPV_MAX}, order, w)
     /\ \A x \in Approaching(order, rrpv) : rrpv[x] + n <= RRPV_MAX
=============================================================================
