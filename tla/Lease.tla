-------------------------------- MODULE Lease -------------------------------
(***************************************************************************)
(* What a single loan promises: at most one holder at a time, taken only   *)
(* when free, given back only by the one who has it.  The half-open probe  *)
(* of the circuit breaker and the fetch lease of the key-set client both   *)
(* implement it.                                                           *)
(***************************************************************************)
CONSTANTS Holders, NoOne

VARIABLE holder

Init == holder = NoOne

Acquire(h) == holder = NoOne /\ holder' = h

Release == holder # NoOne /\ holder' = NoOne

Next == Release \/ \E h \in Holders : Acquire(h)

Spec == Init /\ [][Next]_holder
=============================================================================
