---------------------------- MODULE OneTimeGrant ----------------------------
(***************************************************************************)
(* What a single-use step-up token promises: issued for one purpose, taken *)
(* at most once, and used at most once, for that purpose, by the one who   *)
(* took it.  It may lapse before, taken or not.                            *)
(***************************************************************************)
EXTENDS Sequences

CONSTANT Purpose

VARIABLES
  state,  \* "unissued", "open", "held", "used" or "lapsed"
  uses    \* the purposes it was used for, in order

Init == state = "unissued" /\ uses = <<>>

Issue == state = "unissued" /\ state' = "open" /\ UNCHANGED uses

Take == state = "open" /\ state' = "held" /\ UNCHANGED uses

Use == state = "held" /\ state' = "used" /\ uses' = Append(uses, Purpose)

Lapse == state \in {"open", "held"} /\ state' = "lapsed" /\ UNCHANGED uses

Next == Issue \/ Take \/ Use \/ Lapse

Spec == Init /\ [][Next]_<<state, uses>>
=============================================================================
