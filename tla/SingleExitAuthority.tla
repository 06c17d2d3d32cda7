------------------------- MODULE SingleExitAuthority -------------------------
(***************************************************************************)
(* What the exit arbiter promises (exit_arbiter.py, "one decision, one     *)
(* attempt, per generation"): the authority to trade a generation out is   *)
(* granted to one attempt at a time, under a number never used before, and *)
(* is not granted again until the attempt that held it can no longer       *)
(* trade.  Once its evidence has gone astray the pipeline may grant beside *)
(* a holder, but a number is still granted once at most and an authority   *)
(* that is gone never returns.                                             *)
(***************************************************************************)
EXTENDS Naturals

CONSTANT MaxAttempts

VARIABLES authority,   \* the attempts whose order may still trade
          used,        \* the last number granted
          astray       \* has evidence been applied to the wrong attempt?

vars == <<authority, used, astray>>

Init == authority = {} /\ used = 0 /\ astray = FALSE

Grant == /\ authority = {}
         /\ used < MaxAttempts
         /\ used' = used + 1
         /\ authority' = {used + 1}
         /\ UNCHANGED astray

\* The order has ended, or is known never to reach the exchange.
Revoke == authority' = {} /\ UNCHANGED <<used, astray>>

\* A grant lost with the process before anything came of it.
Waste == /\ authority = {}
         /\ used < MaxAttempts
         /\ used' = used + 1
         /\ UNCHANGED <<authority, astray>>

\* The only authority a step can add is that of a fresh number.
Astray == /\ astray' = TRUE
          /\ \/ used' = used /\ authority' \subseteq authority
             \/ /\ used < MaxAttempts /\ used' = used + 1
                /\ authority' \subseteq authority \cup {used + 1}

Next == Grant \/ Revoke \/ Waste \/ Astray

Spec == Init /\ [][Next]_vars
=============================================================================
