---------------------------- MODULE ExitAttempt ----------------------------
(***************************************************************************)
(* One exit order-attempt of a position generation and what may happen to  *)
(* it: the record ExitAttempt of exit_arbiter.py and the lifecycle methods *)
(* of ExitArbiter, each a function from the stored record to the record    *)
(* the method saves.  The module has no state; ExitPipeline applies these  *)
(* functions to the attempt store.                                         *)
(*                                                                         *)
(* An order is named by the attempt that sent it: client_order_id and      *)
(* order_id hold an attempt number, or Unbound.  Quantities count whole    *)
(* lots.  History, timestamps and the price fields are left out: no        *)
(* lifecycle guard reads them (staleness is a condition of ExitPipeline).  *)
(***************************************************************************)
EXTENDS Naturals

CONSTANTS MaxAttempts,   \* bound on the attempts minted for one generation
          Qty            \* the largest quantity one attempt may carry

ASSUME BoundsAreNat == MaxAttempts \in Nat /\ Qty \in Nat \ {0}

Id       == 1..MaxAttempts
Unbound  == 0
OrderRef == 0..MaxAttempts

-----------------------------------------------------------------------------
AttemptState == {"IDLE", "SUBMITTING", "ACK_UNKNOWN",
                 "WORKING_OR_PARTIALLY_FILLED", "RECONCILING",
                 "RETRY_ELIGIBLE", "FLAT"}

\* The exchange may still hold or have filled the order.
Unresolved == {"SUBMITTING", "ACK_UNKNOWN",
               "WORKING_OR_PARTIALLY_FILLED", "RECONCILING"}

\* The order's status must be observed before any replacement.
MustReconcile == Unresolved \ {"SUBMITTING"}

Attempt == [state : AttemptState, qty_cc : 0..Qty, filled_cc : Nat,
            client_order_id : OrderRef, order_id : OrderRef]

Idle == [state |-> "IDLE", qty_cc |-> 0, filled_cc |-> 0,
         client_order_id |-> Unbound, order_id |-> Unbound]

\* What arbitrate() saves for the proposal it selected.
Minted(q) == [Idle EXCEPT !.state = "SUBMITTING", !.qty_cc = q]

-----------------------------------------------------------------------------
(* What the exchange reported about an attempt's order.                    *)

Evidence == [order_found : BOOLEAN, terminal : BOOLEAN, filled_cc : 0..Qty,
             local_no_transmit : BOOLEAN]

Found(terminal, filled) ==
    [order_found |-> TRUE, terminal |-> terminal, filled_cc |-> filled,
     local_no_transmit |-> FALSE]

NoTransmit == [order_found |-> FALSE, terminal |-> TRUE, filled_cc |-> 0,
               local_no_transmit |-> TRUE]

Inconclusive == [NoTransmit EXCEPT !.terminal = FALSE,
                                   !.local_no_transmit = FALSE]

-----------------------------------------------------------------------------
(* The lifecycle methods.                                                  *)

NeverTransmitted(a) == a.client_order_id = Unbound /\ a.order_id = Unbound

\* Mutant: the producer's identity is dropped, only the venue's is kept.
BindVenueIdOnly(a, coid, oid) ==
    [a EXCEPT !.order_id = IF oid = Unbound THEN @ ELSE oid]

\* bind_attempt_identity; an empty identity leaves the field alone.
Bind(a, coid, oid) ==
    [a EXCEPT !.client_order_id = IF coid = Unbound THEN @ ELSE coid,
              !.order_id        = IF oid = Unbound THEN @ ELSE oid]

Acked(a) ==
    IF a.state \in {"SUBMITTING", "ACK_UNKNOWN", "RECONCILING"}
    THEN [a EXCEPT !.state = "WORKING_OR_PARTIALLY_FILLED"] ELSE a

\* Mutant: a timeout is taken as proof that the order is dead.
AckUnknownIsDead(a) ==
    IF a.state = "SUBMITTING" THEN [a EXCEPT !.state = "RETRY_ELIGIBLE"] ELSE a

AckUnknown(a) ==
    IF a.state = "SUBMITTING" THEN [a EXCEPT !.state = "ACK_UNKNOWN"] ELSE a

BeginReconcile(a) ==
    IF a.state \in Unresolved THEN [a EXCEPT !.state = "RECONCILING"] ELSE a

\* Mutant: the venue's word for the status is stored as the state.
FoundStateVerbatim(a, ev, f) ==
    IF ev.terminal /\ f >= a.qty_cc THEN "EXECUTED" ELSE "RETRY_ELIGIBLE"

\* The state a found order's evidence leads to, once f lots are filled.
FoundState(a, ev, f) ==
    IF ~ev.terminal THEN "WORKING_OR_PARTIALLY_FILLED"
    ELSE IF f >= a.qty_cc THEN "FLAT" ELSE "RETRY_ELIGIBLE"

\* Mutant: the order's cumulative fills are added, not maximised.
ResolveFoundAdding(a, ev) ==
    LET f == a.filled_cc + ev.filled_cc
    IN  [a EXCEPT !.filled_cc = f, !.state = FoundState(a, ev, f)]

ResolveFound(a, ev) ==
    LET f == IF ev.filled_cc > a.filled_cc THEN ev.filled_cc ELSE a.filled_cc
    IN  [a EXCEPT !.filled_cc = f, !.state = FoundState(a, ev, f)]

ResolveReconcile(a, ev) ==
    IF a.state \notin Unresolved THEN a
    ELSE IF ev.order_found THEN ResolveFound(a, ev)
    ELSE IF ev.local_no_transmit \/ NeverTransmitted(a)
         THEN [a EXCEPT !.state = "RETRY_ELIGIBLE"] ELSE a

\* Called once per route result, so the fill_id deduplication never fires.
RecordFill(a, cc) ==
    LET f == a.filled_cc + cc
    IN  [a EXCEPT !.filled_cc = f,
                  !.state = IF f >= a.qty_cc THEN "FLAT"
                            ELSE IF @ = "SUBMITTING"
                                 THEN "WORKING_OR_PARTIALLY_FILLED" ELSE @]

MarkFlat(a) == [a EXCEPT !.state = "FLAT"]

\* The restart rule of ExitAttemptStore._load.
Reloaded(a) ==
    IF a.state \in Unresolved THEN [a EXCEPT !.state = "RECONCILING"] ELSE a

-----------------------------------------------------------------------------
(* A route's outcome, classified by the branch of post_route_update that   *)
(* it takes.  filled_cc is the executed quantity the route reports.        *)
(*   executed    - has fills and is terminal (filled_live, partial_live)   *)
(*   working     - accepted_live, submitted_live, resting, fills or not    *)
(*   dead        - unfilled_ioc, canceled, expired, or rejected with an    *)
(*                 acknowledgement                                         *)
(*   never_sent  - refused before any network I/O (pre_submit)             *)
(*   unknown     - submission_unknown, unproven rejections, duplicates,    *)
(*                 statuses nobody handles                                 *)

Outcome == {"executed", "working", "dead", "never_sent", "unknown"}
Reply   == [outcome : Outcome, filled_cc : 0..Qty, order_id : OrderRef]

NoReply == [outcome |-> "unknown", filled_cc |-> 0, order_id |-> Unbound]

\* The residual of a terminal execution is released for the next decision.
ReleaseResidual(a) ==
    IF a.state # "FLAT" /\ a.filled_cc < a.qty_cc
    THEN ResolveReconcile(BeginReconcile(a), Found(TRUE, a.filled_cc))
    ELSE a

RouteUpdate(b, r) ==
    LET a == Bind(b, Unbound, r.order_id) IN
    CASE r.outcome = "executed" ->
             ReleaseResidual(RecordFill(Acked(a), r.filled_cc))
      [] r.outcome = "working" /\ r.filled_cc > 0 ->
             RecordFill(Acked(a), r.filled_cc)
      [] r.outcome = "working" /\ r.filled_cc = 0 -> Acked(a)
      [] r.outcome = "dead" ->
             ResolveReconcile(BeginReconcile(a), Found(TRUE, 0))
      [] r.outcome = "never_sent" ->
             ResolveReconcile(BeginReconcile(a), NoTransmit)
      [] OTHER -> AckUnknown(a)
=============================================================================
