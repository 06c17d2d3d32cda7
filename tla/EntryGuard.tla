----------------------------- MODULE EntryGuard -----------------------------
(***************************************************************************)
(* What keeps a side of a market from being entered twice: the canonical   *)
(* record of the contract, at most one for a market and side, and the      *)
(* pre-trade gate, which has a record per entry.  The module follows the   *)
(* entries into one market and side, each carried by a route of its own,   *)
(* their orders at the exchange, and the monitor of resting orders, which  *)
(* frees the key when an order has died unfilled.                          *)
(*                                                                         *)
(* It covers one window of one process: neither the expiry of records      *)
(* after 900 s nor a restart is in it.  A route's work is over within 5 s, *)
(* so what waits 10 or 15 s waits for a route that works no more; but a    *)
(* route that timed out resets the connections before it cleans up, for    *)
(* however long that takes, and may be cancelled there.                    *)
(***************************************************************************)
EXTENDS Naturals, FiniteSets

CONSTANTS Entries,      \* entry intents for the key
          NoEntry,
          MaxRequotes   \* MERID_ENTRY_MAX_REQUOTES_PER_KEY

ASSUME EntryConstants == NoEntry \notin Entries /\ MaxRequotes \in Nat

VARIABLES
    canon,     \* the key's record in _accepted_entry_intents
    released,  \* _terminal_released_slots of the key
    gate,      \* the status of each entry's gate record
    route,     \* where each entry's route_order_async is
    order,     \* each entry's order at the exchange
    reply,     \* what the exchange answered to the request
    resting,   \* the orders the resting order monitor has registered
    polled,    \* the entry whose order the monitor's poll asks for
    pruned     \* history: entries whose pending record was dropped by age

records  == <<canon, released>>
exchange == <<order, reply>>
monitor  == <<resting, polled>>
vars     == <<records, gate, route, exchange, monitor, pruned>>

NoRecord == [entry |-> NoEntry, status |-> "none", submitted |-> FALSE]

Records == [entry : Entries, submitted : BOOLEAN,
            status : {"pending", "submitted", "filled", "reconciliation_required"}]

InFlight == {"PENDING", "SUBMITTED", "SUBMISSION_UNKNOWN", "LIVE", "PARTIAL"}
Closed   == {"FILLED", "CANCELED", "REJECTED"}

\* "filled" orders have executed, in whole or in part; "dead" ones have not.
Seen  == {"resting", "filled", "dead"}
Order == Seen \cup {"none", "flying", "lost", "refused"}

TypeOK ==
    /\ canon \in Records \cup {NoRecord}
    /\ released \in Nat
    /\ gate \in [Entries -> InFlight \cup Closed \cup {"none"}]
    /\ route \in [Entries -> {"new", "validated", "gated", "wire", "asking",
                              "acked", "resetting", "cut", "done"}]
    /\ order \in [Entries -> Order]
    /\ reply \in [Entries -> Seen \cup {"none", "refused"}]
    /\ resting \subseteq Entries
    /\ polled \in Entries \cup {NoEntry}
    /\ pruned \subseteq Entries

Init ==
    /\ canon = NoRecord
    /\ released = 0
    /\ gate = [e \in Entries |-> "none"]
    /\ route = [e \in Entries |-> "new"]
    /\ order = [e \in Entries |-> "none"]
    /\ reply = [e \in Entries |-> "none"]
    /\ resting = {}
    /\ polled = NoEntry
    /\ pruned = {}

-----------------------------------------------------------------------------
(* The canonical record.  A caller that names its entry reaches only that  *)
(* entry's record.                                                         *)

Held(e) == canon.entry = e

MarkSubmitted(e) ==
    /\ canon' = IF Held(e) THEN [canon EXCEPT !.status = "submitted", !.submitted = TRUE]
                ELSE canon
    /\ UNCHANGED released

MarkExecuted(e) ==
    /\ canon' = IF Held(e) THEN [canon EXCEPT !.status = "filled", !.submitted = TRUE]
                ELSE canon
    /\ UNCHANGED released

MarkReconciliation(e) ==
    /\ canon' = IF Held(e) THEN [canon EXCEPT !.status = "reconciliation_required"]
                ELSE canon
    /\ UNCHANGED released

\* The release of a submitted record uses up a re-quote.  One mutant does not
\* count it, the other marks the record and keeps it.
RemoveUncounted(submitted) == canon' = NoRecord /\ UNCHANGED released
RemoveMarked(submitted) ==
    /\ canon' = [canon EXCEPT !.status = "rejected"]
    /\ released' = IF submitted THEN released + 1 ELSE released
Remove(submitted) ==
    /\ canon' = NoRecord
    /\ released' = IF submitted THEN released + 1 ELSE released

\* An executed record stays.
ReleaseKey == IF canon.entry # NoEntry /\ canon.status # "filled"
              THEN Remove(canon.submitted)
              ELSE UNCHANGED records

Release(e) == IF Held(e) THEN ReleaseKey ELSE UNCHANGED records

\* mark_submitted and release_entry_idempotency, one after the other.
SubmitAndRelease(e) == IF Held(e) THEN Remove(TRUE) ELSE UNCHANGED records

-----------------------------------------------------------------------------
(* The route of an entry.                                                  *)

Become(e, place) == route' = [route EXCEPT ![e] = place]

\* _enforce_entry_idempotency.
Admits == canon.entry = NoEntry /\ released <= MaxRequotes

Validate(e) ==
    /\ route[e] = "new"
    /\ IF Admits
       THEN /\ canon' = [entry |-> e, status |-> "pending", submitted |-> FALSE]
            /\ Become(e, "validated")
       ELSE UNCHANGED canon /\ Become(e, "done")
    /\ UNCHANGED <<released, gate, exchange, monitor>>

Blocked == \E f \in Entries : gate[f] \in InFlight

PassGate(e) ==
    /\ route[e] = "validated" /\ ~Blocked
    /\ gate' = [gate EXCEPT ![e] = "PENDING"]
    /\ Become(e, "gated")
    /\ UNCHANGED <<records, exchange, monitor>>

\* "The order is already known, so treat this as a no-op success".  It would
\* be a filled one if the record found were in part filled; a key with such a
\* record admits no entry.
SyntheticSuccess(e) ==
    /\ route[e] = "validated" /\ Blocked
    /\ MarkSubmitted(e)
    /\ Become(e, "done")
    /\ UNCHANGED <<gate, exchange, monitor>>

\* Any of the other checks refuses the entry before it is sent.
Refuse(e) ==
    /\ route[e] \in {"validated", "gated"}
    /\ gate' = [gate EXCEPT ![e] = IF @ = "PENDING" THEN "REJECTED" ELSE @]
    /\ Release(e)
    /\ Become(e, "done")
    /\ UNCHANGED <<exchange, monitor>>

Send(e) ==
    /\ route[e] = "gated"
    /\ order' = [order EXCEPT ![e] = "flying"]
    /\ Become(e, "wire")
    /\ UNCHANGED <<records, gate, reply, monitor>>

\* The claim on the durable attempt fails, so nothing is sent; or the route
\* raises or is cancelled, wherever it is.  One mutant frees the key, the
\* other leaves it as it is.
Running == {"validated", "gated", "wire", "asking", "acked"}
GiveUpReleasing(e) ==
    /\ route[e] \in Running
    /\ Release(e)
    /\ Become(e, "done")
    /\ UNCHANGED <<gate, exchange, monitor>>
GiveUpSilently(e) ==
    /\ route[e] \in Running
    /\ Become(e, "done")
    /\ UNCHANGED <<records, gate, exchange, monitor>>
GiveUp(e) ==
    /\ route[e] \in Running
    /\ MarkReconciliation(e)
    /\ Become(e, "done")
    /\ UNCHANGED <<gate, exchange, monitor>>

\* A route that times out resets the connections first,
TimeOut(e) ==
    /\ route[e] \in Running
    /\ Become(e, "resetting")
    /\ UNCHANGED <<records, gate, exchange, monitor>>

\* and cleans up after the reset;
CleanUp(e) ==
    /\ route[e] = "resetting"
    /\ MarkReconciliation(e)
    /\ Become(e, "done")
    /\ UNCHANGED <<gate, exchange, monitor>>

\* cancelled in the reset, it cleans nothing up.
CutOff(e) ==
    /\ route[e] = "resetting"
    /\ Become(e, "cut")
    /\ UNCHANGED <<records, gate, exchange, monitor>>

\* The exchange's answer.  After an execution the route awaits the balance
\* before it records it; an order that rests is given to the monitor.
Answered(e) ==
    /\ route[e] = "wire"
    /\ \/ /\ reply[e] = "refused"
          /\ gate' = [gate EXCEPT ![e] = "REJECTED"]
          /\ Release(e)
          /\ Become(e, "done") /\ UNCHANGED resting
       \/ /\ reply[e] = "resting"
          /\ gate' = [gate EXCEPT ![e] = "SUBMITTED"]
          /\ MarkSubmitted(e)
          /\ resting' = resting \cup {e}
          /\ Become(e, "done")
       \/ /\ reply[e] = "filled"
          /\ gate' = [gate EXCEPT ![e] = "SUBMITTED"]
          /\ MarkSubmitted(e)
          /\ Become(e, "acked") /\ UNCHANGED resting
       \/ /\ reply[e] = "dead"       \* unfilled_ioc
          /\ gate' = [gate EXCEPT ![e] = "REJECTED"]
          /\ SubmitAndRelease(e)
          /\ Become(e, "done") /\ UNCHANGED resting
    /\ UNCHANGED <<exchange, polled>>

RecordFill(e) ==
    /\ route[e] = "acked"
    /\ \E s \in {"PARTIAL", "FILLED"} : gate' = [gate EXCEPT ![e] = s]
    /\ MarkExecuted(e)
    /\ Become(e, "done")
    /\ UNCHANGED <<exchange, monitor>>

\* No answer, or one that says nothing: the exchange is asked, once.
Ambiguous(e) ==
    /\ route[e] = "wire"
    /\ gate' = [gate EXCEPT ![e] = "SUBMISSION_UNKNOWN"]
    /\ MarkSubmitted(e)
    /\ Become(e, "asking")
    /\ UNCHANGED <<exchange, monitor>>

\* _apply_reconciled_order.  An order found resting is not registered with the
\* monitor.
Reconciled(e) ==
    /\ route[e] = "asking"
    /\ \/ /\ order[e] = "filled"
          /\ \E s \in {"PARTIAL", "FILLED", "CANCELED"} : gate' = [gate EXCEPT ![e] = s]
          /\ MarkExecuted(e)
       \/ /\ order[e] = "resting"
          /\ gate' = [gate EXCEPT ![e] = "LIVE"]
          /\ MarkSubmitted(e)
       \/ /\ order[e] = "dead"
          /\ \E s \in {"CANCELED", "REJECTED"} : gate' = [gate EXCEPT ![e] = s]
          /\ Release(e)
       \/ MarkReconciliation(e) /\ UNCHANGED gate
    /\ Become(e, "done")
    /\ UNCHANGED <<exchange, monitor>>

Over(e) == route[e] \in {"resetting", "cut", "done"}

\* _prune_stale_entry_records, which an entry into any market runs: a record
\* still pending after 10 s goes, with the key's count of releases, if the gate
\* knows no more of the order than that it was to be sent.
Prune(e) ==
    /\ Held(e) /\ canon.status = "pending" /\ Over(e)
    /\ gate[e] \in {"none", "PENDING", "REJECTED", "CANCELED"}
    /\ canon' = NoRecord /\ released' = 0
    /\ pruned' = pruned \cup {e}
    /\ UNCHANGED <<gate, route, exchange, monitor>>

\* The gate's maintenance, 15 s after the record was made.
SweepPending(e) ==
    /\ gate[e] = "PENDING" /\ Over(e)
    /\ gate' = [gate EXCEPT ![e] = "REJECTED"]
    /\ UNCHANGED <<records, route, exchange, monitor>>

-----------------------------------------------------------------------------
(* The monitor of resting orders.                                          *)

PollOrder(e) ==
    /\ e \in resting /\ polled = NoEntry
    /\ polled' = e
    /\ UNCHANGED <<records, gate, route, exchange, resting>>

\* _sync_order_status: no evidence of the order's end, an end with fills, or
\* one without, which frees the key, whoever holds it.
PollAnswer(e) ==
    /\ polled = e /\ polled' = NoEntry
    /\ \/ UNCHANGED <<records, resting>>
       \/ order[e] = "filled" /\ UNCHANGED records /\ resting' = resting \ {e}
       \/ order[e] = "dead" /\ ReleaseKey /\ resting' = resting \ {e}
    /\ UNCHANGED <<gate, route, exchange>>

\* _recheck_all_orders cancels; the order is dropped once it is terminal.
RecheckCancel(e) ==
    /\ e \in resting /\ order[e] \in Seen
    /\ order' = [order EXCEPT ![e] = IF @ = "resting" THEN "dead" ELSE @]
    /\ resting' = resting \ {e}
    /\ UNCHANGED <<records, gate, route, reply, polled>>

-----------------------------------------------------------------------------
(* The exchange.                                                           *)

Exchange(e) ==
    /\ \/ /\ order[e] = "flying"
          /\ \E s \in Seen \cup {"refused"} :
                /\ order' = [order EXCEPT ![e] = s]
                /\ reply' = [reply EXCEPT ![e] = s]
       \/ /\ order[e] = "flying"
          /\ order' = [order EXCEPT ![e] = "lost"] /\ UNCHANGED reply
       \/ /\ order[e] = "resting"
          /\ \E s \in {"filled", "dead"} : order' = [order EXCEPT ![e] = s]
          /\ UNCHANGED reply
    /\ UNCHANGED <<records, gate, route, monitor>>

RouteStep(e) ==
    \/ Validate(e) \/ PassGate(e) \/ SyntheticSuccess(e) \/ Refuse(e)
    \/ Send(e) \/ Answered(e) \/ RecordFill(e) \/ Ambiguous(e) \/ Reconciled(e)
    \/ GiveUp(e) \/ TimeOut(e) \/ CleanUp(e) \/ CutOff(e)

Elsewhere(e) ==
    \/ SweepPending(e) \/ PollOrder(e) \/ PollAnswer(e) \/ RecheckCancel(e)
    \/ Exchange(e)

Next == \E e \in Entries :
    \/ RouteStep(e) /\ UNCHANGED pruned
    \/ Elsewhere(e) /\ UNCHANGED pruned
    \/ Prune(e)

Spec == Init /\ [][Next]_vars

-----------------------------------------------------------------------------
(* Properties.                                                             *)

Open(e) == order[e] \in {"flying", "resting", "filled"}

\* "Reject a second entry for the same (ticker, side, window)": never have two
\* entries an order that may execute or has executed, however their routes,
\* their time-outs and the monitor's releases interleave.  An order whose
\* record was dropped by age is not guarded any more, and only such an order.
OneOpenEntry == \A e, f \in Entries \ pruned : Open(e) /\ Open(f) => e = f

\* Whatever way a route ends, it leaves no pending record for the pruning to
\* drop, unless it is held up or cancelled in the reset after its time-out: an
\* order is unguarded through no other error.
PendingWasTimedOut ==
    canon.status = "pending" =>
        route[canon.entry] \in {"validated", "gated", "wire", "resetting", "cut"}

\* "The original order and one re-quote": the key takes no more orders than
\* that in the window, those it refuses and those that never arrive aside,
\* and only a record dropped by age gives it the budget anew.
RequoteBudget ==
    Cardinality({e \in Entries : order[e] \in Seen \cup {"flying"}})
        <= (1 + MaxRequotes) * (1 + Cardinality(pruned))

\* "A new canonical record that reaches submitted proves a fresh fully-gated
\* candidate entered routing": an entry recorded as submitted was sent.
SubmittedWasSent == canon.status = "submitted" => order[canon.entry] # "none"

\* "Age cannot prove that a sent or working order is dead": the sweep leaves
\* the records of such orders alone.
SweepSparesSent ==
    [][\A e \in Entries : gate[e] = "PENDING" /\ gate'[e] = "REJECTED" => ~Open(e)]_vars
=============================================================================
