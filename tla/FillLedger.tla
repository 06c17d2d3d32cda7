----------------------------- MODULE FillLedger -----------------------------
(***************************************************************************)
(* How the fills of one live buy order reach the two books that count      *)
(* them: the fills ledger (fills_ledger.py) and the position cache         *)
(* (position_cache.py).  Three writers race, and all of them report the    *)
(* same lots:                                                              *)
(*                                                                         *)
(*   - the order router, which on a filled answer records a provisional    *)
(*     fill of the whole answer and adds it to the position at once        *)
(*     (order_router.py, _apply_order_result_to_canonical_state);          *)
(*   - the exchange's own trades, delivered by the websocket and by the    *)
(*     HTTP poller, late, repeatedly and in any order;                     *)
(*   - REST position snapshots, which replace the position outright        *)
(*     (sync_from_rest) and remember a time up to which every fill is      *)
(*     taken to be inside the snapshot.                                    *)
(*                                                                         *)
(* Trade k of the order is the number k, one lot each, in the order the    *)
(* exchange executes them; times are abstracted to "created before this    *)
(* snapshot was stamped".  Router, poller and reconcilers share one event  *)
(* loop and give way only at an await; the websocket bridge ingests on a   *)
(* thread of its own and may come in anywhere.                             *)
(***************************************************************************)
EXTENDS Integers, FiniteSets

CONSTANTS
    Prov,       \* the id live_router_<order>_0 of the provisional fill
    None,       \* no id
    MaxTrades   \* bound: the trades the order may execute as

ASSUME FillConstants ==
    /\ MaxTrades \in Nat \ {0}
    /\ Prov \notin 1..MaxTrades
    /\ None \notin 1..MaxTrades
    /\ Prov # None

Trades  == 1..MaxTrades
FillIds == Trades \cup {Prov}

VARIABLES
    executed,   \* trades the exchange has executed: 1..executed
    working,    \* the order may still execute
    bridge,     \* the websocket bridge's thread delivers trades as well
    router,     \* the router's place in applying the order's result
    ack,        \* lots the answer reported filled (0: no provisional fill)
    rows,       \* ids of the order's rows in the ledger (_fills)
    lead,       \* first exchange id in _fills_by_order[order]
    alias,      \* _live_router_fill_ids[order]
    processed,  \* _processed_fill_ids
    ingest,     \* the trade whose ingestion holds the ledger's lock
    pending,    \* trades whose position_cache.on_fill is still to run
    consumed,   \* trades recorded as siblings (_consumed_by_provisional)
    applied,    \* _applied_fill_ids of the position cache
    pos,        \* lots of the cached position, 0 when there is none
    stamped,    \* fills created no later than the position's rest_synced_at
    snaps,      \* snapshots fetched and not yet handed to sync_from_rest
    credited,   \* history: lots added by fills (snapshots add none)
    unseen      \* history: trades ingested between the router's look at the
                \* ledger and its note there, so that neither saw the other

ledger == <<rows, lead, alias, processed, ingest, consumed, unseen>>
cache  == <<applied, pos, stamped, credited>>
order  == <<executed, working, bridge, router, ack>>
vars   == <<order, ledger, cache, pending, snaps>>

Init ==
    /\ executed = 0
    /\ working = TRUE
    /\ bridge \in BOOLEAN
    /\ router = "sent"
    /\ ack = 0
    /\ rows = {}
    /\ lead = None
    /\ alias = None
    /\ processed = {}
    /\ ingest = None
    /\ pending = {}
    /\ consumed = {}
    /\ applied = {}
    /\ pos = 0
    /\ stamped = {}
    /\ snaps = {}
    /\ credited = 0
    /\ unseen = {}

\* The event loop is between two of its awaits' ends: neither the router's
\* callback nor, when the loop ingests, an ingestion is in midst of a section.
LoopFree ==
    /\ router \notin {"checked", "recorded"}
    /\ bridge \/ ingest \in rows \cup {None}

\* Where a step of the ingesting side may begin.
IngestTurn == bridge \/ LoopFree

-----------------------------------------------------------------------------
(* The order at the exchange, and the router's answer.                     *)

\* The exchange executes one more lot of the order.
Execute ==
    /\ working
    /\ executed < MaxTrades
    /\ executed' = executed + 1
    /\ UNCHANGED <<working, bridge, router, ack, ledger, cache, pending, snaps>>

\* The answer finds the order finished and reports every lot of it; only a
\* result with execution goes on to the books.
AnswerFinished ==
    /\ router = "sent"
    /\ LoopFree
    /\ working' = FALSE
    /\ ack' = executed
    /\ router' = IF executed > 0 THEN "acked" ELSE "done"
    /\ UNCHANGED <<executed, bridge, ledger, cache, pending, snaps>>

\* The answer finds the order resting or still accepted: such a status makes
\* no provisional fill, whatever has executed of the order already.
AnswerResting ==
    /\ router = "sent"
    /\ LoopFree
    /\ router' = "done"
    /\ UNCHANGED <<executed, working, bridge, ack, ledger, cache, pending, snaps>>

-----------------------------------------------------------------------------
(* The position cache.  One lock serialises on_fill and sync_from_rest.    *)

\* The position was refreshed by a snapshot stamped after this fill.
Covered(f) == pos > 0 /\ f \in rows /\ f \in stamped

\* on_fill: an id counts once; a covered fill is marked and adds nothing.
OnFill(f, lots) ==
    IF f \in applied
    THEN UNCHANGED cache
    ELSE /\ applied' = applied \cup {f}
         /\ pos' = IF Covered(f) THEN pos ELSE pos + lots
         /\ credited' = IF Covered(f) THEN credited ELSE credited + lots
         /\ UNCHANGED stamped

\* A reconciler reads the exchange's positions.
Fetch ==
    /\ snaps' = snaps \cup {executed}
    /\ UNCHANGED <<order, ledger, cache, pending>>

\* The provisional fill carries the local time at which the router made it.
Made == IF router \in {"noted", "done"} THEN {Prov} ELSE {}

\* sync_from_rest: the snapshot replaces the position.  Its callers stamp it
\* with the time of this call, not with that of the fetch; every ledger row
\* created by then is marked applied.  A market the snapshot does not hold is
\* left alone.  One mutant adds the snapshot's surplus, the other refreshes
\* only a market that has no position.
SyncDelta(s) ==
    /\ s \in snaps
    /\ LoopFree
    /\ snaps' = snaps \ {s}
    /\ pos' = IF s = 0 THEN pos ELSE s - pos
    /\ UNCHANGED <<applied, stamped, credited, order, ledger, pending>>
SyncOnlyNew(s) ==
    /\ s \in snaps
    /\ LoopFree
    /\ snaps' = snaps \ {s}
    /\ pos' = IF pos = 0 THEN s ELSE pos
    /\ stamped' = IF pos = 0 /\ s > 0 THEN (1..executed) \cup Made ELSE stamped
    /\ applied' = applied \cup (rows \cap stamped')
    /\ UNCHANGED <<credited, order, ledger, pending>>
SyncFromRest(s) ==
    /\ s \in snaps
    /\ LoopFree
    /\ snaps' = snaps \ {s}
    /\ IF s = 0
       THEN UNCHANGED cache
       ELSE /\ pos' = s
            /\ stamped' = (1..executed) \cup Made
            /\ applied' = applied \cup (rows \cap stamped')
            /\ UNCHANGED credited
    /\ UNCHANGED <<order, ledger, pending>>

-----------------------------------------------------------------------------
(* The ledger.                                                             *)

\* The router hands its provisional fill to the ledger (on_fill, without the
\* ledger's lock).  A row of the exchange that is already there suppresses it.
\* One mutant never looks for such a row, the other leaves the suppressed id
\* unmarked in the position cache.
CheckNothing ==
    /\ router = "acked"
    /\ LoopFree
    /\ router' = "checked"
    /\ UNCHANGED <<executed, working, bridge, ack, ledger, cache, pending, snaps>>
CheckUnmarked ==
    /\ router = "acked"
    /\ LoopFree
    /\ IF lead # None
       THEN /\ router' = "noted"
            /\ alias' = lead
            /\ processed' = processed \cup {lead, Prov}
       ELSE /\ router' = "checked"
            /\ UNCHANGED <<alias, processed>>
    /\ UNCHANGED <<executed, working, bridge, ack, rows, lead, ingest, consumed, unseen,
                   cache, pending, snaps>>
CheckProvisional ==
    /\ router = "acked"
    /\ LoopFree
    /\ IF lead # None
       THEN /\ router' = "noted"
            /\ alias' = lead
            /\ processed' = processed \cup {lead, Prov}
            /\ applied' = applied \cup {Prov}
       ELSE /\ router' = "checked"
            /\ UNCHANGED <<alias, processed, applied>>
    /\ UNCHANGED <<executed, working, bridge, ack, rows, lead, ingest, consumed, unseen,
                   pending, pos, stamped, snaps, credited>>

\* Otherwise it becomes a row of the order ...
RecordProvisional ==
    /\ router = "checked"
    /\ router' = "recorded"
    /\ rows' = rows \cup {Prov}
    /\ UNCHANGED <<executed, working, bridge, ack, lead, alias, processed,
                   ingest, consumed, unseen, cache, pending, snaps>>

\* ... and, after the fee audit is written, the row a trade may take over.
AliasProvisional ==
    /\ router = "recorded"
    /\ router' = "noted"
    /\ alias' = Prov
    /\ processed' = processed \cup {Prov}
    /\ UNCHANGED <<executed, working, bridge, ack, rows, lead, ingest, consumed, unseen,
                   cache, pending, snaps>>

\* The router then adds the whole answer to the position.
CountProvisional ==
    /\ router = "noted"
    /\ LoopFree
    /\ router' = "done"
    /\ OnFill(Prov, ack)
    /\ UNCHANGED <<executed, working, bridge, ack, ledger, pending, snaps>>

First(t) == IF lead = None THEN t ELSE lead

\* The exchange's trade takes over the provisional row and its id.  The mutant
\* puts it beside that row.
PromoteBeside(t) ==
    /\ rows' = rows \cup {t}
    /\ lead' = First(t)
    /\ alias' = t
    /\ processed' = processed \cup {Prov, t}
    /\ applied' = applied \cup {t}
    /\ UNCHANGED consumed
Promote(t) ==
    /\ rows' = (rows \ {Prov}) \cup {t}
    /\ lead' = First(t)
    /\ alias' = t
    /\ processed' = processed \cup {Prov, t}
    /\ applied' = applied \cup {t}
    /\ UNCHANGED consumed

\* A further trade of an order tied to another trade already is kept in the
\* ledger and withheld from the position.
RecordSibling(t) ==
    /\ rows' = rows \cup {t}
    /\ processed' = processed \cup {t}
    /\ consumed' = consumed \cup {t}
    /\ applied' = applied \cup {t}
    /\ UNCHANGED <<lead, alias>>

\* A trade arrives, by websocket or poller, under the ledger's lock.  One that
\* is in the ledger is dropped, one of an order the router has a row for is
\* merged, any other is to become a row.
Ingest(t) ==
    /\ ingest = None
    /\ IngestTurn
    /\ t <= executed
    /\ t \notin rows
    /\ \/ alias = Prov /\ Promote(t) /\ UNCHANGED ingest
       \/ alias \in Trades /\ RecordSibling(t) /\ UNCHANGED ingest
       \/ /\ alias = None
          /\ ingest' = t
          /\ UNCHANGED <<rows, lead, alias, processed, consumed, applied>>
    /\ UNCHANGED <<order, pending, pos, stamped, snaps, credited, unseen>>

InsertRow ==
    /\ ingest \notin rows \cup {None}
    /\ rows' = rows \cup {ingest}
    /\ lead' = First(ingest)
    /\ UNCHANGED <<order, alias, processed, ingest, consumed, unseen, cache, pending,
                   snaps>>

\* The attribution table is flushed between the row and on_fill: that await is
\* where the router may come in even on one loop.  on_fill merges the trade
\* into what the router has recorded since; unless the trade has become a
\* sibling the position cache is then called for it.
FinishIngest ==
    /\ ingest \in rows
    /\ IngestTurn
    /\ ingest' = None
    /\ unseen' = IF router \in {"checked", "recorded"} /\ alias = None
                 THEN unseen \cup {ingest} ELSE unseen
    /\ \/ /\ alias = Prov
          /\ Promote(ingest)
          /\ pending' = pending \cup {ingest}
       \/ /\ alias \in {None, ingest}
          /\ processed' = processed \cup {ingest}
          /\ pending' = pending \cup {ingest}
          /\ UNCHANGED <<rows, lead, alias, consumed, applied>>
       \/ /\ alias \in Trades \ {ingest}
          /\ RecordSibling(ingest)
          /\ UNCHANGED pending
    /\ UNCHANGED <<order, pos, stamped, snaps, credited>>

\* The bridge or the fill bus hands the trade to the position cache.
CountTrade(t) ==
    /\ t \in pending
    /\ IngestTurn
    /\ pending' = pending \ {t}
    /\ OnFill(t, 1)
    /\ UNCHANGED <<order, ledger, snaps>>

-----------------------------------------------------------------------------
Next ==
    \/ Execute
    \/ AnswerFinished
    \/ AnswerResting
    \/ CheckProvisional
    \/ RecordProvisional
    \/ AliasProvisional
    \/ CountProvisional
    \/ Fetch
    \/ InsertRow
    \/ FinishIngest
    \/ \E t \in Trades : Ingest(t) \/ CountTrade(t)
    \/ \E s \in 0..MaxTrades : SyncFromRest(s)

Spec == Init /\ [][Next]_vars

\* The router's call returns, the poller asks again for what it has not seen,
\* a lock's holder gets on, and the reconcilers read and apply snapshots on
\* their timers.  The exchange owes no execution.
Fairness ==
    /\ WF_vars(AnswerFinished \/ AnswerResting)
    /\ WF_vars(CheckProvisional)
    /\ WF_vars(RecordProvisional)
    /\ WF_vars(AliasProvisional)
    /\ WF_vars(CountProvisional)
    /\ WF_vars(InsertRow)
    /\ WF_vars(FinishIngest)
    /\ WF_vars(Fetch)
    /\ \A t \in Trades : WF_vars(Ingest(t)) /\ WF_vars(CountTrade(t))
    /\ \A s \in 0..MaxTrades : WF_vars(SyncFromRest(s))

FairSpec == Spec /\ Fairness

-----------------------------------------------------------------------------
TypeOK ==
    /\ executed \in 0..MaxTrades
    /\ working \in BOOLEAN
    /\ bridge \in BOOLEAN
    /\ router \in {"sent", "acked", "checked", "recorded", "noted", "done"}
    /\ ack \in 0..MaxTrades
    /\ rows \subseteq FillIds
    /\ lead \in Trades \cup {None}
    /\ alias \in FillIds \cup {None}
    /\ processed \subseteq FillIds
    /\ ingest \in Trades \cup {None}
    /\ pending \subseteq Trades
    /\ consumed \subseteq Trades
    /\ applied \subseteq FillIds
    /\ pos \in Nat
    /\ stamped \subseteq FillIds
    /\ snaps \subseteq 0..MaxTrades
    /\ credited \in Nat
    /\ unseen \subseteq Trades

\* Where trades may slip past the router: on the bridge's thread.
Slipped == IF bridge THEN unseen ELSE {}

\* The ledger never counts a lot twice: while the router's provisional row
\* stands for the whole order, no trade of the exchange stands beside it,
\* whichever of the two gets to the ledger first
\* (_suppress_duplicate_live_router, _promote_live_router_fill), but for the
\* one the thread is about to merge and those that came in unseen.
OneRecordPerLot ==
    Prov \in rows => rows \subseteq {Prov} \cup Slipped \cup (IF bridge THEN {ingest} ELSE {})

\* The router's provisional fill and the exchange's trades together add no
\* more lots to the position than were executed, and one more for each trade
\* that came in unseen: in any other interleaving of the thread and the loop
\* the two sources collapse to one mutation
\* (_apply_order_result_to_canonical_state).
NeverCreditedTwice == credited <= executed + Cardinality(Slipped)

\* Whatever the races did meanwhile, the ledger ends with the exchange's
\* trades; the provisional row stays beside them only if every one of them
\* came in unseen, for any other takes its place.
LedgerConverges ==
    <>[](\/ rows = 1..executed
         \/ rows = {Prov} \cup (1..executed) /\ 1..executed \subseteq Slipped)

\* The recurring snapshots bring the cached position to what the exchange
\* holds and leave it there: no fill is added after the last of them.
PositionConverges == <>[](pos = executed)

\* The sibling rule's premise: once both sources are in and nothing is under
\* way, and before any snapshot, the position is what was executed.
SourcesCollapse ==
    /\ router = "done" /\ ingest = None /\ pending = {}
    /\ rows = 1..executed
    /\ stamped = {}
    => pos = executed

\* The coverage rule's promise: a lot inside a snapshot is not added again, so
\* the cached position never exceeds what the exchange executed.
CountedOnce == pos <= executed

\* The ledger's claim to have closed the race between the router and the
\* websocket: no provisional row is left beside a trade of its order.
RaceClosed ==
    router = "done" /\ ingest = None /\ Prov \in rows => rows = {Prov}
=============================================================================
