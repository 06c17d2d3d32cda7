# Formal models of MERID's order paths

MERID is a production trading system for Kalshi's 15-minute crypto markets
(`src/README.md`). Its pipeline is signal, edge against the book, EV gate, sizing,
execution, monitoring, exit, settlement; the production entry point is
`web.main_15m_lean:app`, and `src/ARCHITECTURE_15M.md` says which trees are
reachable from it. This directory holds TLA+ modules that model parts of that
program, TLC configurations that check them on small instances, and TLAPS proofs
of the properties that matter most.

The part modelled first is the **exit path**: how a position that is already held
is sold. It is where the program's hardest promise lives - *never two live exit
orders for one position, across timeouts, lost acknowledgements, fills, restarts* -
and where that promise depends on orders of events no test enumerates. Beside it stand
the **entry guard**, which keeps a side of a market from being entered twice, and the
**fill books**, the ledger and the position cache that must count every executed lot
once although three sources report it.

Contents

1. The system: components, state, operations, interactions
2. The modules and how they correspond to the code
3. The runs: questions, bounds, results
4. What the runs found
5. Fairness
6. What is proved
7. What is only model-checked, and what is not modelled
8. Plan
9. How to run

---

## 1. The system

The trading path runs on one `asyncio` event loop in one process; a step of a model
is the code between two awaits. Two things do not: the websocket bridge forwards its
messages on a thread with an event loop of its own (`ws_bridge.py:2493-2569`), so the
fills it ingests reach the ledger, the durable exit rows and the position cache
anywhere between two lines of the main loop's code; and the sweep of stale exit
obligations runs in an executor thread. The models let those steps come in where they
can. Durable state is a set of JSON and SQLite files, each owned by one class.

### The exit path

| Component | State | Operations | Interacts with |
|---|---|---|---|
| **Exit arbiter** `position_management/exit_arbiter.py` | one active `ExitAttempt` per position key, in memory and in a JSON file; token and sequence counters | `arbitrate` mints; `bind_attempt_identity`, `mark_acked`, `mark_ack_unknown`, `begin_reconcile`, `resolve_reconcile`, `record_fill`, `mark_flat` move it; `validate_attempt_token` gates the router; `_load` applies the restart rule | called by the pipeline, the router and the worker; writes the floor through a position-state store of its own |
| **Exit pipeline** `exit_pipeline.py` | none of its own | `approve_intent` (sweep, then arbitrate, then bind), `post_route_update` (classifies the router's result), `reconcile_attempt`, `sweep` | producers (monitor, stop, settlement exit, loop) call it; it awaits venue lookups |
| **Reconcile worker** `exit_reconcile_worker.py` | back-off per key, per-tick budget | periodic tick over `positions_requiring_reconcile` | calls `reconcile_attempt`, concurrently with the sweep |
| **Position exit state** `position_exit_state.py` | records per generation: high-watermark, floor, giveback, archived, trail flags; one JSON file | `save`, `record_watermark`, `record_giveback`, `record_floor_ratchet`, `archive`, `find_record`, `restore_into` | two instances over one file: the monitor's singleton and the arbiter's own |
| **Order router** `event_venues/kalshi/order_router.py` | in-flight maps, idempotency caches | `route_order_async`: token gate, firewalls, transmission, status classification | the exchange client; result goes back to the caller under `wait_for` |
| **15-minute loop** `loop_15m.py` | the cycle's decision context, in-flight exits | the exit executor around the route (timeout, error handling, resubmission of never-dispatched requests), dispatch of intents | everything |
| **Position monitor** `position_monitor.py` | open positions, hard-lock latches, in-flight exit registry | the poll, the exit conditions, removal | calls `save`, `archive`; emits exit intents |
| **Durable order attempts** `order_attempt_store.py`, `order_identity.py` | SQLite rows of a 16-state machine with versions | create, transition, apply fill, look up by wire id | the loop's dispatch and the resolvers |
| **Settlement-aligned exit, stop candidates** `settlement_aligned_exit.py`, `stop_candidate*.py` | their own attempt registries | hold-or-sell decisions, hard stops and retries | the loop, the durable rows |
| **Firewall** `execution_risk_firewall.py` | in-flight reservations | min-proceeds floor, caps | reads the position-state singleton |

What makes this part correct:

- one order at most can still trade for a generation, whatever is lost or late;
- an attempt is released for a replacement only when its order is beyond trading;
- fills are counted once each and none is lost, though three sources report them;
- a closed attempt stays closed;
- an unresolved attempt is eventually resolved, or the generation could never exit;
- the profit lock only moves up, and only an authorised emergency sells below it.

### The rest of the program

| Component | State and operations | What is hard | What would make it correct |
|---|---|---|---|
| Order gate, intent contract | one canonical record per market and side; a gate record per entry | routes timing out or cancelled at any await, lost answers, the monitor freeing the key | never two orders that may execute for one side; no record nobody owns |
| Fills ledger, poller, fill bus | fills keyed by trade id, a provisional row per order, an alias from order to row | the router's provisional fill racing the exchange's trades | each lot has one row and one mutation |
| Position cache | positions, `_applied_fill_ids`, the time of the last snapshot | snapshots older than fills, fills covered by snapshots | the cached position ends at what the exchange holds |
| Canonical portfolio, reconcilers | authoritative snapshots, event log | drift while orders are in flight | an older snapshot never wins |
| Resting orders, order groups | resting orders, exchange-side groups | cancel racing a fill, polls that free an entry's key | no key freed under a live order |
| Order state machine, contract leases | small in-memory machines | lease expiry racing completion | one lease per contract |
| Market state, websocket, bridge, coalescing buffer | books with sequence numbers; latest-wins buffer | gaps, reconnect, drain racing push | no decision on a book with a gap |
| Rate limits, client | token buckets | bursts, 429 handling | none beyond the budget |
| Bankroll, shard funding, cycle drawdown | collateral, realised loss per cycle | cycle roll-over racing a fill | the limit is never exceeded unnoticed |
| Kill switches, circuit breakers | latches, cool-downs, half-open probes | reset racing a new trip | a latched halt is cleared only by its own reset |
| Slots, re-entry, transactions | reserved slots, rollback | failure between reserve and commit | no slot is leaked or over-allocated |
| Execution queue, revalidation | priority queue of decisions | stale decisions | nothing stale is dispatched |
| Runtime state | STARTING, PREFLIGHT_RUNNING, LIVE_ENTRIES_ENABLED / HALTED | restart in the middle | no entry before preflight |
| Settlement poller | settlements to ledger | paging | each settlement once |
| Signals, agent grid | forecasts | numeric | out of scope: no protocol |
| Legacy trees (`src/core`, `merid/loop.py`, `web/main.py`) | - | - | quarantined, not modelled |

`PROJECT.json` lists every component with the reason it is or is not modelled yet,
and, under `hazards`, every line where something can go wrong that a test would
hardly reach, with the property that covers it or a note saying why none does yet.

---

## 2. The modules

```
SingleExitAuthority   what the arbiter promises (abstract)
        ^ implemented by
ExitPipeline          producers, routes, reconcilers, exchange, crashes
        | EXTENDS
ExitAttempt           one attempt's record and its lifecycle methods

ExitFloor             the floor, the watermark, the giveback and their two stores
ReconcileWorker       which unresolved attempts of many positions a tick takes up
ExitObligation        the in-flight entry, the durable rows and the identity rows
EntryGuard            the canonical records and the gate of one side of a market
FillLedger            the router, the exchange's trades and the snapshots of one order

ExitPipelineProofs    TypeCorrect, IdentityIsDurable, ClosedIsFinal,
                      OneOrderAtMost, ReleaseNeedsDeath, FillsAreAccounted, Implements
ExitFloorProofs       TypeCorrect, FloorsAreEarned, FloorIsMonotone, ArchivedStays,
                      OrdinaryExitsHonourTheFloor, GivebackIsRemembered
ExitObligationProofs        Types, SendsOnce
ExitObligationSafetyProofs  FillsFound, OrdersOwned, OneOrder, AwaitsOne
ReconcileWorkerProofs WorkerTypeOK, WokenKeysLead
EntryGuardProofs      EntryTypeOK, OneEntryOpen, PendingRecordTimedOut, KeyWithinBudget
FillLedgerProofs      FillTypeOK, ProvisionalStandsAlone, OneMutationPerLot
```

The modules cut the program by what a property needs. `ExitPipeline` takes one
generation and its attempts; `ReconcileWorker` takes the outcome of one lookup from it
as given and asks which key is looked up at all. `ExitObligation` is the same sale seen
from the durable side, by wire ids instead of attempt tokens. `EntryGuard` follows the
entries that compete to send an order, `FillLedger` the fills of such an order.

### ExitAttempt

The record `ExitAttempt` (state, quantity, fills, the two order identities) and each
lifecycle method of `ExitArbiter` as a function from the stored record to the one the
method saves. No state, so the functions serve the model and the proofs alike.
`RouteUpdate` is the whole of `post_route_update` for one result, all its calls in
order; a result is classified by the branch it takes (`Outcome`). An order is named by
the number of the attempt that sent it, which is what the derived `client_order_id`
amounts to.

### ExitPipeline

| TLA+ | Code |
|---|---|
| `att`, `active`, `seq` | the attempts minted for one position key; `ExitAttemptStore` keeps the active one; the closed ones are history, kept to state properties about them |
| `disk` | the row of the attempt file as last flushed |
| `route`, `reply` | one `route_order_async` call per attempt, and its `OrderResult` on the way back |
| `reconciler` | where each `reconcile_attempt` coroutine stands, with the copy of the identities it read before its await and the answer it got |
| `order`, `executed`, `market` | the exchange (external) |
| `ApproveIntent`, `ArbitrateTerminalMarket` | `approve_intent` and the gate and mint of `arbitrate`, with both saves and the identity binding |
| `Gate`, `GateRejects`, `RefuseLocally`, `Transmit`, `Respond`, `RespondUnknown` | the route: token gate, local refusals, transmission, classification |
| `PostRouteUpdate`, `RouteTimeout`, `RouteCancelled` | the caller resumes with a result, its `wait_for` expires, its task is cancelled |
| `ListKey`, `ReconcileBegin`, `LookupFinds`, `LookupFindsNothing`, `ReconcileResolve` | `positions_requiring_reconcile`, then `reconcile_attempt` cut at its awaits |
| `Accept`, `Execute`, `Cancel`, `CloseMarket` | the exchange |
| `strayed` | history: a pass has acted on an attempt it was not about. `Misapplied`: the answer about one order changed another's attempt; `Overtaken`: the attempt listed had been replaced by one still being routed. No action reads it |
| `Crash`, `CrashInApprove` | the process dies between two steps, or between the two saves of `approve_intent`; `Reloaded` is the restart rule of `_load` |

Two details carry the interesting behaviour. A late call - a result after a timeout, a
lookup begun before a replacement - is applied to *whichever attempt is active under the
position key*, because the code's methods take the key and not the attempt; the actions
do the same. The worker and the sweep share no lock, so two passes may be under way;
`Reconcilers` has both in every run. And `_flush` may fail without anybody noticing
(`FlushMayFail`).

Abstracted: one generation (every store operation touches one key's record); time (a
SUBMITTING attempt is stale once no route is left to report for it: 30 s against a 20 s
route timeout); back-off, priority and budget of the worker, which only delay a pass; the
price (ExitFloor's subject); the position's own quantity and reduce-only, so an attempt
may ask for any number of lots up to `Qty`; history and timestamps. A resubmission of a
never-dispatched request repeats `Gate` on the same attempt and adds no state; an amend of
a resting order changes only its limit. The fill-id de-duplication of `record_fill` never
fires, as each route posts once. `arbitrate`'s "flat" branch is unreachable, as no caller
passes a remaining quantity of zero. A status the pipeline does not recognise is reported
of live orders only.

### SingleExitAuthority

The promise of `exit_arbiter.py`'s docstring on its own: the authority to trade a
generation out is granted to one attempt at a time, under a fresh number, and not again
until the holder cannot trade. `Astray` is what is left of the promise once evidence has
been applied to the wrong attempt: a grant may then come beside a holder, but still under a
fresh number, and an authority that is gone does not return. The pipeline implements it with
`authority <- {i : CanTrade(i)}, used <- seq, astray <- strayed`.

### ExitFloor

| TLA+ | Code |
|---|---|
| `memory`, `loaded` | the dictionaries of the two `PositionExitStateStore` instances and whether each has been created since the process started; the monitor's is the singleton of `get_exit_state_store`, the arbiter's is made at `exit_arbiter.py:513` |
| `file` | the JSON file both rewrite, whole, from their own memory |
| `Save`, `RecordWatermark`, `RecordGiveback`, `RecordFloor`, `Archived`, `FindRecord` | the store's methods. The monitor and the arbiter key a generation differently (`kalshi/TICKER...` and `TICKER...`), so there are two records, each named by its writer; `find_record` takes the live one updated last |
| `MonitorPoll`, `RemovePosition` | the poll of an open position (`save`), its removal (`archive`) |
| `Arbitrate` | steps 1 to 5 of `arbitrate` for the one proposal `approve_intent` passes: observe the book, find the record, resolve the giveback, compute and ratchet the floor, price the exit and check it against the cap and the bid |
| `OtherGeneration`, `Load` | another generation's write, or a first lookup, creates the store and rewrites the file |
| `Crash`, `CrashInArbitrate` | a crash between steps, or between the three writes of one arbitration |
| `declared`, `earned` | history variables, the first of the process, the second of the generation: the last giveback declared, the highest bid or breakeven seen |

0 stands for an absent field; the code treats the two alike in every comparison. Left
out: `delete` (administrative), the quarantine of an unreadable file, the trail flags and
timestamps, and the choice among several proposals. Which attempt may be minted is
ExitPipeline's subject; here the gate lets a proposal through or does not, so every
property holds whatever it decides.
`restore_into` has no effect the properties see beyond creating the store: the peak it
restores is one `save` would keep anyway. The degraded stop path passes no giveback;
the others pass at least 1. A breakeven may exceed `MaxPrice`, and then nothing sells.

### ReconcileWorker

| TLA+ | Code |
|---|---|
| `att`, `queue` | the state of each key's active attempt; the keys, youngest attempt first |
| `Needing`, `InOrder` | the keys `positions_requiring_reconcile` returns, and the order in which it does |
| `priority`, `woken` | `_priority`, the keys fills have woken, and the event `_wake` |
| `failures`, `backoff` | `_key_failures`, and the time left until `_key_backoff` |
| `todo`, `before`, `startup` | where `_tick` or the startup recovery stands, and the state it read before its await |
| `Tick`, `Answer`, `Pass` | `_tick` up to its await, what it does after it, and time passing in the sleep or in the lookup |
| `SubmitUnknown`, `NoteFillEvent`, `MoveElsewhere`, `Restart` | an attempt that becomes unresolved, a fill that wakes a key, an attempt resolved by the sweep, a new process |

Left out: a tick without a client, `stop()`, and the exception the code meets when another
thread adds to `_priority` while it iterates. A wake-up sent from the fills' thread need
not wake the loop before its timer. With `Overflows` one failure more than 1024 raises
`OverflowError` in `_apply_backoff`, as `2.0 * 2**1024` does.

### ExitObligation

| TLA+ | Code |
|---|---|
| `row` | the rows of `exit_order_attempts`, a 16-state machine (`Edges`) with a unique id; a superseded row is renamed, and its id becomes a tombstone |
| `ident` | `order_attempts.status` by wire id |
| `flight` | the monitor's `_exit_intent_in_flight` entry of the position, kept in a file |
| `memory`, `seen` | the resolver's attempts, the fills it has been handed |
| `route`, `disp`, `probe` | the routes, the dispatch of an emitted intent cut at its awaits, the lookups that reconciliations await |
| `EmitExitIntent` .. `StartRoute` | `_emit_exit_intent`, then `_execute_exit_order` from reading the position's size and the row lookup over supersede or adoption and `create_exit_attempt` to the route |
| `Deny`, `Hold` | the arbiter refuses the intent, or holds it for want of a price, before anything is sent (`_clear_exit_intent_if_unsubmitted`, `_terminalize_arbiter_held_exit`) |
| `Claim`, `Refuse`, `RouteTimeout`, `ReplyRejected`, `Reply` | the route's ends and what the loop does about each, every call in order |
| `NoteFill`, `ConfirmLate` | a fill arriving at the resolver and at the rows, on the forwarder's thread |
| `FlightTimeout`, `BeginReconcile`, `Answer`, `ApplyAnswer`, `RemovePosition`, `Restart` | the in-flight timer, the sweep with its lookup and its verdict, removal, rehydration from row and file |

The base id is a function of position and reason, hence one value here; a superseding
attempt's id is salted with the row it supersedes. Lookups may lag, always: `Says` lets a
cancelled order be listed before its fills (`order_attempt_store.py:300-309`). Forced exits
are a reconciliation, a cancellation and a new intent, which the actions compose.
`StartRoute` waits for no earlier route, as the code does not. An in-flight entry without an
id is judged by `_position_to_client_order` (`position_monitor.py:2902`), which is not kept:
it may name the order asked about, none or another, and `MayOwnFlight` with `Released`
allows for each. `Executions` is what the exchange has executed. Left out: the arbiter's
books (ExitPipeline; here it may refuse any exit), reprices under a replacement id,
scale-outs, the statuses "duplicate" and "not_submitted", and the time after the market's
close.

### EntryGuard

| TLA+ | Code |
|---|---|
| `canon`, `released` | the record of `_accepted_entry_intents` for the key, and the terminal releases counted against the re-quote budget |
| `gate` | the order gate's record of each entry |
| `route`, `reply` | where each `route_order_async` stands, and the answer it got |
| `resting`, `polled` | the monitor's registered orders, and the one its poll awaits |
| `Validate`, `PassGate`, `SyntheticSuccess`, `Refuse`, `Send` | canonical check, gate, the duplicate answered with a success, refusals, the wire |
| `Answered`, `RecordFill`, `Ambiguous`, `Reconciled`, `GiveUp` | the route's ends: answers, an error after the send, the lookup that settles it, an exception or cancellation at any await with its clean-up |
| `TimeOut`, `CleanUp`, `CutOff` | the time-out of the route, which awaits the reset of the HTTP client (`order_router.py:21790`) before the clean-up of `:21795`, and the cancellation in that await, which skips the clean-up |
| `Prune`, `pruned` | `_prune_stale_entry_records`: a record pending for 10 s is dropped with its re-quote count unless the gate knows more of its order; history, whose record was |
| `SweepPending`, `PollOrder`, `PollAnswer`, `RecheckCancel` | the gate's sweep, the monitor's poll and its recheck |

The route works for at most 5 s, so age is abstracted to "the route is over, or has
timed out" (`Over`). One window of one process: the 900 s expiry, a restart (the records
are in memory only), collisions of client order ids within one time bucket, stalls of
the loop beyond 10 s, scaled orders, leases, amends, post-only reprices, conflict
answers (409) and exits are left out; the checks of prices and sizes are folded into
`Refuse`. The background poller's lookup of a SUBMISSION_UNKNOWN record asks by the
gate's id while the wire carries `intent.client_order_id` (`fills_poller.py:686-735`),
so it never resolves one and is no action. `ReleaseKey` frees by market and side without
an id, as the code does.

### FillLedger

| TLA+ | Code |
|---|---|
| `rows`, `lead`, `alias`, `processed`, `consumed` | `_fills`, the first authoritative id of `_fills_by_order`, `_live_router_fill_ids`, `_processed_fill_ids`, `_consumed_by_provisional` |
| `ingest`, `pending` | the trade whose ingestion holds the ledger's mutex; trades to be handed to `position_cache.on_fill` |
| `applied`, `pos`, `stamped` | `_applied_fill_ids`, the cached quantity, the fills created by `rest_synced_at` |
| `router`, `ack` | the steps of `_apply_order_result_to_canonical_state`, and the lots of the answer |
| `CheckProvisional`, `RecordProvisional`, `AliasProvisional`, `CountProvisional` | `ledger.on_fill` of the provisional fill, cut where another thread may come between, then `cache.on_fill` |
| `Ingest`, `InsertRow`, `FinishIngest`, `CountTrade` | `ingest_ws_fill` / `ingest_http_fills` cut at the awaited attribution flush, with promotion and siblings, then the delivery to the cache |
| `Fetch`, `SyncFromRest` | a reconciler reads positions; `sync_from_rest` replaces, stamps with *now* and marks the covered rows applied |

`bridge` says whether the websocket thread delivers trades as well as the loop; it is
chosen at the start and stays. The mutex is an `asyncio.Lock` used from two loops; where a
contended acquire from the second one raises, that source does not deliver the trade.
`unseen` is a history variable: the trades whose ingestion ended while the router stood
between its check and its alias, which on one loop is none.
Resting and still-accepted answers make no provisional fill. Left out: exits, a restart
(rows created before it are refused by the start guard), clock skew between exchange and
host, trades of unequal size, quarantined and unmatched fills, the dead-letter queue, the
eviction of applied ids at 10 000, the clean-up of markets a snapshot misses, paper and
scaled orders.

---

## 3. The runs

| Run | Question | Instance | Result |
|---|---|---|---|
| `exit_safe` | Do the pipeline's promises hold while worker and sweep interleave, and what is their only exception? | 2 reconcilers, 2 attempts, 2 lots, 1 crash | 677 242 states, holds: `TypeOK`, `AtMostOneLive`, `ReleasedIsDead`, `FillsAccounted`, `IdentityBeforeWire`, `ImplementsAuthority`, `ClosedStaysClosed` |
| `exit_resolves` | Does every unresolved attempt resolve? | 2 reconcilers, 2 attempts, 1 lot, 1 crash, `FairSpec` | 62 647 states, holds: `UnresolvedResolves` |
| `exit_stray` | Is an attempt released only when its own order is dead? | 2 reconcilers, 2 attempts, 1 lot | `RetryOnlyWhenDead` is violated |
| `floor_keeps` | In each process, the restarted one included, is the lock respected, its giveback remembered, and never higher than earned? | prices 1..2, breakevens 0 and 2, giveback 1, 1 crash, flushes may fail | 62 492 states, holds: `TypeOK`, `GivebackRemembered`, `FloorIsEarned`, `FloorNeverFalls`, `OrdinaryNeverUndercuts`, `ArchiverKeepsArchived` |
| `worker_serves` | Is every unresolved key looked up in the end? | 3 keys, 1 lookup per tick, back-off to 6 passes, 2 changes, `FairSpec` | 293 024 states, holds: `TypeOK`, `EveryKeyServed`, `WokenGoFirst` |
| `obligation_safe` | Do dispatch, fills, sweep and restart keep one order at work, under a row, and every fill? | 2 attempts, 2 lots, 1 lookup, 1 restart; lookups lag, routes overlap | 784 654 states, holds: `TypeOK`, `RowsOwnOrders`, `OneWorkingOrder`, `OneAwaited`, `LateFillsOnly`, `SentOnce` |
| `obligation_settles` | Does an order that died unfilled give the obligation back? | 2 attempts, 1 lot, 1 restart, `FairSpec` | 88 596 states, holds: `SettlesOrOverwritten` |
| `obligation_held_flight` | Always? | 2 attempts, 1 lot, `FairSpec` | `DeadOrderReleases` is violated |
| `entry_guard` | Can a side be entered twice, or its key be lost? | 3 entries, 1 re-quote | 837 532 states, holds: `TypeOK`, `OneOpenEntry`, `PendingWasTimedOut`, `RequoteBudget` |
| `entry_synthetic` | Does a submitted record mean a sent order? | 2 entries | `SubmittedWasSent` is violated |
| `fills_once` | Is every executed lot counted once, whoever reports it first? | 3 trades, any snapshots, with and without the websocket thread, `FairSpec` | 538 636 states, holds: `TypeOK`, `OneRecordPerLot`, `NeverCreditedTwice`, `LedgerConverges`, `PositionConverges` |
| `fills_sibling` | Do the two sources collapse to one mutation? | 2 trades | `SourcesCollapse` is violated |

What the properties say, briefly (each is stated with a comment in its module):

- `AtMostOneLive` counts an order from the moment its route is approved until the
  exchange has ended it, so it also rules out a route that was overtaken by a
  replacement before it reached the wire.
- `AtMostOneLive`, `ReleasedIsDead` and `FillsAccounted` hold until a pass strays, that is,
  acts on an attempt it was not about. The exception is exact: `RetryOnlyWhenDead`, the
  docstring's promise about every behaviour, is refuted by such a pass (finding 1), and
  nothing else the model has - timeouts, crashes, cancelled tasks, overlapping passes that
  do not stray - breaks any of the three.
- `ReleasedIsDead` is the strict reading of "confirmed dead": it includes routes that have
  not reached the exchange yet.
- `FillsAccounted`: the attempt's count never exceeds what its order executed, and equals
  it when the attempt is released in an open market. Route results and lookups report the
  same lots in different forms (increment and cumulative), in either order.
- `IdentityBeforeWire` is what makes "no identity, hence never sent, hence retry without
  a lookup" sound across a restart.
- `ClosedStaysClosed`: no late result, lookup or restart revives or rewrites a closed
  attempt.
- `FloorNeverFalls` and `OrdinaryNeverUndercuts` are about each process, and speak while the
  record that `find_record` returns is the arbiter's (`LockFound`). That fails only in a
  process which inherited a file whose newest record is the monitor's, until the arbiter's
  own record is the newest again; section 4 has the counterexample. `GivebackRemembered` has
  no such exception: what was declared to the process holds.
- `FloorIsEarned` is the dual of the ratchet: as a floor never falls within a process, one
  that is too high would hold every ordinary exit for the position's remaining life.
- `EveryKeyServed`: an unresolved key is taken up again and again, although the budget of
  each tick goes to the youngest first. What saves the old ones is that a key looked up
  without success backs off and makes room.
- `OneWorkingOrder` counts the orders the exchange may still execute; `RowsOwnOrders` is
  that each of them has an open row of its id. Two rows may be open at once: a late fill or
  reply reopens an ended row beside its successor, and `OneAwaited` is that this needs an
  execution. `LateFillsOnly` is that every fill handed over is credited to a row, except
  one of an order that was ruled dead and renamed while the resolver still held it open.
- `SentOnce` looks at the request leaving: the exchange must have no order of its id, also
  none whose first acknowledgement is still out.
- `SettlesOrOverwritten` is as much as holds of the promise that a dead order is settled and
  releases the entry: the exceptions it names are those of finding 2.
- `OneOpenEntry` counts orders that may execute or have executed, those aside whose record
  was dropped by age; `RequoteBudget` grants the budget anew for each record so dropped.
  `PendingWasTimedOut` says how a record can come to that: only by a route that timed out
  and is held up or cancelled in the reset of the connections. No answer, exception or
  cancellation elsewhere leaves an order unguarded.
- `OneRecordPerLot`, `NeverCreditedTwice` and `LedgerConverges` hold with the websocket
  thread, the production default, except for `Slipped`: the trades whose ingestion ended
  between the router's check and its alias. The converse, that a slipped trade does harm,
  is in section 4. On one loop `Slipped` is empty and the three are exact.

### Why the bounds are enough

- *Keys* (`worker_serves`): three keys for one lookup a tick are more than one tick
  serves; the maximal back-off leaves room for just these three. The code has four
  lookups a tick and 120 s: 96 keys if a lookup takes no time, about ten if each takes
  its timeout.
- *Attempts* (`obligation_safe`): the second supersedes the first while replies, lookups
  and fills of the first are still to come, which is where rows are renamed and
  reopened. The third takes the base id again, where ids repeat: 3 attempts with 1 lot
  and 1 restart (303 703 states), 3 with 2 lots and no restart (2 104 984 states), and 2
  attempts with two interchangeable lookups (5 515 261 states, `LookupSymmetry`) were
  checked by hand and hold as well. The theorems hold for any number of attempts, lots,
  lookups and restarts.
- *Entries* (`entry_guard`): the original, the one re-quote and one beyond the budget. Four
  entries (2 015 066 states with symmetry) were checked by hand. The theorems hold for any
  number.
- *Trades* (`fills_once`): one promoted or first, one sibling, one that comes after
  both; snapshots of every count. The theorems hold for any number.
- *Attempts* (`MaxAttempts`): a stale result or a stray pass concerns a previous attempt and
  the active one. The theorems hold for any number.
- *Lots* (`Qty`): 2 distinguishes no fill, partial and full, which is all the code's
  comparisons do.
- *Reconcilers*: the code has two sources of passes, the worker and the sweep.
- *Crashes* (`MaxCrashes`): one crash at any step, including inside an operation; after
  it the model runs on with the reloaded state. The invariants proved are inductive, so
  for them the bound is immaterial.
- *Prices* (`MaxPrice` = 2, breakevens 0 and 2, giveback 1): the comparisons are between
  watermark less giveback, breakeven, persisted floor and bid; each of the three that
  make the floor is the one that decides it in some state. The violating runs use the
  smallest values that show the violation.

Bounds are guards on `seq` and `crashes` only. The configurations over ExitPipeline turn
deadlock checking off because a settled generation with every attempt used has nothing
left to do; those over ExitObligation, ReconcileWorker and EntryGuard for the
like reason. ExitFloor's and FillLedger's never stop, so deadlock is checked there.

Every property of a passing run has a mutant in `PROJECT.json`: a definition changed the
way a plausible bug would change it (a timeout taken for death, cumulative fills added, a
stale book counted, the persisted floor left out), which makes TLC report the property
violated. The mutated forms stand beside the definitions they mutate.

---

## 4. What the runs found

Each violation is a run that states what the source says of itself, and finds a
behaviour of the modelled code that contradicts it.

1. **Evidence astray** (`exit_stray`, `exit_pipeline.py:670`). A pass reads attempt 1
   and awaits its lookup; meanwhile the other pass resolves it and a producer mints and
   sends attempt 2. The first pass applies attempt 1's terminal status, by position key,
   to attempt 2, which becomes RETRY_ELIGIBLE with its order live. `exit_arbiter.py:46`
   promises release on positive evidence only. Matching the evidence to the attempt's
   identity would remove the case; the worker and the sweep share no lock that would
   (`loop_15m.py:4335`).
2. **A late reply takes the in-flight entry** (`obligation_held_flight`,
   `position_monitor.py:3490`). `_mark_exit_intent_submitted` (`:2777`) compares no ids,
   so the reply of a superseded attempt names its dead order over its successor's. The
   order's row has been renamed, so no reconciliation may release the entry: the position
   cannot exit until its market closes.
3. **A duplicate of the dead** (`entry_synthetic`, `order_router.py:19882`). Only the
   route writes an entry's gate record, so a resting order that died unfilled keeps it
   SUBMITTED. The re-entry under the freed key is blocked by it, taken for a known
   duplicate, answered "accepted" and recorded as submitted, and nothing is sent. The
   re-quote budget thus never yields a second resting order; only IOC orders re-quote.
4. **Siblings of nothing** (`fills_sibling`, `fills_ledger.py:6481`). When a trade reaches
   the ledger before the router's callback, the provisional fill is suppressed and never
   added; but the alias it leaves makes every further trade of the order a "sibling
   already applied". One lot of two is missing from the position until a snapshot.

### Disagreements without a run of their own

The modules state these properties too, and TLC refutes each with the instance given;
they are not kept as runs.

- `ExitPipeline!AtMostOneLive`, `IdentityBeforeWire` and `ClosedStaysClosed` with
  `FlushMayFail = TRUE`, 1 crash: `_flush` ignores its
  failure (`exit_arbiter.py:427`), the order is sent although the file does not show it,
  and a restart mints another beside it.
- `ExitFloor!FloorNeverFalls` without its `LockFound` with 1 crash, `ArchivedIsTerminal`
  and `FirewallSeesLock` without a crash: the arbiter and the monitor each rewrite one
  file from a memory of their own (`position_exit_state.py:302`, `exit_arbiter.py:513`),
  so the monitor's save removes the arbiter's floor and giveback, a restart quotes a
  lower floor than the process before it, the new process finds the monitor's record
  over the arbiter's and may lower its own floor, an arbiter's flush brings an archived
  record back, and the firewall (`execution_risk_firewall.py:480`) looks for the lock in
  the store that never holds it. The acceptance tests use one store.
- At most one open attempt, every fill credited, and executions with what may still execute
  never above the position: each is refuted in ExitObligation (2 attempts, 2 lots). A lookup
  that lists a cancelled order before its fills (`order_attempt_store.py:300-309`) lets the
  row be superseded; the fill brings it back beside its successor or, where the row was
  renamed, finds none. And the successor asked for what the late fill has sold by then:
  what limits that is outside the module, in the position's size, which a reply lowers
  (`loop_15m.py:5058-5071`), the arbiter's own quantity and reduce-only at the exchange.
  `OneAwaited`, `LateFillsOnly` and `OneWorkingOrder` are what the rows do keep.
- `ExitObligation!CreditedToSender` (3 attempts, 1 lot): only the base id's row is looked
  up at dispatch (`loop_15m.py:4049`), so the third decision of one position and reason
  takes the consumed id of the first, and a late fill of the first order is credited to
  the third attempt, which has sent nothing (`order_attempt_store.py:1002`). `FreshWire`
  (3 attempts, 1 lot) is the reuse itself; that nothing is *sent* twice under it is
  `SentOnce`, which holds.
- `ExitObligation!FlightNamesOpen` (2 attempts, 1 lot), `RenamedIsSuperseded` (1, 1):
  the in-flight entry names no open row, and a lost race renames a row that is not
  superseded (`order_attempt_store.py:950`).
- `ExitObligation!FilledIsFull` (1, 2): a partial execution is acknowledged as FILLED
  (`settlement_aligned_exit.py:2381`). `DeadStaysDead` (2, 2): a reply
  revives an attempt that a lookup had found dead (`loop_15m.py:5085`).
- `ExitObligation!ResidualRetried` (1, 2, `FairSpec`): the residual of a dead partial fill
  is never retried (`loop_15m.py:5114`). `NeverDispatchedReleased` (1, 1, 1 restart): the
  release after 300 s is not reached, as the timer moves the attempt on after 15 s
  (`position_monitor.py:3341`). Both hold the entry rather than sell twice.
- `EntryGuard!OneOpenEntry` without its `pruned` (3 entries), and `RequoteBudget`
  likewise: a route times out after the send and is cancelled while it resets the HTTP
  client (`order_router.py:21790`), so the clean-up of `:21795` is skipped. The record
  stays pending and is dropped by age after 10 s (`order_intent_contract.py:241`), the
  gate's after 15 s, and a second entry goes out beside an order that may be working,
  with the re-quote count anew; `_enforce_entry_idempotency` says "Reject a second
  entry". It takes the cancellation of the route's caller, in practice the loop's stop,
  within the seconds of the reset.
- `EntryGuard!SweepSparesSent` (2 entries): the sweep closes the gate record of an order
  that was sent; `order_gate.py:631` says age cannot prove a sent order dead.
- `FillLedger!CountedOnce` (2 trades): a snapshot applied between the exchange's fill and
  the router's callback contains the lot, but the provisional fill is stamped with the
  callback's time, after the snapshot's, and is added again; `position_cache.py:2754-2766`
  promises exactly-once. A later snapshot corrects it.
- `FillLedger!RaceClosed` (2 trades): the websocket thread ingests between the router's
  row and its alias, and the provisional row stays beside the trade's, whose lot is added
  to the position by both; `fills_ledger.py:6648` says the race is closed. On one loop it
  is; with the thread exactly the trades of `Slipped` pass through, as proved.
- `ReconcileWorker!EveryKeyServed` with `Overflows = TRUE`, 2 keys,
  `MaxKeys = MaxLookups = 2`, `LookupTime = 0`, `BackoffMax = 4`, `MaxFailures = 3`: a key
  whose failures overflow the float keeps an elapsed back-off, and the exception ends
  every tick before the older keys. The code needs 1025 failures, some 34 hours, where a
  market lasts 15 minutes.

Noted while reading and not modelled: the hedge exit of `loop_15m.py:7794-7849` imports
`ExitContext` from `exit_arbiter`, which does not define it (`exit_pipeline.py:50` does),
so that path always ends in its exception handler. Woken keys beyond a tick's four
lookups lose their wake (`exit_reconcile_worker.py:217`). The recheck that confirms its
cancel unregisters an order without freeing the key (`resting_order_monitor.py:1561`), and
a time-out before the send leaves the key in reconciliation for the window; both fail
closed.

---

## 5. Fairness

Safety is checked and proved for `Spec`, without fairness. `FairSpec` assumes:

- `WF(Route(i))`: a route that can move does. The caller's `wait_for` bounds it, so some
  step - if only the timeout - is always taken.
- `WF(Pass(r))`: a pass, once begun, ends: its lookups are HTTP calls with a timeout,
  whose expiry is `LookupFindsNothing`.
- `WF(ListKey(Worker))`: the worker ticks for ever, even after an error in a tick, and
  its back-off is bounded (`_run`, `_apply_backoff`). That a Kalshi client can be had is
  taken for granted; without one no pass starts. Nothing is assumed of the sweep, which
  runs only when somebody wants to exit.
- `WF(CloseMarket)`: a 15-minute window ends.

Of ExitPipeline, nothing is assumed of the exchange's fills, of lookups finding
anything, of producers or of cancellations. In particular every lookup may stay
inconclusive until the market closes; that attempts still resolve rests on the
terminal-market rule, and removing the rule for stale SUBMITTING attempts (the mutant)
breaks it.

`ReconcileWorker!FairSpec`: the timer fires and a lookup is bounded by the client's
timeout, which is weak fairness of a tick, an answer and time passing. Which keys are
taken up is left to the code.

`ExitObligation!FairSpec`: a dispatch runs on, a route is bounded by its time-out, the
in-flight timer fires, fills are delivered, and an order the exchange holds is decided
and ended, since the window ends (all weak); the sweep recurs, and a lookup made often
enough finds the order (strong, per wire id, as another reconciliation may hold the entry
meanwhile).

`FillLedger!FairSpec`: weak fairness throughout. The router's call returns, the mutex's
holder gets on, the poller asks again for everything within twice its interval, and the
reconcilers fetch and apply snapshots on their timers. The exchange owes no execution.
EntryGuard is checked for safety only.

---

## 6. What is proved

TLAPS proves, for every value of the constants:

| Theorem | Statement | Assumes |
|---|---|---|
| `ExitPipelineProofs!TypeCorrect` | `Spec => []TypeOK` | - |
| `ExitPipelineProofs!IdentityIsDurable` | `Spec => []IdentityBeforeWire` | flushes succeed |
| `ExitPipelineProofs!ClosedIsFinal` | `Spec => ClosedStaysClosed` | flushes succeed |
| `ExitPipelineProofs!OneOrderAtMost` | `Spec => []AtMostOneLive` | flushes succeed (straying is excepted in the property) |
| `ExitPipelineProofs!ReleaseNeedsDeath` | `Spec => []ReleasedIsDead` | flushes succeed (straying is excepted in the property) |
| `ExitPipelineProofs!FillsAreAccounted` | `Spec => []FillsAccounted` | flushes succeed (straying is excepted in the property) |
| `ExitPipelineProofs!Implements` | `Spec => ImplementsAuthority` | flushes succeed (straying is excepted in the property) |
| `ExitFloorProofs!TypeCorrect` | `Spec => []TypeOK` | - |
| `ExitFloorProofs!FloorsAreEarned` | `Spec => []FloorIsEarned` | - |
| `ExitFloorProofs!FloorIsMonotone` | `Spec => FloorNeverFalls` | - (`LockFound` in the property) |
| `ExitFloorProofs!OrdinaryExitsHonourTheFloor` | `Spec => OrdinaryNeverUndercuts` | - (`LockFound` in the property) |
| `ExitFloorProofs!GivebackIsRemembered` | `Spec => []GivebackRemembered` | - |
| `ExitFloorProofs!ArchivedStays` | `Spec => ArchiverKeepsArchived` | - (restarts are excepted in the property) |
| `ExitObligationProofs!Types` | `Spec => []TypeOK` | - |
| `ExitObligationProofs!SendsOnce` | `Spec => SentOnce` | - |
| `ExitObligationSafetyProofs!Holds` | `Spec => []IInv` (the inductive invariant) | - |
| `ExitObligationSafetyProofs!FillsFound` | `Spec => []LateFillsOnly` | - |
| `ExitObligationSafetyProofs!OrdersOwned` | `Spec => []RowsOwnOrders` | - |
| `ExitObligationSafetyProofs!OneOrder` | `Spec => []OneWorkingOrder` | - |
| `ExitObligationSafetyProofs!AwaitsOne` | `Spec => []OneAwaited` | - |
| `ReconcileWorkerProofs!WorkerTypeOK` | `Spec => []TypeOK` | - |
| `ReconcileWorkerProofs!WokenKeysLead` | `Spec => WokenGoFirst` | - |
| `EntryGuardProofs!EntryTypeOK` | `Spec => []TypeOK` | - |
| `EntryGuardProofs!OneEntryOpen` | `Spec => []OneOpenEntry` | - |
| `EntryGuardProofs!PendingRecordTimedOut` | `Spec => []PendingWasTimedOut` | - |
| `EntryGuardProofs!KeyWithinBudget` | `Spec => []RequoteBudget` | - |
| `FillLedgerProofs!FillTypeOK` | `Spec => []TypeOK` | - |
| `FillLedgerProofs!ProvisionalStandsAlone` | `Spec => []OneRecordPerLot` | - (`Slipped` in the property) |
| `FillLedgerProofs!OneMutationPerLot` | `Spec => []NeverCreditedTwice` | - (`Slipped` in the property) |

The one hypothesis is `~FlushMayFail`, which the code does not guarantee: a flush can fail,
and section 4 shows what happens then. Everything else the code may do - passes and routes
that overlap, lookups that lag, the websocket thread, restarts - is in the theorems; where
it breaks a promise, the property itself names the exception, through a history variable no
action reads (`strayed`, `pruned`, `unseen`) or a condition on the state (`LockFound`,
`LateFillsOnly`). So each theorem says that its exception is the *only* way the promise is
lost, and the runs and section 4 show that it is one. The only global assumptions are the
constants' types and that the worker's keys are finitely many:
`BoundsAreNat`, `PipelineConstants`, `FloorConstants`, `ObligationConstants`,
`WorkerConstants`, `EntryConstants` and `FillConstants`, which TLC evaluates on every run.

### The arguments

**Identity and closing.** `IdentityInv` adds to `TypeOK` that the file's row is the
active attempt's (`Durable`) and that every attempt with a route beyond approval or an
order anywhere carries its own number as identity (`Named`). With it a restart comes back
to the very attempt that was active, so a closed one cannot return.

**One order at most.** `AtMostOneLive` says nothing about why a second attempt is minted
only when the first is dead, so it is not inductive. `SafetyInv` says it: numbers above
`seq` are untouched (`UnusedInv`); what a route and its order may jointly be
(`OrderInv`); what a reply on its way back may claim about its order (`ReplyInv`); a
closed attempt's order is beyond trading (`ClosedInv`); while the active attempt is being
routed it is SUBMITTING and its fills are still uncounted (`ActiveInv`); and a pass holds
the identities of one order, whose route is over, and an answer that is true of that order
(`ReconcilerInv`), whichever attempt is active by then. What is inductive is `UntilAstray
== strayed \/ SafetyInv`: a pass about a replaced attempt is harmless until it changes the
active one, and that step sets `strayed`.

**Refinement.** From `UntilAstray`, a step either leaves the set of orders that can trade
and `seq` alone, mints into an empty set (`Grant`), empties it (`Revoke`), or loses a
freshly minted number with the process (`Waste`). With `strayed` set it is an `Astray`
step, for which only the monotony of orders and numbers is needed (`OrdersAdvance`).

**Earned floors.** `EarnedInv` extends the bound to every record of both memories and of
the file, whichever was flushed, lost or reloaded, and adds that the arbiter's record is
never archived. It needs no assumption on flushes or crashes.

**The floor in each process.** `ProcessInv`: the monitor's record carries neither floor
nor giveback, in either memory and in the file; until the arbiter's store is created the
process has quoted nothing and been told nothing; from then on the floor of the arbiter's
record is at least the last one quoted, and once a giveback has been declared that record
is the newest and carries it. What a restart takes away is only that the arbiter's record
is the newest before anything was declared, which is `LockFound` in the two properties
that need it.

**Archived in memory.** The store that archives a record is loaded (`ArchiverLoaded`), so
from then on every `save` starts from the marked record and keeps the mark.

**Sent once.** A request leaves only with a claim of a PERSISTED identity row. The
invariant `Typed` says that no order exists whose identity row is absent or PERSISTED, that
a route under way has a row, and that an answered lookup is about a wire id; it needs
nothing of what lookups say.

**One working order, and its rows.** An ended row may be opened again by its order's
executions, so the rows' states alone prove nothing. `IInv` follows the orders instead. An
attempt goes out only while no row is open and no order at work (`CreatedInv`,
`RoutingOpen`), an order at work has an open row that asked for its size
(`WorkHasOpenRow`), and a row ends only when its order's identity is settled or the whole
position is seen sold (`OverSettled`), for the answers of lookups under way are true of
their orders as far as "dead" goes (`AnswersTrue`; what they count may lag). That fills end
rows rightly is counting: `EnoughAsked`, that a row asks for at least the lots not seen sold
when it was made, and `GotCounts`, that it has counted the fills credited to it. Wire ids
are kept apart by `WireOnce` and `SaltsFollow`: an id salted with an attempt exists only
once that attempt is renamed. `OneAwaited` then needs no more: what opens a row beside
another is an order that has traded (`OpensTraded`).

**The worker.** An ordering of a finite set is a sequence of all its elements (an injection
between sets of one size is a surjection), so a woken key has a place in the tick's list
unless the budget cuts it off among other woken keys. Back-offs are bounded because a power
of two counts the subsets of a set and hence is a number.

**One open entry.** `OneOpenEntry` does not say why a second entry finds the key taken.
`Holding` does: an entry with an open order holds the key's record, of which there is one,
unless that record was dropped by age; an entry with a running route, or watched or polled
by the monitor, holds it without exception; a pending record's route runs or has timed
out; before the wire there is no order; an answer that proves an order dead or refused is
true of it. A release then can only come from a holder whose order is beyond executing.
For the budget, `Budget` adds that the orders whose entry has lost the key are no more than
the releases counted and a budget's worth for each record dropped by age.

**One row, one mutation.** `Books` holds whoever interleaves: what a book knows of a trade
has executed, and what the cache has seen is in the ledger. `Beside` says which trades may
stand beside the provisional row: those that came in unseen, and the one being ingested.
`Mutations` is the disjunction the property hides: either only trades were added, each at
most once, or the router's fill was, and besides it trades that came in unseen only, and
the order is *tied*, so that no other trade will ever be added. On one loop `Alone` adds
that nothing comes in unseen.

---

## 7. What is only model-checked, and what is not modelled

*Only model-checked*: liveness (`UnresolvedResolves`, `EveryKeyServed`,
`SettlesOrOverwritten`, `LedgerConverges`, `PositionConverges`), which
is out of the prover's reach, and the violations. Every invariant and every action property
that a passing run checks is proved as well. No recursive definition is used, so nothing
depends on induction over data: the worker's order of keys is a property of a sequence, not
a filter of one, and sums of lots are sizes of sets.

*Not modelled*: the components marked `not_modelled` in `PROJECT.json` with their
reasons. Of the exit path: the router's pre-trade gates beyond "refused before the wire",
the exit conditions (any may fire at any time here), the EV gate of the
settlement-aligned resolver and the stop candidate. Of the ledger: its persistence, PnL
and replay. Pure I/O, numeric forecasting and the quarantined legacy trees are left out
for good. The repository has about 895 000 lines, most of them strategies, dashboards,
reports and superseded trees without a protocol; the models stand for a small share of
its lines, the part that decides whether an order is sent, replaced and counted.

---

## 8. Plan

Done: ExitAttempt, ExitPipeline, SingleExitAuthority, ExitFloor, ExitObligation,
ReconcileWorker, EntryGuard, FillLedger, and the proofs of their safety. Next, in the
order of what the program would lose most by:

| Module | Source | Abstract specification and properties | Bounds | Theorems |
|---|---|---|---|---|
| FillPersistence | `fills_ledger.py:1795-1938` | the writer's flushes and the dead-letter buffer, which is cleared after its awaits; a replay loses no fill | 3 fills, 1 crash | no fill lost |
| ContractLease | `contract_lease.py`, `order_state_machine.py` | one holder per contract; legal edges | 2 contracts, 2 owners | mutual exclusion |
| BookFeed | `coalescing_buffer.py`, gap recovery of `ws.py` | latest wins; no book with an unnoticed gap | 4 sequence numbers | no lost latest value |
| CircuitBreaker, TradingHalt | `circuit_breaker.py`, `kill_switches.py`, `trading_circuit_breaker.py` | latched until its reset; bounded probes while half open | 2 switches, 3 failures | latch |
| SlotAllocator | `global_slot_allocator.py`, `atomic_transaction.py` | never above the cap, nothing leaked | 2 slots, 3 owners | cap |
| CycleDrawdown | `cycle_drawdown.py` | the limit per cycle | 2 cycles | - |
| StartupGate | `live_runtime_state.py`, `startup_state.py` | no entry before preflight | - | - |

Compositions worth having afterwards: FillLedger with EntryGuard (the re-entry that reads
the cached position), ExitPipeline with ExitObligation (the arbiter's
attempt and the durable row of the same order), and ExitPipeline with ExitFloor (an
attempt minted only with a price at or above the lock).

Proof work that remains on what exists: the composition with the position's size, which a
reply lowers, and the arbiter's quantity, under which it can be asked whether what is sold
and may still be sold ever exceeds the position; and a variant of the pipeline in which
evidence is matched to the attempt it was gathered for, where `strayed` would never be set
and the theorems lose their exception.

---

## 9. How to run

Inside this directory:

```
tlc -workers 2 -config ExitPipelineSafe.cfg ExitPipeline.tla
tlc -workers 2 -config ExitFloorKeeps.cfg ExitFloor.tla
tlc -workers 2 -config ExitObligationSafe.cfg ExitObligation.tla
tlc -workers 2 -config ReconcileWorkerServes.cfg ReconcileWorker.tla
tlc -workers 2 -config EntryGuardKey.cfg EntryGuard.tla
tlc -workers 2 -config FillLedgerOnce.cfg FillLedger.tla
tlapm ExitPipelineProofs.tla
tlapm ExitFloorProofs.tla
tlapm ExitObligationProofs.tla
tlapm ExitObligationSafetyProofs.tla
tlapm ReconcileWorkerProofs.tla
tlapm EntryGuardProofs.tla
tlapm FillLedgerProofs.tla
```

Each run's module, configuration and expected result are in `PROJECT.json`. The largest
pass takes under two minutes on four cores.
