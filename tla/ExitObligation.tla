--------------------------- MODULE ExitObligation ---------------------------
(***************************************************************************)
(* The exit obligation of one position while its market is open: the       *)
(* monitor's in-flight entry, the durable exit attempts, the router's      *)
(* order-identity rows and the in-memory resolver, which all name an order *)
(* by the client_order_id it carries on the wire.                          *)
(*                                                                         *)
(* The id derived from position and reason is one value, Base, however     *)
(* often the exit is decided.  An attempt that supersedes attempt a        *)
(* carries an id salted with a, written here as a itself.  A row that has  *)
(* been superseded is renamed: its id becomes a tombstone.                 *)
(*                                                                         *)
(* Left out: the arbiter's books (ExitPipeline; it may refuse any exit     *)
(* here), reprices under a replacement id, scale-outs, and what happens    *)
(* once the market has closed.                                             *)
(***************************************************************************)
EXTENDS Integers, FiniteSets, FiniteSetsExt, TLC

CONSTANTS MaxAttempts,  \* bound on exit_order_attempts rows
          Size,         \* lots of the position
          MaxRestarts,  \* bound on process restarts
          Lookups       \* reconciliations that may be under way at once

ASSUME ObligationConstants == /\ MaxAttempts \in Nat \ {0}
                              /\ Size \in Nat \ {0}
                              /\ MaxRestarts \in Nat

VARIABLES
    row,      \* exit_order_attempts
    ident,    \* order_attempts.status, by wire id
    credit,   \* the attempt each fill is credited to, 0 for none
    flight,   \* _exit_intent_in_flight, kept in a file
    open,     \* the monitor holds the position
    seen,     \* the fills the ledger has handed to the resolver
    memory,   \* the resolver's attempts
    route,    \* the route call of each attempt
    disp,     \* the dispatch of an emitted exit intent
    probe,    \* the lookups that reconciliations await
    order,    \* the exchange's orders, by wire id
    restarts

durable  == <<row, ident, credit>>
process  == <<memory, route, disp, probe>>
vars     == <<durable, flight, open, seen, process, order, restarts>>

Attempt == 1..MaxAttempts
Base    == 0
Legacy  == MaxAttempts + 1      \* the id rehydration derives
NoWire  == MaxAttempts + 2
Wire    == 0..Legacy
Fill    == Wire \X (1..Size)

(***************************************************************************)
(* The exit attempt's states.  CANCELED stands for REJECTED_EXCHANGE as    *)
(* well: both come from a terminal lookup and have the same edges.         *)
(***************************************************************************)
Working   == {"ACKNOWLEDGED", "ACKNOWLEDGED_LATE", "RESTING", "PARTIALLY_FILLED"}
Unproven  == {"SUBMITTING", "SUBMISSION_UNKNOWN", "RESOLVING_ON_EXCHANGE"}
Nonterminal == {"INTENT_PERSISTED"} \cup Unproven \cup Working
Terminal  == {"FILLED", "CANCELED", "TERMINAL_UNFILLED", "SUPERSEDED"}

Edges(s) ==
    CASE s = "INTENT_PERSISTED" ->
           {"SUBMITTING", "CANCELED", "SUBMISSION_UNKNOWN",
            "RESOLVING_ON_EXCHANGE", "TERMINAL_UNFILLED"}
      [] s = "SUBMITTING" ->
           {"ACKNOWLEDGED", "SUBMISSION_UNKNOWN", "CANCELED",
            "RESOLVING_ON_EXCHANGE", "PARTIALLY_FILLED", "FILLED",
            "TERMINAL_UNFILLED"}
      [] s = "SUBMISSION_UNKNOWN" ->
           (Nonterminal \ {"INTENT_PERSISTED", "SUBMITTING", s})
             \cup {"FILLED", "CANCELED", "TERMINAL_UNFILLED"}
      [] s = "RESOLVING_ON_EXCHANGE" ->
           (Nonterminal \ {"INTENT_PERSISTED", "SUBMITTING", s})
             \cup {"FILLED", "CANCELED", "TERMINAL_UNFILLED"}
      [] s \in {"ACKNOWLEDGED", "ACKNOWLEDGED_LATE"} ->
           {"RESTING", "PARTIALLY_FILLED", "FILLED", "CANCELED",
            "TERMINAL_UNFILLED", "RESOLVING_ON_EXCHANGE"}
      [] s = "RESTING" ->
           {"PARTIALLY_FILLED", "FILLED", "CANCELED", "TERMINAL_UNFILLED",
            "RESOLVING_ON_EXCHANGE"}
      [] s = "PARTIALLY_FILLED" ->
           {"FILLED", "CANCELED", "TERMINAL_UNFILLED", "RESOLVING_ON_EXCHANGE"}
      [] s \in {"CANCELED", "TERMINAL_UNFILLED"} ->
           {"SUPERSEDED", "FILLED", "PARTIALLY_FILLED"}
      [] s = "FILLED" -> {"SUPERSEDED"}
      [] s = "SUPERSEDED" -> {"FILLED", "PARTIALLY_FILLED"}
      [] OTHER -> {}

Row   == [state : {"none"} \cup Nonterminal \cup Terminal, wire : Wire,
          renamed : BOOLEAN, qty : 0..Size, got : Nat]
NoRow == [state |-> "none", wire |-> Base, renamed |-> FALSE, qty |-> 0, got |-> 0]

IdentDead  == {"FILLED", "REJECTED", "CANCELED"}
IdentState == {"none", "PERSISTED", "SUBMITTING", "SUBMISSION_UNKNOWN",
               "ACKNOWLEDGED"} \cup IdentDead

FlightState == {"none", "EXECUTION_PENDING", "SUBMITTED", "SUBMISSION_UNKNOWN",
                "RECONCILIATION_REQUIRED"}
Flight(s, w) == [state |-> s, wire |-> w]
NoFlight     == Flight("none", NoWire)

Order   == [state : {"none", "sent", "resting", "dead", "rejected"},
            size : 0..Size, filled : 0..Size]
NoOrder == [state |-> "none", size |-> 0, filled |-> 0]

Dispatch == [step : {"idle", "emitted", "superseding", "creating", "created"},
             attempt : 0..MaxAttempts, found : {"none"} \cup Nonterminal \cup Terminal,
             wire : Wire \cup {NoWire}, qty : 0..Size]
AtRest   == [step |-> "idle", attempt |-> 0, found |-> "none", wire |-> NoWire,
             qty |-> 0]

NoProbe == [wire |-> NoWire, answer |-> "none"]

TypeOK ==
    /\ row \in [Attempt -> Row]
    /\ ident \in [Wire -> IdentState]
    /\ credit \in [Fill -> 0..MaxAttempts]
    /\ flight \in [state : FlightState, wire : Wire \cup {NoWire}]
    /\ open \in BOOLEAN
    /\ seen \in SUBSET Fill
    /\ memory \in [Attempt -> {"none", "open", "closed"}]
    /\ route \in [Attempt -> {"idle", "routing", "sent", "done"}]
    /\ disp \in Dispatch
    /\ probe \in [Lookups -> [wire : Wire \cup {NoWire},
                              answer : {"none", "awaited", "nothing", "working",
                                        "executed", "empty"}]]
    /\ order \in [Wire -> Order]
    /\ restarts \in 0..MaxRestarts

Init ==
    /\ row = [a \in Attempt |-> NoRow]
    /\ ident = [w \in Wire |-> "none"]
    /\ credit = [f \in Fill |-> 0]
    /\ flight = NoFlight
    /\ open = TRUE
    /\ seen = {}
    /\ memory = [a \in Attempt |-> "none"]
    /\ route = [a \in Attempt |-> "idle"]
    /\ disp = AtRest
    /\ probe = [l \in Lookups |-> NoProbe]
    /\ order = [w \in Wire |-> NoOrder]
    /\ restarts = 0

-----------------------------------------------------------------------------
(* The attempt store.                                                      *)

Exists(a) == row[a].state # "none"
Fresh     == {a \in Attempt : ~Exists(a)}
Active(r) == {a \in Attempt : r[a].state \in Nonterminal}

\* get_exit_attempt_by_client_order_id; at most one, the id is UNIQUE.
Exact(r, w)     == {a \in Attempt : r[a].state # "none" /\ r[a].wire = w /\ ~r[a].renamed}
Tombstone(r, w) == {a \in Attempt : r[a].wire = w /\ r[a].renamed}

\* get_exit_attempt_by_wire_client_order_id.
OnWireOpen(r, w) == {a \in Exact(r, w) : r[a].state \in Nonterminal}
OnWire(r, w) == IF Exact(r, w) # {} THEN Exact(r, w) ELSE Tombstone(r, w)

\* transition_exit_attempt: an edge, or the same state again.
MayMove(r, a, s) == s = r[a].state \/ s \in Edges(r[a].state)
MoveAttempt(r, a, s) == IF MayMove(r, a, s) THEN [r EXCEPT ![a].state = s] ELSE r

\* _transition_exit_attempt: the monitor finds the row by its exact id.
Moves(r, w, s) == \E a \in Exact(r, w) : MayMove(r, a, s)
Move(r, w, s)  == [a \in Attempt |->
                     IF a \in Exact(r, w) /\ MayMove(r, a, s)
                     THEN [r[a] EXCEPT !.state = s] ELSE r[a]]

Inserted(r, a, w, q) ==
    [r EXCEPT ![a] = [state |-> "INTENT_PERSISTED", wire |-> w,
                      renamed |-> FALSE, qty |-> q, got |-> 0]]

\* apply_exit_fill: a dead order's partial execution is evidence only.
FillTargetAnyFill(x) == "FILLED"
FillTarget(x) ==
    IF x.got + 1 >= x.qty THEN "FILLED"
    ELSE IF x.state \in Terminal THEN x.state ELSE "PARTIALLY_FILLED"
Filled(x) ==
    [x EXCEPT !.got = @ + 1,
              !.state = IF FillTarget(x) \in Edges(@) THEN FillTarget(x) ELSE @]

(* The in-flight entry.                                                    *)

\* _mark_exit_intent_submission_unknown: nothing without an entry; the row
\* is the one of the entry's id.
MarkUnknown(r, fl) ==
    /\ flight' = IF fl = NoFlight THEN fl ELSE [fl EXCEPT !.state = "SUBMISSION_UNKNOWN"]
    /\ row' = IF fl = NoFlight THEN r ELSE Move(r, fl.wire, "SUBMISSION_UNKNOWN")

\* _mark_exit_intent_reconciled and the clearing that follows it.  An entry
\* without an id is judged by _position_to_client_order, the id last marked or
\* submitted, which is not kept here: it may be w, none, or another.
OwnsFlight(w)    == flight.wire = w
MayOwnFlight(w)  == flight.wire \in {w, NoWire}
Released(w)      == (IF MayOwnFlight(w) THEN {NoFlight} ELSE {})
                      \cup (IF OwnsFlight(w) THEN {} ELSE {flight})

-----------------------------------------------------------------------------
(* Dispatch.                                                               *)

\* _emit_exit_intent: an exit condition fires and nothing is in flight.
EmitExitIntent ==
    /\ open /\ flight = NoFlight /\ disp = AtRest
    /\ Cardinality(seen) < Size
    /\ flight' = Flight("EXECUTION_PENDING", NoWire)
    /\ disp' = [AtRest EXCEPT !.step = "emitted"]
    /\ UNCHANGED <<durable, open, seen, memory, route, probe, order, restarts>>

\* A guard refuses the intent before a durable attempt exists.
Suppress ==
    /\ disp.step = "emitted"
    /\ disp' = AtRest
    /\ flight' = NoFlight
    /\ UNCHANGED <<durable, open, seen, memory, route, probe, order, restarts>>

\* _execute_exit_order reads the size, derives Base and looks its row up.
LookUp ==
    LET d == [disp EXCEPT !.qty = Size - Cardinality(seen)] IN
    /\ disp.step = "emitted" /\ d.qty > 0
    /\ disp' = IF Exact(row, Base) = {}
               THEN [d EXCEPT !.step = "creating", !.wire = Base]
               ELSE LET a == CHOOSE a \in Exact(row, Base) : TRUE
                    IN [d EXCEPT !.step = "superseding", !.attempt = a,
                                 !.found = row[a].state]
    /\ UNCHANGED <<durable, flight, open, seen, memory, route, probe, order, restarts>>

\* An attempt this call did not create: marked in flight, then unknown.
Adopt(r, w) ==
    /\ MarkUnknown(Move(r, w, "SUBMITTING"), Flight("EXECUTION_PENDING", w))
    /\ disp' = AtRest

\* transition_exit_attempt to SUPERSEDED.  It reads the row outside of the write
\* lock; of its two updates the first renames whatever is there, and only the
\* second checks the version read.  The fills come from another thread.
Renamed(r, a) == [r EXCEPT ![a].renamed = TRUE]
CanSupersede(s) == "SUPERSEDED" \in Edges(s)
Supersede ==
    LET a == disp.attempt
        w == row[a].wire
    IN
    /\ disp.step = "superseding"
    /\ \/ /\ disp.found \in Terminal /\ CanSupersede(row[a].state)
          /\ row' = [Renamed(row, a) EXCEPT ![a].state = "SUPERSEDED"]
          /\ disp' = [disp EXCEPT !.step = "creating", !.wire = a, !.attempt = 0]
          /\ UNCHANGED flight
       \/ /\ disp.found \in Terminal /\ row[a].state # disp.found
          /\ Adopt(Renamed(row, a), w)
       \/ /\ disp.found \notin Terminal \/ ~CanSupersede(row[a].state)
          /\ Adopt(row, w)
    /\ UNCHANGED <<ident, credit, open, seen, memory, route, probe, order, restarts>>

\* create_exit_attempt, one transaction; a conflict is adopted.
CreateAttempt ==
    /\ disp.step = "creating"
    /\ IF Active(row) # {}
       THEN \E a \in Active(row) : Adopt(row, row[a].wire)
       ELSE /\ Fresh # {}
            /\ row' = Inserted(row, Min(Fresh), disp.wire, disp.qty)
            /\ disp' = [disp EXCEPT !.step = "created", !.attempt = Min(Fresh)]
            /\ UNCHANGED flight
    /\ UNCHANGED <<ident, credit, open, seen, memory, route, probe, order, restarts>>

\* finalize_order_identity: an id whose identity row is terminal is replaced
\* by a new one.
IdentityUpserted(w) == "PERSISTED"
IdentityOf(w) == IF ident[w] = "none" THEN "PERSISTED"
                 ELSE IF ident[w] \in IdentDead THEN "replaced" ELSE ident[w]

\* _mark_exit_intent_in_flight, finalize_order_identity, begin_attempt.  With
\* a replaced id the two identities differ and the exit is refused.  An earlier
\* route may still be under way.
StartRoute ==
    LET a == disp.attempt
        w == row[a].wire
    IN
    /\ disp.step = "created"
    /\ row' = Move(row, w, "SUBMITTING")
    /\ IF IdentityOf(w) = "replaced"
       THEN /\ flight' = Flight("RECONCILIATION_REQUIRED", w)
            /\ UNCHANGED <<ident, memory, route>>
       ELSE /\ flight' = Flight("EXECUTION_PENDING", w)
            /\ ident' = [ident EXCEPT ![w] = IdentityOf(w)]
            /\ memory' = [memory EXCEPT ![a] = "open"]
            /\ route' = [route EXCEPT ![a] = "routing"]
    /\ disp' = AtRest
    /\ UNCHANGED <<credit, open, seen, probe, order, restarts>>

-----------------------------------------------------------------------------
(* The route of attempt a.                                                 *)

EndRoute(a) == route' = [route EXCEPT ![a] = "done"]
Close(a)    == memory' = [memory EXCEPT ![a] = "closed"]

\* approve_intent refuses, after the sweep that precedes it: the entry is
\* released only if it names no order.
Deny(a) ==
    /\ route[a] = "routing" /\ EndRoute(a)
    /\ flight' = IF flight = Flight("EXECUTION_PENDING", NoWire) THEN NoFlight ELSE flight
    /\ UNCHANGED <<durable, open, seen, memory, disp, probe, order, restarts>>

\* It holds the intent for want of a price: nothing was sent, so the order the
\* entry names is dead, unless the entry has moved on.
Hold(a) ==
    /\ route[a] = "routing" /\ EndRoute(a)
    /\ \/ /\ flight.state = "EXECUTION_PENDING" /\ Moves(row, flight.wire, "TERMINAL_UNFILLED")
          /\ row' = Move(row, flight.wire, "TERMINAL_UNFILLED")
          /\ flight' = NoFlight
          /\ Close(a)
       \/ /\ flight.state # "EXECUTION_PENDING" \/ ~Moves(row, flight.wire, "TERMINAL_UNFILLED")
          /\ IF flight.wire = NoWire THEN UNCHANGED <<row, flight>> ELSE MarkUnknown(row, flight)
          /\ UNCHANGED memory
    /\ UNCHANGED <<ident, credit, open, seen, disp, probe, order, restarts>>

\* claim_for_submission, then the request; without the claim nothing is sent.
Claim(a) ==
    LET w == row[a].wire IN
    /\ route[a] = "routing"
    /\ IF ident[w] = "PERSISTED"
       THEN /\ ident' = [ident EXCEPT ![w] = "SUBMITTING"]
            /\ order' = [order EXCEPT ![w].state = "sent", ![w].size = row[a].qty]
            /\ route' = [route EXCEPT ![a] = "sent"]
            /\ UNCHANGED <<row, flight>>
       ELSE /\ EndRoute(a)
            /\ MarkUnknown(row, flight)
            /\ UNCHANGED <<ident, order>>
    /\ UNCHANGED <<credit, open, seen, memory, disp, probe, restarts>>

\* The router refuses before any request, provably: never_dispatched.
Refuse(a) ==
    LET w == row[a].wire IN
    /\ route[a] = "routing"
    /\ ident' = [ident EXCEPT ![w] = IF @ = "PERSISTED" THEN "REJECTED" ELSE @]
    /\ Close(a) /\ EndRoute(a)
    /\ \/ /\ Moves(row, w, "TERMINAL_UNFILLED") /\ MayOwnFlight(w)
          /\ row' = Move(row, w, "TERMINAL_UNFILLED")
          /\ flight' = NoFlight
       \/ /\ ~Moves(row, w, "TERMINAL_UNFILLED") \/ ~OwnsFlight(w)
          /\ MarkUnknown(Move(row, w, "TERMINAL_UNFILLED"), flight)
    /\ UNCHANGED <<credit, open, seen, disp, probe, order, restarts>>

\* wait_for expires, or the call raises: the route is cancelled where it is.
RouteTimeout(a) ==
    LET w == row[a].wire IN
    /\ route[a] \in {"routing", "sent"}
    /\ EndRoute(a)
    /\ ident' = [ident EXCEPT ![w] =
                   IF @ \in {"PERSISTED", "SUBMITTING"} THEN "SUBMISSION_UNKNOWN" ELSE @]
    /\ MarkUnknown(row, flight)
    /\ UNCHANGED <<credit, open, seen, memory, disp, probe, order, restarts>>

\* The venue refuses the order.
ReplyRejected(a) ==
    LET w == row[a].wire IN
    /\ route[a] = "sent" /\ order[w].state = "rejected"
    /\ EndRoute(a) /\ Close(a)
    /\ ident' = [ident EXCEPT ![w] = IF @ \in IdentDead THEN @ ELSE "REJECTED"]
    /\ MarkUnknown(row, flight)
    /\ UNCHANGED <<credit, open, seen, disp, probe, order, restarts>>

\* What the reply says of the order, and what the caller has recorded once
\* note_ack and _mark_exit_intent_submitted are done.
Executed(w) == order[w].filled
Final(w)    == order[w].state = "dead"
NoteAck(a)  ==
    LET w == row[a].wire
    IN IF Final(w) /\ Executed(w) > 0 /\ memory[a] = "open"
       THEN Move(row, w, "FILLED") ELSE row
Submitted(r, w) == IF flight = NoFlight THEN r ELSE Move(r, w, "ACKNOWLEDGED")
SubmittedFlight(w) == IF flight = NoFlight THEN NoFlight ELSE Flight("SUBMITTED", w)
AckedIdent(w) ==
    [ident EXCEPT ![w] = IF @ \in IdentDead THEN @
                         ELSE IF Final(w) /\ Executed(w) > 0 THEN "FILLED"
                         ELSE "ACKNOWLEDGED"]

AtWork(w)   == order[w].state \in {"sent", "resting"}
Executions  == {f \in Fill : f[2] <= order[f[1]].filled}
TotalFilled == Cardinality(Executions)
CanFinalize(w) ==
    /\ Final(w) /\ Executed(w) = order[w].size
    /\ TotalFilled = Size
    /\ \A v \in Wire : ~AtWork(v)

Reply(a) ==
    LET w == row[a].wire
        r == Submitted(NoteAck(a), w)
    IN
    /\ route[a] = "sent" /\ order[w].state \in {"resting", "dead"}
    /\ EndRoute(a)
    /\ memory' = [memory EXCEPT ![a] = IF Final(w) /\ Executed(w) > 0 THEN "closed" ELSE @]
    /\ \/ \* AUTHORITATIVE_POSITION_FLAT
          /\ CanFinalize(w)
          /\ ident' = [ident EXCEPT ![w] = "FILLED"]
          /\ IF Moves(r, w, "FILLED")
             THEN row' = Move(r, w, "FILLED") /\ flight' = NoFlight /\ open' = FALSE
             ELSE row' = r /\ flight' = SubmittedFlight(w) /\ UNCHANGED open
       \/ \* executed, but the finalizer is not satisfied: the re-arm that
          \* follows a dead partial finds the entry's id and does nothing
          /\ Executed(w) > 0
          /\ ident' = AckedIdent(w)
          /\ row' = MoveAttempt(r, a, IF Final(w) THEN "PARTIALLY_FILLED" ELSE "RESTING")
          /\ flight' = SubmittedFlight(w)
          /\ UNCHANGED open
       \/ \* nothing executed
          /\ Executed(w) = 0
          /\ ident' = AckedIdent(w)
          /\ MarkUnknown(r, SubmittedFlight(w))
          /\ UNCHANGED open
    /\ UNCHANGED <<credit, seen, disp, probe, order, restarts>>

-----------------------------------------------------------------------------
(* The exchange.                                                           *)

Exchange(w, o) ==
    /\ order' = [order EXCEPT ![w] = o]
    /\ UNCHANGED <<durable, flight, open, seen, process, restarts>>

Accept(w)  == order[w].state = "sent" /\ Exchange(w, [order[w] EXCEPT !.state = "resting"])
Decline(w) == order[w].state = "sent" /\ Exchange(w, [order[w] EXCEPT !.state = "rejected"])
Trade(w) ==
    LET o == order[w] IN
    /\ o.state = "resting"
    /\ Exchange(w, [o EXCEPT !.filled = @ + 1,
                             !.state = IF o.filled + 1 = o.size THEN "dead" ELSE @])
\* An IOC remainder, an expiry, a forced cancel.
Cancel(w)  == order[w].state = "resting" /\ Exchange(w, [order[w] EXCEPT !.state = "dead"])

-----------------------------------------------------------------------------
(* Fills.                                                                  *)

\* note_fill: an open in-memory attempt takes the fill to the row of its exact
\* id; without one the durable store is searched.  Delivered at least once.
NoteFill(f) ==
    LET w == f[1]
        holders == {a \in Attempt : memory[a] = "open" /\ row[a].wire = w}
        owners  == IF holders # {} THEN Exact(row, w) ELSE OnWire(row, w)
    IN
    /\ f[2] <= order[w].filled
    /\ seen' = seen \cup {f}
    /\ memory' = IF holders = {} THEN memory
                 ELSE [memory EXCEPT ![Min(holders)] = "closed"]
    /\ IF owners = {} \/ credit[f] # 0
       THEN UNCHANGED <<row, credit>>
       ELSE \E a \in owners : /\ row' = [row EXCEPT ![a] = Filled(@)]
                              /\ credit' = [credit EXCEPT ![f] = a]
    /\ UNCHANGED <<ident, flight, open, route, disp, probe, order, restarts>>

\* The ledger looks a fill's order up and finds whose it is.
ConfirmLate(w) ==
    /\ order[w].filled > 0
    /\ Moves(row, w, "ACKNOWLEDGED_LATE")
    /\ row' = Move(row, w, "ACKNOWLEDGED_LATE")
    /\ row' # row
    /\ UNCHANGED <<ident, credit, flight, open, seen, process, order, restarts>>

\* remove_position once the ledger's fills make the position flat.
RemovePosition ==
    /\ open /\ Cardinality(seen) >= Size
    /\ open' = FALSE
    /\ flight' = NoFlight
    /\ UNCHANGED <<durable, seen, process, order, restarts>>

-----------------------------------------------------------------------------
(* Timeouts and reconciliation.                                            *)

\* _is_exit_intent_in_flight, 15 s on.
FlightTimeout ==
    /\ open
    /\ flight.state \in {"EXECUTION_PENDING", "SUBMITTED", "RECONCILIATION_REQUIRED"}
    /\ MarkUnknown(row, flight)
    /\ UNCHANGED <<ident, credit, open, seen, process, order, restarts>>

\* The entry's own id, or one the stale-obligation sweep lists.
DueListed(w) == \E a \in Exact(row, w) : row[a].state \in Unproven
Due(w) == \/ w = flight.wire
          \/ \E a \in Exact(row, w) : row[a].state \in Unproven \cup {"INTENT_PERSISTED"}

Dispatching(a) == disp.step = "created" /\ disp.attempt = a

\* 300 s after creation no worker is mid-dispatch any more.
NeverDispatched(w) ==
    \E a \in Exact(row, w) : /\ row[a].state = "INTENT_PERSISTED"
                             /\ ident[w] \in {"none", "PERSISTED"}

\* _reconcile_exit_intent up to its lookup; younger than 300 s, the attempt
\* is moved on to RESOLVING_ON_EXCHANGE whatever its state.
BeginReconcile(l, w) ==
    /\ open /\ probe[l] = NoProbe /\ Due(w)
    /\ \A a \in Exact(row, w) : ~Dispatching(a)
    /\ \/ /\ NeverDispatched(w)
          /\ row' = Move(row, w, "TERMINAL_UNFILLED")
          /\ flight' \in Released(w)
          /\ UNCHANGED probe
       \/ /\ row' = Move(row, w, "RESOLVING_ON_EXCHANGE")
          /\ probe' = [probe EXCEPT ![l] = [wire |-> w, answer |-> "awaited"]]
          /\ UNCHANGED flight
    /\ UNCHANGED <<ident, credit, open, seen, memory, route, disp, order, restarts>>

\* What the lookup may say: nothing, the truth, or, of an order that ended,
\* that it ended before the fills it counts.
Says(w) ==
    {"nothing"} \cup
    (IF order[w].state = "resting" THEN {"working"}
     ELSE IF order[w].state # "dead" THEN {}
     ELSE {"empty"} \cup (IF order[w].filled > 0 THEN {"executed"} ELSE {}))

Said == {"nothing", "working", "executed", "empty"}
Answer(l, s) ==
    /\ probe[l].answer = "awaited"
    /\ s \in Says(probe[l].wire)
    /\ probe' = [probe EXCEPT ![l].answer = s]
    /\ UNCHANGED <<durable, flight, open, seen, memory, route, disp, order, restarts>>

\* A terminal snapshot without executions; not finding the order is no proof.
ProvesDeadIfAbsent(s) == s \in {"empty", "nothing"}
ProvesDead(s) == s = "empty"

ApplyAnswer(l) ==
    LET w == probe[l].wire
        s == probe[l].answer
    IN
    /\ s \notin {"none", "awaited"}
    /\ probe' = [probe EXCEPT ![l] = NoProbe]
    /\ \/ /\ s # "working" /\ ~ProvesDead(s)
          /\ UNCHANGED <<row, ident, flight>>
       \/ /\ s = "working"
          /\ row' = Move(row, w, "RESTING")
          /\ flight' = IF flight.state = "SUBMISSION_UNKNOWN"
                       THEN [flight EXCEPT !.state = "SUBMITTED"] ELSE flight
          /\ UNCHANGED ident
       \/ /\ ProvesDead(s)
          /\ IF ident[w] = "none"
             THEN UNCHANGED <<row, ident, flight>>
             ELSE /\ ident' = [ident EXCEPT ![w] = "CANCELED"]
                  /\ row' = Move(row, w, "CANCELED")
                  /\ flight' \in IF Moves(row, w, "CANCELED") THEN Released(w) ELSE {flight}
    /\ UNCHANGED <<credit, open, seen, memory, route, disp, order, restarts>>

-----------------------------------------------------------------------------
(* A restart.  The position is rehydrated, and with it the in-flight entry *)
(* from the open row, or else from the file.  A placeholder in the file,   *)
(* without an id, is given the legacy id and a row.                        *)

FlightOfRow(s) == s
FlightOf(s) == CASE s \in {"INTENT_PERSISTED", "SUBMITTING"} -> "EXECUTION_PENDING"
                 [] s \in Working -> "SUBMITTED"
                 [] OTHER -> "SUBMISSION_UNKNOWN"

\* The file consulted before the rows.
RehydrateFileFirst ==
    IF flight # NoFlight /\ flight.wire = NoWire /\ Exact(row, Legacy) = {}
    THEN /\ flight' = [flight EXCEPT !.wire = Legacy]
         /\ Fresh # {} /\ row' = Inserted(row, Min(Fresh), Legacy, 0)
    ELSE UNCHANGED <<row, flight>>
Rehydrate ==
    IF Active(row) # {}
    THEN /\ \E a \in Active(row) : flight' = Flight(FlightOf(row[a].state), row[a].wire)
         /\ UNCHANGED row
    ELSE IF flight # NoFlight /\ flight.wire = NoWire
    THEN /\ flight' = [flight EXCEPT !.wire = Legacy]
         /\ IF Exact(row, Legacy) # {} THEN UNCHANGED row
            ELSE Fresh # {} /\ row' = Inserted(row, Min(Fresh), Legacy, 0)
    ELSE UNCHANGED <<row, flight>>

Restart ==
    /\ restarts < MaxRestarts
    /\ restarts' = restarts + 1
    /\ Rehydrate
    /\ memory' = [a \in Attempt |-> "none"]
    /\ route' = [a \in Attempt |-> IF route[a] = "idle" THEN "idle" ELSE "done"]
    /\ disp' = AtRest
    /\ probe' = [l \in Lookups |-> NoProbe]
    /\ UNCHANGED <<ident, credit, open, seen, order>>

Next ==
    \/ EmitExitIntent \/ Suppress \/ LookUp \/ Supersede \/ CreateAttempt \/ StartRoute
    \/ \E a \in Attempt : \/ Deny(a) \/ Hold(a) \/ Claim(a) \/ Refuse(a) \/ RouteTimeout(a)
                          \/ ReplyRejected(a) \/ Reply(a)
    \/ \E w \in Wire : Accept(w) \/ Decline(w) \/ Trade(w) \/ Cancel(w)
    \/ \E f \in Fill : NoteFill(f)
    \/ \E w \in Wire : ConfirmLate(w)
    \/ RemovePosition \/ FlightTimeout
    \/ \E l \in Lookups : \/ \E w \in Wire : BeginReconcile(l, w)
                          \/ \E s \in Said : Answer(l, s)
                          \/ ApplyAnswer(l)
    \/ Restart

Spec == Init /\ [][Next]_vars

LookupSymmetry == Permutations(Lookups)

(***************************************************************************)
(* What makes the obligation correct.                                      *)
(***************************************************************************)
WorkingWires == {w \in Wire : AtWork(w)}

\* At most one exit order of the position can trade, whatever a lookup counts
\* and however dispatches, routes, superseding attempts and restarts overlap
\* (create_exit_attempt refuses a second nonterminal attempt, and only a
\* terminal snapshot without executions ends one).
OneWorkingOrder == Cardinality(WorkingWires) <= 1

\* A request goes out only on an id the exchange has no order for: not again
\* while the first answer is awaited, by a retry, after a restart, or when a
\* later attempt takes a consumed id (claim_for_submission).
SentOnce ==
    [][\A a \in Attempt : route[a] # "sent" /\ route'[a] = "sent"
                             => order[row[a].wire].state = "none"]_vars

\* An order that can still trade has a row that says so, from which a restart
\* recovers it.
RowsOwnOrders ==
    \A w \in WorkingWires :
        \E a \in Attempt : row[a].wire = w /\ row[a].state \in Nonterminal

\* Two attempts are never open, each still waiting for its order's first
\* execution: what opens a row beside another is an order that has traded, by
\* the reply or the ledger's late confirmation (create_exit_attempt).
Awaiting(a) == a \in Active(row) /\ order[row[a].wire].filled = 0
OneAwaited  == \A a, b \in Attempt : Awaiting(a) /\ Awaiting(b) => a = b

\* A fill the ledger has handed over is on some attempt, unless its order was
\* ruled dead and the attempt renamed while the resolver still held it open:
\* the fill then looks for the exact id only, and misses the tombstone
\* (note_fill).  Nothing else makes a fill go missing.
LateFillsOnly ==
    \A f \in seen : \/ credit[f] # 0
                    \/ ident[f[1]] \in IdentDead /\ Tombstone(row, f[1]) # {}

-----------------------------------------------------------------------------
(* What the source says of itself and the code does not do.                *)

\* While an attempt is open the in-flight entry names it: "Only one exit intent
\* can be in-flight per position at a time", and a newer obligation is not to
\* be corrupted by the fallout of an older one.
FlightNamesOpen == \A a \in Active(row) : flight.wire \in {row[a].wire, NoWire}

\* A superseding attempt is a new order: its wire id has not been consumed.
FreshWire == \A a \in Attempt :
                 row[a].state = "INTENT_PERSISTED" => ident[row[a].wire] \notin IdentDead

\* FILLED is reached when the executions reach the request.
FilledIsFull == \A a \in Attempt :
                    row[a].state = "FILLED" => order[row[a].wire].filled >= row[a].qty

\* A fill is recorded on the attempt that sent the order.
CreditedToSender == \A f \in Fill :
                        credit[f] # 0 => route[credit[f]] \in {"sent", "done"}

\* A transition that loses its race changes nothing.
RenamedIsSuperseded ==
    [][\A a \in Attempt : row'[a].renamed /\ ~row[a].renamed
                             => row'[a].state = "SUPERSEDED"]_vars

\* A dead order's attempt is not brought back to a nonterminal state.
DeadStaysDead ==
    [][\A a \in Attempt : row[a].state \in Terminal /\ row'[a].state \in Nonterminal
                             => AtWork(row[a].wire)]_vars

-----------------------------------------------------------------------------
(* Liveness.  The dispatch runs on, the route is bounded by its timeout,   *)
(* poll and sweep recur, the exchange settles what it accepted, and a      *)
(* lookup made often enough finds an order the exchange has.               *)

RouteStep(a) == Deny(a) \/ Hold(a) \/ Claim(a) \/ Refuse(a) \/ RouteTimeout(a) \/ ReplyRejected(a) \/ Reply(a)
FairSpec ==
    /\ Spec
    /\ WF_vars(LookUp \/ Supersede \/ CreateAttempt \/ StartRoute)
    /\ \A a \in Attempt : WF_vars(RouteStep(a))
    /\ \A w \in Wire : /\ WF_vars(Accept(w) \/ Decline(w))
                        /\ WF_vars(Trade(w) \/ Cancel(w))
                        /\ SF_vars(\E l \in Lookups : BeginReconcile(l, w))
                        /\ SF_vars(\E l \in Lookups, s \in Said \ {"nothing"} :
                                       probe[l].wire = w /\ Answer(l, s))
    /\ \A f \in Fill : WF_vars(NoteFill(f) /\ f \notin seen)
    /\ WF_vars(FlightTimeout)
    /\ \A l \in Lookups : /\ WF_vars(\E s \in Said : Answer(l, s))
                          /\ WF_vars(ApplyAnswer(l))
    /\ WF_vars(RemovePosition)

Gone(w) == order[w].state = "dead" /\ order[w].filled = 0

\* An order that ended without an execution gives the position back to its exit
\* conditions, whatever became of its acknowledgement.
DeadOrderReleases ==
    \A w \in Wire : Gone(w) /\ flight.wire = w ~> flight.wire # w \/ ~open

\* It does not hold the position's exits for ever: its attempt becomes terminal
\* unless the late reply of an older route has taken the in-flight entry from
\* the open attempt, and an entry that names it is given back unless its row
\* has been renamed meanwhile (_reconcile_exit_intent, the stale-obligation sweep).
FlightHasRow == Exact(row, flight.wire) # {}
HeldByDead ==
    /\ open
    /\ \/ FlightNamesOpen /\ \E a \in Active(row) : Gone(row[a].wire)
       \/ FlightHasRow /\ \E w \in Wire : flight.wire = w /\ Gone(w)
SettlesOrOverwritten == []<>~HeldByDead

\* The residual of a dead partial is exited, or at least tried again.
ResidualRetried ==
    \A w \in Wire :
        order[w].state = "dead" /\ order[w].filled \in 1..(order[w].size - 1)
            ~> ~open \/ flight.wire # w

\* An attempt that never reached dispatch does not keep the position's exits.
NeverDispatchedReleased ==
    \A a \in Attempt :
        row[a].state = "INTENT_PERSISTED" /\ route[a] = "idle"
            ~> route[a] # "idle" \/ ~open \/ row[a].state \in Terminal
=============================================================================
