---------------------------- MODULE ExitPipeline ----------------------------
(***************************************************************************)
(* How one position generation is exited: producers ask the arbiter for an *)
(* attempt (approve_intent), a route carries the attempt's order to the    *)
(* exchange and reports back (route_order_async, post_route_update), and   *)
(* reconcilers - the background worker and the sweep at the head of every  *)
(* exit decision - ask the exchange about attempts whose outcome is not    *)
(* known (reconcile_attempt).  All of it runs on one event loop, so a step *)
(* here is the code between two awaits.  The process may crash and restart *)
(* from the attempt file; orders already on the wire live on.              *)
(*                                                                         *)
(* Every operation of the store touches the record of one position key, so *)
(* one generation is modelled.  Time is abstract: an attempt is stale once *)
(* its route is gone (30 s against the 20 s route timeout), and back-off   *)
(* only delays a reconciler.                                               *)
(*                                                                         *)
(* Worker and sweep share no lock.  A pass reads the attempt, awaits, and  *)
(* then acts on whatever attempt the key has by then.  The history         *)
(* variable strayed, which no action reads, remembers that this once hit   *)
(* an attempt the pass was not about: the promises hold until then.        *)
(***************************************************************************)
EXTENDS ExitAttempt

CONSTANTS Reconcilers,    \* coroutines that run reconcile_attempt
          Worker,         \* the one among them that runs periodically
          MaxCrashes,     \* bound on process crashes
          FlushMayFail    \* may the attempt file's rewrite fail, unnoticed?

ASSUME PipelineConstants == /\ Worker \in Reconcilers
                            /\ MaxCrashes \in Nat
                            /\ FlushMayFail \in BOOLEAN

VARIABLES
    att,        \* every attempt minted, by number: the active one and closed
    active,     \* the number of the active attempt, or None
    seq,        \* the last number minted; never taken back, so that orders
                \* keep distinct names when the file's attempt_seq is lost
    disk,       \* the active row of the attempt file, as last flushed
    route,      \* the route of each attempt's order
    reply,      \* the OrderResult on its way back to the route's caller
    reconciler, \* each reconciler's position in reconcile_attempt
    order,      \* each attempt's order as the exchange has it
    executed,   \* lots of that order executed so far
    market,     \* "open", or "terminal": past close and the safety margin
    crashes,    \* crashes so far
    strayed     \* history: has a pass acted on an attempt not its own?

store    == <<att, active, seq, disk>>
caller   == <<route, reply>>
exchange == <<order, executed, market>>
vars     == <<store, caller, reconciler, exchange, crashes, strayed>>

None == 0

OrderState == {"none", "wire", "live", "dead"}
RouteState == {"idle", "approved", "gated", "transmitted", "replied", "done"}

\* A lookup's answer: a snapshot of one order, or nothing.
Answer   == [kind : {"none", "working", "terminal", "unrecognised"},
             filled_cc : 0..Qty]
NoAnswer == [kind |-> "none", filled_cc |-> 0]

\* coid and oid are the identities on the copy of the attempt the reconciler
\* read before it awaited the lookup.
ReconcilerState == [pc : {"idle", "listed", "asking", "answered"},
                    coid : OrderRef, oid : OrderRef, answer : Answer]
AtRest == [pc |-> "idle", coid |-> Unbound, oid |-> Unbound,
           answer |-> NoAnswer]

TypeOK ==
    /\ att \in [Id -> Attempt]
    /\ active \in OrderRef
    /\ seq \in OrderRef
    /\ disk \in [active : OrderRef, attempt : Attempt]
    /\ route \in [Id -> RouteState]
    /\ reply \in [Id -> Reply]
    /\ reconciler \in [Reconcilers -> ReconcilerState]
    /\ order \in [Id -> OrderState]
    /\ executed \in [Id -> 0..Qty]
    /\ market \in {"open", "terminal"}
    /\ crashes \in 0..MaxCrashes
    /\ strayed \in BOOLEAN

Init ==
    /\ att = [i \in Id |-> Idle]
    /\ active = None
    /\ seq = 0
    /\ disk = [active |-> None, attempt |-> Idle]
    /\ route = [i \in Id |-> "idle"]
    /\ reply = [i \in Id |-> NoReply]
    /\ reconciler = [r \in Reconcilers |-> AtRest]
    /\ order = [i \in Id |-> "none"]
    /\ executed = [i \in Id |-> 0]
    /\ market = "open"
    /\ crashes = 0
    /\ strayed = FALSE

-----------------------------------------------------------------------------
(* The attempt store.                                                      *)

\* _flush: a failed rewrite is logged and otherwise ignored.
Row(n, a) == [active |-> n, attempt |-> IF n = None THEN Idle ELSE a]
\* Mutant: only a live row is rewritten; clearing it stays in memory.
FlushLiveRow(row) == disk' = IF row.active = None THEN disk ELSE row

Flush(row) == \/ disk' = row
              \/ FlushMayFail /\ UNCHANGED disk

\* save_active, or clear_active once the attempt is FLAT.
Save(a) ==
    /\ att' = [att EXCEPT ![active] = a]
    /\ active' = IF a.state = "FLAT" THEN None ELSE active
    /\ UNCHANGED seq
    /\ Flush(Row(active', a))

\* A method turns the active attempt, if there is one, into a.
Apply(a) == IF active = None THEN UNCHANGED store ELSE Save(a)

-----------------------------------------------------------------------------
(* Producers: approve_intent.                                              *)

\* Mutant: a lost acknowledgement does not count as unresolved.
MayMintOverUnknown ==
    active # None => att[active].state \in {"RETRY_ELIGIBLE", "ACK_UNKNOWN"}

MayMint == active # None => att[active].state = "RETRY_ELIGIBLE"

\* The selected proposal becomes attempt seq + 1, saved with its identity
\* before anything is awaited.  q is min(proposal, remaining) lots.
ApproveIntent(q) ==
    /\ market = "open"
    /\ MayMint
    /\ seq < MaxAttempts
    /\ seq' = seq + 1
    /\ active' = seq + 1
    /\ LET a == Bind(Minted(q), seq + 1, Unbound) IN
           /\ att' = [att EXCEPT ![seq + 1] = a]
           /\ Flush(Row(seq + 1, a))
    /\ route' = [route EXCEPT ![seq + 1] = "approved"]
    /\ UNCHANGED <<reply, reconciler, exchange, crashes, strayed>>

\* On a terminal market arbitrate() only closes a resolved attempt.
ArbitrateTerminalMarket ==
    /\ market = "terminal"
    /\ active # None /\ att[active].state = "RETRY_ELIGIBLE"
    /\ Save(MarkFlat(att[active]))
    /\ UNCHANGED <<caller, reconciler, exchange, crashes, strayed>>

-----------------------------------------------------------------------------
(* Routes: route_order_async under the caller's timeout.                   *)

SetRoute(i, pc) == route' = [route EXCEPT ![i] = pc]

\* The caller has its result and the route is gone.
EndRoute(i) == SetRoute(i, "done") /\ reply' = [reply EXCEPT ![i] = NoReply]

Replies(i, o, cc, oid) ==
    /\ SetRoute(i, "replied")
    /\ reply' = [reply EXCEPT ![i] =
                    [outcome |-> o, filled_cc |-> cc, order_id |-> oid]]
    /\ UNCHANGED <<store, reconciler, exchange, crashes, strayed>>

\* validate_attempt_token: the order must ride the live, SUBMITTING attempt.
ValidAttemptToken(i) == active = i /\ att[i].state = "SUBMITTING"

Gate(i) ==
    /\ route[i] = "approved"
    /\ ValidAttemptToken(i)
    /\ SetRoute(i, "gated")
    /\ UNCHANGED <<store, reply, reconciler, exchange, crashes, strayed>>

GateRejects(i) ==
    /\ route[i] = "approved"
    /\ ~ValidAttemptToken(i)
    /\ Replies(i, "never_sent", 0, Unbound)

\* A firewall or guard of the router refuses the order before the wire.
RefuseLocally(i) ==
    /\ route[i] = "gated"
    /\ Replies(i, "never_sent", 0, Unbound)

Transmit(i) ==
    /\ route[i] = "gated"
    /\ SetRoute(i, "transmitted")
    /\ order' = [order EXCEPT ![i] = IF market = "open" THEN "wire" ELSE "dead"]
    /\ UNCHANGED <<store, reply, reconciler, executed, market, crashes, strayed>>

\* The venue's response, or the order snapshot the router looked up.
Respond(i) ==
    /\ route[i] = "transmitted"
    /\ \/ /\ order[i] = "live"
          /\ Replies(i, "working", executed[i], i)
       \/ /\ order[i] = "dead" /\ executed[i] > 0
          /\ Replies(i, "executed", executed[i], i)
       \/ /\ order[i] = "dead" /\ executed[i] = 0
          /\ Replies(i, "dead", 0, i)

\* The router's own timeout, a transport error: the outcome is unknown.
RespondUnknown(i) ==
    /\ route[i] \in {"gated", "transmitted"}
    /\ Replies(i, "unknown", 0, Unbound)

\* The caller resumes with the result.
PostRouteUpdate(i) ==
    /\ route[i] = "replied"
    /\ Apply(RouteUpdate(att[active], reply[i]))
    /\ EndRoute(i)
    /\ UNCHANGED <<reconciler, exchange, crashes, strayed>>

Routing(i) == route[i] \in {"approved", "gated", "transmitted", "replied"}

\* The caller's wait_for expires, or the route raises.
RouteTimeout(i) ==
    /\ Routing(i)
    /\ Apply(AckUnknown(att[active]))
    /\ EndRoute(i)
    /\ UNCHANGED <<reconciler, exchange, crashes, strayed>>

\* The producer's task is cancelled: CancelledError passes every handler.
RouteCancelled(i) ==
    /\ Routing(i)
    /\ EndRoute(i)
    /\ UNCHANGED <<store, reconciler, exchange, crashes, strayed>>

-----------------------------------------------------------------------------
(* Reconcilers: reconcile_attempt, from the worker or the sweep.           *)

SetReconciler(r, s) == reconciler' = [reconciler EXCEPT ![r] = s]

\* Mutant: SUBMITTING is left out, however stale.
RequiresReconcileIgnoringStale ==
    active # None /\ att[active].state \in MustReconcile

\* positions_requiring_reconcile; a SUBMITTING attempt is stale once no
\* route is left that could still report for it.
RequiresReconcile ==
    /\ active # None
    /\ \/ att[active].state \in MustReconcile
       \/ att[active].state = "SUBMITTING" /\ ~Routing(active)

\* The key joins this pass's list; the keys before it are awaited first.
ListKey(r) ==
    /\ reconciler[r].pc = "idle"
    /\ RequiresReconcile
    /\ SetReconciler(r, [AtRest EXCEPT !.pc = "listed"])
    /\ UNCHANGED <<store, caller, exchange, crashes, strayed>>

\* A resolved attempt on a terminal market is closed at once.
Settle(a) == IF a.state = "RETRY_ELIGIBLE" /\ market = "terminal"
             THEN MarkFlat(a) ELSE a

Begun(a) == IF NeverTransmitted(a)
            THEN Settle(ResolveReconcile(BeginReconcile(a), NoTransmit))
            ELSE BeginReconcile(a)

\* The attempt listed has been replaced by one whose route is still running:
\* staleness is tested when the key is listed, not when it is taken up.
Overtaken == active # None /\ Routing(active)

\* reconcile_attempt up to its first await.  An attempt with no identity
\* never reached the wire and is resolved without a lookup.
ReconcileBegin(r) ==
    /\ reconciler[r].pc = "listed"
    /\ IF active # None /\ ~NeverTransmitted(att[active])
       THEN SetReconciler(r, [pc |-> "asking",
                              coid |-> att[active].client_order_id,
                              oid |-> att[active].order_id,
                              answer |-> NoAnswer])
       ELSE SetReconciler(r, AtRest)
    /\ Apply(Begun(att[active]))
    /\ strayed' = (strayed \/ Overtaken)
    /\ UNCHANGED <<caller, exchange, crashes>>

\* The order identities a pass looks up: order_id, then client_order_id.
Targets(r) == {reconciler[r].oid, reconciler[r].coid} \ {Unbound}

Answered(r, answer) ==
    SetReconciler(r, [reconciler[r] EXCEPT !.pc = "answered", !.answer = answer])

\* A lookup answers with a snapshot of the order.  The exchange knows an
\* order once it has left the wire; what it reports of a settled market's
\* order is a status the pipeline recognises.
LookupFinds(r, i) ==
    /\ reconciler[r].pc = "asking"
    /\ i \in Targets(r)
    /\ \/ /\ order[i] = "live"
          /\ \E k \in {"working", "unrecognised"} :
                Answered(r, [kind |-> k, filled_cc |-> executed[i]])
       \/ /\ order[i] = "dead"
          /\ Answered(r, [kind |-> "terminal", filled_cc |-> executed[i]])
    /\ UNCHANGED <<store, caller, exchange, crashes, strayed>>

\* It fails, or the order is not in the views it searches.
LookupFindsNothing(r) ==
    /\ reconciler[r].pc = "asking"
    /\ Answered(r, NoAnswer)
    /\ UNCHANGED <<store, caller, exchange, crashes, strayed>>

\* Mutant: an order that cannot be found is dead.
EvidenceOfAbsence(answer) ==
    Found(answer.kind \in {"terminal", "none"}, answer.filled_cc)

EvidenceOf(answer) ==
    CASE answer.kind = "terminal" -> Found(TRUE, answer.filled_cc)
      [] answer.kind = "working"  -> Found(FALSE, answer.filled_cc)
      [] answer.kind = "none" /\ market = "terminal" -> Found(TRUE, 0)
      [] OTHER -> Inconclusive

\* The rest of reconcile_attempt: the evidence goes to whichever attempt is
\* active under the position key now.
Resolved(a, answer) ==
    Settle(IF answer.kind = "unrecognised" THEN a
           ELSE ResolveReconcile(a, EvidenceOf(answer)))

\* Evidence about another order changes the active attempt.
Misapplied(r) ==
    /\ active # None /\ active \notin Targets(r)
    /\ Resolved(att[active], reconciler[r].answer) # att[active]

ReconcileResolve(r) ==
    /\ reconciler[r].pc = "answered"
    /\ Apply(Resolved(att[active], reconciler[r].answer))
    /\ strayed' = (strayed \/ Misapplied(r))
    /\ SetReconciler(r, AtRest)
    /\ UNCHANGED <<caller, exchange, crashes>>

-----------------------------------------------------------------------------
(* The exchange (external).                                                *)

Accept(i) ==
    /\ order[i] = "wire"
    /\ \E s \in {"live", "dead"} : order' = [order EXCEPT ![i] = s]
    /\ UNCHANGED <<store, caller, reconciler, executed, market, crashes, strayed>>

\* A fill; the last one ends the order.
Execute(i, cc) ==
    /\ order[i] = "live"
    /\ executed[i] + cc <= att[i].qty_cc
    /\ executed' = [executed EXCEPT ![i] = @ + cc]
    /\ order' = [order EXCEPT ![i] =
                    IF executed[i] + cc = att[i].qty_cc THEN "dead" ELSE @]
    /\ UNCHANGED <<store, caller, reconciler, market, crashes, strayed>>

\* An immediate-or-cancel remainder is cancelled, a resting order expires.
Cancel(i) ==
    /\ order[i] = "live"
    /\ order' = [order EXCEPT ![i] = "dead"]
    /\ UNCHANGED <<store, caller, reconciler, executed, market, crashes, strayed>>

\* The window ends: the exchange ends every order, then the margin passes.
CloseMarket ==
    /\ market = "open"
    /\ market' = "terminal"
    /\ order' = [i \in Id |-> IF order[i] = "none" THEN "none" ELSE "dead"]
    /\ UNCHANGED <<store, caller, reconciler, executed, crashes, strayed>>

-----------------------------------------------------------------------------
(* Crash and restart.                                                      *)

\* Every coroutine is gone; the row the file holds is loaded again.
Restart(row, used) ==
    LET a == Reloaded(row.attempt)
        retired == a.state = "RETRY_ELIGIBLE" /\ market = "terminal"
    IN  /\ crashes < MaxCrashes
        /\ crashes' = crashes + 1
        /\ seq' = used
        /\ active' = IF retired THEN None ELSE row.active
        /\ att' = IF row.active = None THEN att
                  ELSE [att EXCEPT ![row.active] = a]
        /\ Flush(Row(active', a))
        /\ route' = [i \in Id |-> IF route[i] = "idle" THEN "idle" ELSE "done"]
        /\ reply' = [i \in Id |-> NoReply]
        /\ reconciler' = [r \in Reconcilers |-> AtRest]
        /\ UNCHANGED <<exchange, strayed>>

Crash == Restart(disk, seq)

\* approve_intent saves the attempt, then saves it again with its identity;
\* the process dies in between.
CrashInApprove(q) ==
    /\ market = "open"
    /\ MayMint
    /\ seq < MaxAttempts
    /\ Restart(Row(seq + 1, Minted(q)), seq + 1)

-----------------------------------------------------------------------------
Produce == (\E q \in 1..Qty : ApproveIntent(q)) \/ ArbitrateTerminalMarket

Route(i) == \/ Gate(i) \/ GateRejects(i) \/ RefuseLocally(i) \/ Transmit(i)
            \/ Respond(i) \/ RespondUnknown(i) \/ PostRouteUpdate(i)
            \/ RouteTimeout(i) \/ RouteCancelled(i)

Reconcile(r) == \/ ListKey(r) \/ ReconcileBegin(r)
                \/ (\E i \in Id : LookupFinds(r, i)) \/ LookupFindsNothing(r)
                \/ ReconcileResolve(r)

Venue == \/ \E i \in Id : Accept(i) \/ Cancel(i)
         \/ \E i \in Id, cc \in 1..Qty : Execute(i, cc)
         \/ CloseMarket

Fault == Crash \/ \E q \in 1..Qty : CrashInApprove(q)

Next == \/ Produce
        \/ \E i \in Id : Route(i)
        \/ \E r \in Reconcilers : Reconcile(r)
        \/ Venue
        \/ Fault

Spec == Init /\ [][Next]_vars

\* Once begun, a pass ends: its lookups are HTTP calls with a timeout.
Pass(r) == Reconcile(r) /\ reconciler[r].pc # "idle"

\* A route is bounded by its caller's timeout, a pass by the client's, the
\* worker ticks forever, and a 15-minute window closes.  No fill, answer or
\* exit decision is taken for granted.
Fairness == /\ \A i \in Id : WF_vars(Route(i))
            /\ \A r \in Reconcilers : WF_vars(Pass(r))
            /\ WF_vars(ListKey(Worker))
            /\ WF_vars(CloseMarket)

FairSpec == Spec /\ Fairness

-----------------------------------------------------------------------------
(* Properties.                                                             *)

\* The order of attempt i is at the exchange or on its way there.
AtExchange(i) == order[i] \in {"wire", "live"}

\* It may still trade: it is there, or its route may yet send it.
CanTrade(i) == AtExchange(i) \/ route[i] \in {"approved", "gated"}

\* Released for a replacement, or closed.
Released(i) == i <= seq /\ (active = i => att[i].state = "RETRY_ELIGIBLE")

\* Identity binds before the wire: whatever the exchange has seen, the
\* attempt file already names.  This is what lets an attempt without
\* identity be retried with no lookup (local_no_transmit), restart or not.
IdentityBeforeWire ==
    \A i \in Id : order[i] # "none" =>
        /\ att[i].client_order_id = i
        /\ active = i => disk.active = i /\ disk.attempt.client_order_id = i

\* An attempt closed or replaced is never active again and never rewritten,
\* by a late result, a reconciler or a restart.
ClosedStaysClosed ==
    [][\A i \in Id : (i <= seq /\ i # active) =>
            active' # i /\ att'[i] = att[i]]_vars

\* The arbiter's promise: one order at most can trade for a generation, through
\* timeouts, restarts and overlapping passes, until a pass has acted on an
\* attempt that was not its own.
AtMostOneLive ==
    ~strayed => \A i, j \in Id : CanTrade(i) /\ CanTrade(j) => i = j

\* "Confirmed dead": an attempt is released only when its order is beyond
\* trading - ended, or never to be sent - until a pass has strayed.
ReleasedIsDead == ~strayed => \A i \in Id : Released(i) => ~CanTrade(i)

\* What the docstring of exit_arbiter.py states, of every behaviour and of
\* orders at the exchange only.  A stray pass refutes it.
RetryOnlyWhenDead ==
    \A i \in Id : att[i].state = "RETRY_ELIGIBLE" => ~AtExchange(i)

\* Fills are neither invented nor lost: an attempt never counts more than
\* its order executed and, when released in an open market, counts it all,
\* whichever of the route's result and the lookups got there first - until a
\* pass has strayed, and a predecessor's fills may be its successor's.
FillsAccounted == ~strayed =>
    \A i \in Id :
        /\ att[i].filled_cc <= executed[i]
        /\ Released(i) /\ market = "open" => att[i].filled_cc = executed[i]

\* No attempt stays unresolved for ever: a lost acknowledgement, a wedged
\* submission or a restart suppresses the generation's exits only until an
\* answer comes or the market ends.
UnresolvedResolves ==
    \A i \in Id : (active = i /\ att[i].state \in Unresolved)
                    ~> (active # i \/ att[i].state \notin Unresolved)

\* The pipeline implements the promise, and what is left of it astray.
Authority == INSTANCE SingleExitAuthority
                 WITH authority <- {i \in Id : CanTrade(i)}, used <- seq,
                      astray <- strayed
ImplementsAuthority == Authority!Spec
=============================================================================
