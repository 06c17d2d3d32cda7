------------------------- MODULE ExitPipelineProofs -------------------------
(***************************************************************************)
(* Theorems about ExitPipeline, for every number of attempts, lots,        *)
(* reconcilers and crashes: its types, what holds of every behaviour, what *)
(* holds until a pass strays, and the refinement of SingleExitAuthority.   *)
(***************************************************************************)
EXTENDS ExitPipeline, TLAPS

-----------------------------------------------------------------------------
(* What the lifecycle methods return.                                      *)

\* Every lifecycle method returns an attempt record.
LEMMA LifecycleTypes ==
    ASSUME NEW a \in Attempt
    PROVE  /\ Acked(a) \in Attempt
           /\ AckUnknown(a) \in Attempt
           /\ BeginReconcile(a) \in Attempt
           /\ MarkFlat(a) \in Attempt
           /\ Reloaded(a) \in Attempt
           /\ Settle(a) \in Attempt
  BY DEF Attempt, AttemptState, Unresolved, Acked, AckUnknown, BeginReconcile,
         MarkFlat, Reloaded, Settle

LEMMA BindType ==
    ASSUME NEW a \in Attempt, NEW coid \in OrderRef, NEW oid \in OrderRef
    PROVE  Bind(a, coid, oid) \in Attempt
  BY DEF Attempt, Bind

LEMMA ResolveType ==
    ASSUME NEW a \in Attempt, NEW ev \in Evidence
    PROVE  ResolveReconcile(a, ev) \in Attempt
  <1>1. ev.filled_cc \in Nat
    BY BoundsAreNat DEF Evidence
  <1>2. QED
    BY <1>1 DEF Attempt, AttemptState, Evidence, ResolveReconcile, ResolveFound,
                FoundState, NeverTransmitted, Unresolved

LEMMA RecordFillType ==
    ASSUME NEW a \in Attempt, NEW cc \in Nat
    PROVE  RecordFill(a, cc) \in Attempt
  <1> DEFINE s == IF a.filled_cc + cc >= a.qty_cc THEN "FLAT"
                  ELSE IF a.state = "SUBMITTING"
                       THEN "WORKING_OR_PARTIALLY_FILLED" ELSE a.state
  <1>1. a.filled_cc + cc \in Nat /\ s \in AttemptState
    BY DEF Attempt, AttemptState
  <1>2. RecordFill(a, cc) = [a EXCEPT !.filled_cc = a.filled_cc + cc, !.state = s]
    BY DEF RecordFill
  <1> HIDE DEF s
  <1>3. QED
    BY <1>1, <1>2 DEF Attempt

LEMMA EvidenceTypes ==
    /\ NoTransmit \in Evidence
    /\ Inconclusive \in Evidence
    /\ \A t \in BOOLEAN, f \in 0..Qty : Found(t, f) \in Evidence
  <1>1. 0 \in 0..Qty
    BY BoundsAreNat
  <1>2. NoTransmit \in Evidence
    BY <1>1 DEF Evidence, NoTransmit
  <1>3. Inconclusive \in Evidence
    BY <1>1, <1>2 DEF Evidence, Inconclusive
  <1>4. ASSUME NEW t \in BOOLEAN, NEW f \in 0..Qty
        PROVE  Found(t, f) \in Evidence
    BY <1>4 DEF Evidence, Found
  <1>5. QED
    BY <1>2, <1>3, <1>4

LEMMA ReleaseResidualType ==
    ASSUME NEW a \in Attempt
    PROVE  ReleaseResidual(a) \in Attempt
  <1>1. CASE a.state # "FLAT" /\ a.filled_cc < a.qty_cc
    <2>1. a.filled_cc \in 0..Qty
      BY <1>1, BoundsAreNat DEF Attempt
    <2>2. QED
      BY <1>1, <2>1, LifecycleTypes, ResolveType, EvidenceTypes DEF ReleaseResidual
  <1>2. CASE ~(a.state # "FLAT" /\ a.filled_cc < a.qty_cc)
    BY <1>2 DEF ReleaseResidual
  <1>3. QED
    BY <1>1, <1>2

LEMMA RouteUpdateType ==
    ASSUME NEW b \in Attempt, NEW r \in Reply
    PROVE  RouteUpdate(b, r) \in Attempt
  <1> DEFINE a == Bind(b, Unbound, r.order_id)
  <1>1. /\ r.outcome \in Outcome
        /\ r.filled_cc \in Nat
        /\ r.order_id \in OrderRef
    BY BoundsAreNat DEF Reply
  <1>2. a \in Attempt
    BY <1>1, BindType, BoundsAreNat DEF Unbound, OrderRef
  <1>3. Acked(a) \in Attempt /\ AckUnknown(a) \in Attempt
    BY <1>2, LifecycleTypes
  <1>4. RecordFill(Acked(a), r.filled_cc) \in Attempt
    BY <1>1, <1>3, RecordFillType
  <1>5. ReleaseResidual(RecordFill(Acked(a), r.filled_cc)) \in Attempt
    BY <1>4, ReleaseResidualType
  <1>6. Found(TRUE, 0) \in Evidence
    <2>1. 0 \in 0..Qty /\ TRUE \in BOOLEAN
      BY BoundsAreNat
    <2>2. QED
      BY <2>1, EvidenceTypes
  <1>7. /\ ResolveReconcile(BeginReconcile(a), Found(TRUE, 0)) \in Attempt
        /\ ResolveReconcile(BeginReconcile(a), NoTransmit) \in Attempt
    BY <1>2, <1>6, EvidenceTypes, LifecycleTypes, ResolveType
  <1> HIDE DEF a
  <1>8. QED
    BY <1>1, <1>3, <1>4, <1>5, <1>7 DEF RouteUpdate, Outcome, a

-----------------------------------------------------------------------------
(* Type correctness.                                                       *)

StoreOK == /\ att \in [Id -> Attempt]
           /\ active \in OrderRef
           /\ seq \in OrderRef
           /\ disk \in [active : OrderRef, attempt : Attempt]

LEMMA IdleType == Idle \in Attempt
  BY BoundsAreNat DEF Idle, Attempt, AttemptState, OrderRef, Unbound

LEMMA MintedType ==
    ASSUME NEW q \in 1..Qty
    PROVE  Minted(q) \in Attempt
  <1>1. q \in 0..Qty
    BY BoundsAreNat
  <1>2. QED
    BY <1>1, IdleType DEF Minted, Attempt, AttemptState

LEMMA FlushType ==
    ASSUME StoreOK, NEW n \in OrderRef, NEW a \in Attempt, Flush(Row(n, a))
    PROVE  disk' \in [active : OrderRef, attempt : Attempt]
  <1>1. Row(n, a) \in [active : OrderRef, attempt : Attempt]
    BY IdleType DEF Row
  <1>2. QED
    BY <1>1 DEF Flush, StoreOK

\* A method's result keeps the store well typed.
LEMMA ApplyType ==
    ASSUME StoreOK, NEW a, active # None => a \in Attempt, Apply(a)
    PROVE  StoreOK'
  <1>1. CASE active = None
    BY <1>1 DEF Apply, store, StoreOK
  <1>2. CASE active # None
    <2>1. Save(a) /\ a \in Attempt
      BY <1>2 DEF Apply
    <2>2. active' \in OrderRef
      BY <2>1, BoundsAreNat DEF Save, StoreOK, None, OrderRef
    <2>3. disk' \in [active : OrderRef, attempt : Attempt]
      BY <2>1, <2>2, FlushType DEF Save
    <2>4. att' \in [Id -> Attempt]
      BY <2>1 DEF Save, StoreOK
    <2>5. seq' \in OrderRef
      BY <2>1 DEF Save, StoreOK
    <2>6. QED
      BY <2>2, <2>3, <2>4, <2>5 DEF StoreOK
  <1>3. QED
    BY <1>1, <1>2

\* An active attempt's record is an attempt.
LEMMA ActiveType ==
    ASSUME StoreOK, active # None
    PROVE  active \in Id /\ att[active] \in Attempt
  BY BoundsAreNat DEF StoreOK, OrderRef, Id, None

LEMMA InitType == Init => TypeOK
  <1> SUFFICES ASSUME Init PROVE TypeOK
    OBVIOUS
  <1>1. /\ 0 \in OrderRef /\ 0 \in 0..Qty /\ 0 \in 0..MaxCrashes
        /\ None = 0 /\ Unbound = 0
    BY BoundsAreNat, PipelineConstants DEF OrderRef, None, Unbound
  <1>2. NoReply \in Reply
    BY <1>1 DEF NoReply, Reply, Outcome
  <1>3. AtRest \in ReconcilerState
    BY <1>1 DEF AtRest, ReconcilerState, NoAnswer, Answer
  <1>4. /\ att \in [Id -> Attempt]
        /\ disk \in [active : OrderRef, attempt : Attempt]
    BY <1>1, IdleType DEF Init
  <1>5. route \in [Id -> RouteState] /\ order \in [Id -> OrderState]
    BY DEF Init, RouteState, OrderState
  <1>6. QED
    BY <1>1, <1>2, <1>3, <1>4, <1>5 DEF Init, TypeOK

\* A route ends, or brings its caller a result.
LEMMA CallerType ==
    ASSUME TypeOK, NEW i \in Id
    PROVE  /\ EndRoute(i) => /\ route' \in [Id -> RouteState]
                             /\ reply' \in [Id -> Reply]
           /\ \A o \in Outcome, cc \in 0..Qty, oid \in OrderRef :
                Replies(i, o, cc, oid) => TypeOK'
  <1>1. NoReply \in Reply
    BY BoundsAreNat DEF NoReply, Reply, Outcome, OrderRef, Unbound
  <1>2. ASSUME EndRoute(i)
        PROVE  route' \in [Id -> RouteState] /\ reply' \in [Id -> Reply]
    BY <1>1, <1>2 DEF EndRoute, SetRoute, TypeOK, RouteState
  <1>3. ASSUME NEW o \in Outcome, NEW cc \in 0..Qty, NEW oid \in OrderRef,
               Replies(i, o, cc, oid)
        PROVE  TypeOK'
    <2>1. [outcome |-> o, filled_cc |-> cc, order_id |-> oid] \in Reply
      BY DEF Reply
    <2>2. reply' \in [Id -> Reply] /\ route' \in [Id -> RouteState]
      BY <1>3, <2>1 DEF Replies, SetRoute, TypeOK, RouteState
    <2>3. QED
      BY <1>3, <2>2 DEF Replies, TypeOK, store, exchange
  <1>4. QED
    BY <1>2, <1>3

\* The identities a reconciler carries and the answers it gets.
LEMMA AnswerTypes ==
    ASSUME TypeOK, NEW r \in Reconcilers, NEW answer \in Answer
    PROVE  /\ Answered(r, answer) =>
                reconciler' \in [Reconcilers -> ReconcilerState]
           /\ AtRest \in ReconcilerState /\ NoAnswer \in Answer
           /\ EvidenceOf(answer) \in Evidence
  <1>1. AtRest \in ReconcilerState /\ NoAnswer \in Answer
    BY BoundsAreNat DEF AtRest, ReconcilerState, NoAnswer, Answer, OrderRef,
                        Unbound
  <1>2. ASSUME Answered(r, answer)
        PROVE  reconciler' \in [Reconcilers -> ReconcilerState]
    BY <1>2 DEF Answered, SetReconciler, TypeOK, ReconcilerState
  <1>3. EvidenceOf(answer) \in Evidence
    <2>1. answer.filled_cc \in 0..Qty /\ 0 \in 0..Qty
      BY BoundsAreNat DEF Answer
    <2>2. QED
      BY <2>1, EvidenceTypes DEF EvidenceOf
  <1>4. QED
    BY <1>1, <1>2, <1>3

LEMMA ProduceType ==
    ASSUME TypeOK, Produce
    PROVE  TypeOK'
  <1>1. StoreOK
    BY DEF TypeOK, StoreOK
  <1>2. ASSUME NEW q \in 1..Qty, ApproveIntent(q)
        PROVE  TypeOK'
    <2> DEFINE a == Bind(Minted(q), seq + 1, Unbound)
    <2>1. seq + 1 \in Id /\ seq + 1 \in OrderRef /\ Unbound \in OrderRef
      BY <1>1, <1>2, BoundsAreNat DEF ApproveIntent, StoreOK, OrderRef, Id,
                                      Unbound
    <2>2. a \in Attempt
      BY <2>1, MintedType, BindType
    <2>3. /\ att' = [att EXCEPT ![seq + 1] = a] /\ Flush(Row(seq + 1, a))
          /\ active' = seq + 1 /\ seq' = seq + 1
          /\ route' = [route EXCEPT ![seq + 1] = "approved"]
          /\ UNCHANGED <<reply, reconciler, order, executed, market, crashes,
                         strayed>>
      BY <1>2 DEF ApproveIntent, exchange
    <2> HIDE DEF a
    <2>4. disk' \in [active : OrderRef, attempt : Attempt]
      BY <1>1, <2>1, <2>2, <2>3, FlushType
    <2>5. att' \in [Id -> Attempt] /\ route' \in [Id -> RouteState]
      BY <2>1, <2>2, <2>3 DEF TypeOK, RouteState
    <2>6. QED
      BY <2>1, <2>3, <2>4, <2>5 DEF TypeOK
  <1>3. ASSUME ArbitrateTerminalMarket
        PROVE  TypeOK'
    <2>1. active # None /\ Apply(MarkFlat(att[active]))
      BY <1>3 DEF ArbitrateTerminalMarket, Apply
    <2>2. StoreOK'
      BY <1>1, <2>1, ActiveType, LifecycleTypes, ApplyType
    <2>3. QED
      BY <1>3, <2>2 DEF ArbitrateTerminalMarket, TypeOK, StoreOK, caller,
                        exchange
  <1>4. QED
    BY <1>2, <1>3 DEF Produce

LEMMA RouteType ==
    ASSUME TypeOK, NEW i \in Id, Route(i)
    PROVE  TypeOK'
  <1>1. StoreOK /\ Unbound \in OrderRef /\ i \in OrderRef /\ 0 \in 0..Qty
    BY BoundsAreNat DEF TypeOK, StoreOK, Unbound, OrderRef, Id
  <1>2. executed[i] \in 0..Qty /\ reply[i] \in Reply
    BY DEF TypeOK
  <1>3. CASE Gate(i)
    BY <1>3 DEF Gate, SetRoute, TypeOK, RouteState, store, exchange
  <1>4. CASE GateRejects(i)
    BY <1>1, <1>4, CallerType DEF GateRejects, Outcome
  <1>5. CASE RefuseLocally(i)
    BY <1>1, <1>5, CallerType DEF RefuseLocally, Outcome
  <1>6. CASE Transmit(i)
    <2>1. route' \in [Id -> RouteState] /\ order' \in [Id -> OrderState]
      BY <1>6 DEF Transmit, SetRoute, TypeOK, RouteState, OrderState
    <2>2. QED
      BY <1>6, <2>1 DEF Transmit, TypeOK, store
  <1>7. CASE Respond(i)
    BY <1>1, <1>2, <1>7, CallerType DEF Respond, Outcome
  <1>8. CASE RespondUnknown(i)
    BY <1>1, <1>8, CallerType DEF RespondUnknown, Outcome
  <1>9. CASE PostRouteUpdate(i)
    <2>1. StoreOK'
      BY <1>1, <1>2, <1>9, ActiveType, RouteUpdateType, ApplyType
         DEF PostRouteUpdate
    <2>2. QED
      BY <1>9, <2>1, CallerType DEF PostRouteUpdate, TypeOK, StoreOK, exchange
  <1>10. CASE RouteTimeout(i)
    <2>1. StoreOK'
      BY <1>1, <1>10, ActiveType, LifecycleTypes, ApplyType DEF RouteTimeout
    <2>2. QED
      BY <1>10, <2>1, CallerType DEF RouteTimeout, TypeOK, StoreOK, exchange
  <1>11. CASE RouteCancelled(i)
    BY <1>11, CallerType DEF RouteCancelled, TypeOK, store, exchange
  <1>12. QED
    BY <1>3, <1>4, <1>5, <1>6, <1>7, <1>8, <1>9, <1>10, <1>11 DEF Route

LEMMA ReconcileType ==
    ASSUME TypeOK, NEW r \in Reconcilers, Reconcile(r)
    PROVE  TypeOK'
  <1>1. StoreOK
    BY DEF TypeOK, StoreOK
  <1>2. AtRest \in ReconcilerState /\ NoAnswer \in Answer
    <2>1. NoAnswer \in Answer
      BY BoundsAreNat DEF NoAnswer, Answer
    <2>2. QED
      BY <2>1, AnswerTypes
  <1>3. CASE ListKey(r)
    <2>1. [AtRest EXCEPT !.pc = "listed"] \in ReconcilerState
      BY <1>2 DEF ReconcilerState
    <2>2. QED
      BY <1>3, <2>1 DEF ListKey, SetReconciler, TypeOK, store, caller, exchange
  <1>4. CASE ReconcileBegin(r)
    <2>1. active # None => Begun(att[active]) \in Attempt
      BY <1>1, ActiveType, LifecycleTypes, ResolveType, EvidenceTypes DEF Begun
    <2>2. StoreOK'
      BY <1>1, <1>4, <2>1, ApplyType DEF ReconcileBegin
    <2>3. reconciler' \in [Reconcilers -> ReconcilerState]
      <3>1. CASE active # None /\ ~NeverTransmitted(att[active])
        <4>1. [pc |-> "asking", coid |-> att[active].client_order_id,
               oid |-> att[active].order_id, answer |-> NoAnswer]
                  \in ReconcilerState
          BY <1>1, <1>2, <3>1, ActiveType DEF ReconcilerState, Attempt
        <4>2. QED
          BY <1>4, <3>1, <4>1 DEF ReconcileBegin, SetReconciler, TypeOK
      <3>2. CASE ~(active # None /\ ~NeverTransmitted(att[active]))
        BY <1>2, <1>4, <3>2 DEF ReconcileBegin, SetReconciler, TypeOK
      <3>3. QED
        BY <3>1, <3>2
    <2>4. QED
      BY <1>4, <2>2, <2>3 DEF ReconcileBegin, TypeOK, StoreOK, caller, exchange
  <1>5. ASSUME NEW i \in Id, LookupFinds(r, i)
        PROVE  TypeOK'
    <2>1. PICK answer \in Answer : Answered(r, answer)
      <3>1. executed[i] \in 0..Qty
        BY DEF TypeOK
      <3>2. \A k \in {"none", "working", "terminal", "unrecognised"} :
               [kind |-> k, filled_cc |-> executed[i]] \in Answer
        BY <3>1 DEF Answer
      <3>3. QED
        BY <1>5, <3>2 DEF LookupFinds
    <2>2. QED
      BY <1>5, <2>1, AnswerTypes DEF LookupFinds, TypeOK, store, caller, exchange
  <1>6. CASE LookupFindsNothing(r)
    BY <1>2, <1>6, AnswerTypes
       DEF LookupFindsNothing, TypeOK, store, caller, exchange
  <1>7. CASE ReconcileResolve(r)
    <2>1. reconciler[r].answer \in Answer
      BY DEF TypeOK, ReconcilerState
    <2>2. active # None =>
              Resolved(att[active], reconciler[r].answer) \in Attempt
      BY <1>1, <2>1, ActiveType, AnswerTypes, ResolveType, LifecycleTypes
         DEF Resolved
    <2>3. StoreOK'
      BY <1>1, <1>7, <2>2, ApplyType DEF ReconcileResolve
    <2>4. QED
      BY <1>2, <1>7, <2>3 DEF ReconcileResolve, SetReconciler, TypeOK, StoreOK,
                              caller, exchange
  <1>8. QED
    BY <1>3, <1>4, <1>5, <1>6, <1>7 DEF Reconcile

LEMMA VenueType ==
    ASSUME TypeOK, Venue
    PROVE  TypeOK'
  <1>1. ASSUME NEW i \in Id, Accept(i) \/ Cancel(i)
        PROVE  TypeOK'
    <2>1. order' \in [Id -> OrderState]
      BY <1>1 DEF Accept, Cancel, TypeOK, OrderState
    <2>2. QED
      BY <1>1, <2>1 DEF Accept, Cancel, TypeOK, store, caller
  <1>2. ASSUME NEW i \in Id, NEW cc \in 1..Qty, Execute(i, cc)
        PROVE  TypeOK'
    <2>1. executed[i] + cc \in 0..Qty
      BY <1>2, BoundsAreNat DEF Execute, TypeOK, Attempt
    <2>2. order' \in [Id -> OrderState] /\ executed' \in [Id -> 0..Qty]
      BY <1>2, <2>1 DEF Execute, TypeOK, OrderState
    <2>3. QED
      BY <1>2, <2>2 DEF Execute, TypeOK, store, caller
  <1>3. CASE CloseMarket
    <2>1. order' \in [Id -> OrderState]
      BY <1>3 DEF CloseMarket, TypeOK, OrderState
    <2>2. QED
      BY <1>3, <2>1 DEF CloseMarket, TypeOK, store, caller
  <1>4. QED
    BY <1>1, <1>2, <1>3 DEF Venue

LEMMA FaultType ==
    ASSUME TypeOK, Fault
    PROVE  TypeOK'
  <1>1. StoreOK
    BY DEF TypeOK, StoreOK
  <1>2. ASSUME NEW n \in OrderRef, NEW b \in Attempt, NEW used \in OrderRef,
               Restart([active |-> n, attempt |-> b], used)
        PROVE  TypeOK'
    <2> DEFINE a == Reloaded(b)
    <2>1. a \in Attempt /\ None \in OrderRef
      BY LifecycleTypes, BoundsAreNat DEF None, OrderRef
    <2>2. active' \in OrderRef /\ seq' \in OrderRef
      BY <1>2, <2>1 DEF Restart
    <2>3. att' \in [Id -> Attempt]
      BY <1>1, <1>2, <2>1 DEF Restart, StoreOK
    <2>4. disk' \in [active : OrderRef, attempt : Attempt]
      BY <1>1, <1>2, <2>1, <2>2, FlushType DEF Restart
    <2>5. route' \in [Id -> RouteState] /\ reply' \in [Id -> Reply]
      BY <1>2, BoundsAreNat DEF Restart, TypeOK, RouteState, NoReply, Reply,
                                Outcome, OrderRef, Unbound
    <2>6. reconciler' \in [Reconcilers -> ReconcilerState]
      BY <1>2, BoundsAreNat DEF Restart, AtRest, ReconcilerState, NoAnswer,
                                Answer, OrderRef, Unbound
    <2>7. crashes' \in 0..MaxCrashes
      BY <1>2, PipelineConstants DEF Restart, TypeOK
    <2>8. QED
      BY <1>2, <2>2, <2>3, <2>4, <2>5, <2>6, <2>7
         DEF Restart, TypeOK, exchange
  <1>3. CASE Crash
    <2>1. PICK n \in OrderRef, b \in Attempt :
              disk = [active |-> n, attempt |-> b]
      BY DEF TypeOK
    <2>2. QED
      BY <1>1, <1>2, <1>3, <2>1 DEF Crash, StoreOK
  <1>4. ASSUME NEW q \in 1..Qty, CrashInApprove(q)
        PROVE  TypeOK'
    <2>1. seq + 1 \in OrderRef /\ seq + 1 # None
      BY <1>1, <1>4, BoundsAreNat DEF CrashInApprove, StoreOK, OrderRef, None
    <2>2. Restart([active |-> seq + 1, attempt |-> Minted(q)], seq + 1)
      BY <1>4, <2>1 DEF CrashInApprove, Row
    <2>3. QED
      BY <1>2, <2>1, <2>2, MintedType
  <1>5. QED
    BY <1>3, <1>4 DEF Fault

\* Type correctness of the exit pipeline: every record, identity, quantity and
\* coroutine position stays within its range, whatever the interleaving.
THEOREM TypeCorrect == Spec => []TypeOK
  <1>1. Init => TypeOK
    BY InitType
  <1>2. TypeOK /\ [Next]_vars => TypeOK'
    <2> SUFFICES ASSUME TypeOK, [Next]_vars PROVE TypeOK'
      OBVIOUS
    <2>1. CASE Next
      BY <2>1, ProduceType, RouteType, ReconcileType, VenueType, FaultType
         DEF Next
    <2>2. CASE UNCHANGED vars
      BY <2>2 DEF vars, store, caller, exchange, TypeOK
    <2>3. QED
      BY <2>1, <2>2
  <1>3. QED
    BY <1>1, <1>2, PTL DEF Spec

-----------------------------------------------------------------------------
(* Identity before the wire, for any number of overlapping reconcilers, as *)
(* long as the attempt file is rewritten when it should be.                *)

\* The file's row is the active attempt as memory has it.
Durable == disk = Row(active, att[active])

\* Numbers are given in order; whatever has a route is named.
Named == /\ active <= seq
         /\ \A i \in Id :
               /\ order[i] # "none" => route[i] # "idle"
               /\ route[i] # "idle" => i <= seq /\ att[i].client_order_id = i

IdentityInv == TypeOK /\ Durable /\ Named

SameName(a, b) == b.client_order_id = a.client_order_id

\* The lifecycle methods never take the producer's identity away.
LEMMA LifecycleNames ==
    ASSUME NEW a \in Attempt
    PROVE  /\ SameName(a, Acked(a)) /\ SameName(a, AckUnknown(a))
           /\ SameName(a, BeginReconcile(a)) /\ SameName(a, MarkFlat(a))
           /\ SameName(a, Reloaded(a)) /\ SameName(a, Settle(a))
           /\ \A cc \in Nat : SameName(a, RecordFill(a, cc))
           /\ \A ev \in Evidence : SameName(a, ResolveReconcile(a, ev))
           /\ \A oid \in OrderRef : SameName(a, Bind(a, Unbound, oid))
  BY DEF SameName, Attempt, Acked, AckUnknown, BeginReconcile, MarkFlat,
         Reloaded, Settle, RecordFill, ResolveReconcile, ResolveFound, Bind

LEMMA RouteUpdateName ==
    ASSUME NEW b \in Attempt, NEW r \in Reply
    PROVE  SameName(b, RouteUpdate(b, r))
  <1> DEFINE a == Bind(b, Unbound, r.order_id)
  <1>1. /\ r.outcome \in Outcome
        /\ r.filled_cc \in Nat
        /\ r.order_id \in OrderRef
        /\ Unbound \in OrderRef
        /\ 0 \in 0..Qty
    BY BoundsAreNat DEF Reply, Unbound, OrderRef
  <1>2. a \in Attempt /\ SameName(b, a)
    BY <1>1, BindType, LifecycleNames
  <1> HIDE DEF a
  <1>3. /\ Acked(a) \in Attempt /\ SameName(b, Acked(a))
        /\ SameName(b, AckUnknown(a))
        /\ BeginReconcile(a) \in Attempt /\ SameName(b, BeginReconcile(a))
    BY <1>2, LifecycleTypes, LifecycleNames DEF SameName
  <1> DEFINE filled == RecordFill(Acked(a), r.filled_cc)
  <1>4. filled \in Attempt /\ SameName(b, filled)
    BY <1>1, <1>3, RecordFillType, LifecycleNames DEF SameName
  <1> HIDE DEF filled
  <1>5. SameName(b, ReleaseResidual(filled))
    <2>1. CASE filled.state # "FLAT" /\ filled.filled_cc < filled.qty_cc
      <3>1. filled.filled_cc \in 0..Qty /\ TRUE \in BOOLEAN
        BY <1>4, <2>1, BoundsAreNat DEF Attempt
      <3>2. Found(TRUE, filled.filled_cc) \in Evidence
        BY <3>1, EvidenceTypes
      <3>3. /\ BeginReconcile(filled) \in Attempt
            /\ SameName(b, BeginReconcile(filled))
        BY <1>4, LifecycleTypes, LifecycleNames DEF SameName
      <3>4. QED
        BY <2>1, <3>2, <3>3, LifecycleNames DEF ReleaseResidual, SameName
    <2>2. CASE ~(filled.state # "FLAT" /\ filled.filled_cc < filled.qty_cc)
      BY <1>4, <2>2 DEF ReleaseResidual
    <2>3. QED
      BY <2>1, <2>2
  <1>6. /\ NoTransmit \in Evidence /\ TRUE \in BOOLEAN
        /\ Found(TRUE, 0) \in Evidence
    BY <1>1, EvidenceTypes
  <1>7. /\ SameName(b, ResolveReconcile(BeginReconcile(a), Found(TRUE, 0)))
        /\ SameName(b, ResolveReconcile(BeginReconcile(a), NoTransmit))
    BY <1>3, <1>6, LifecycleNames DEF SameName
  <1>8. RouteUpdate(b, r) \in
            {ReleaseResidual(filled), filled, Acked(a), AckUnknown(a),
             ResolveReconcile(BeginReconcile(a), Found(TRUE, 0)),
             ResolveReconcile(BeginReconcile(a), NoTransmit)}
    BY <1>1 DEF RouteUpdate, Outcome, a, filled
  <1>9. QED
    BY <1>3, <1>4, <1>5, <1>7, <1>8

\* Applying a method that keeps the name keeps the identity invariant.
LEMMA ApplyNamed ==
    ASSUME IdentityInv, ~FlushMayFail, NEW b, Apply(b),
           active # None => b \in Attempt /\ SameName(att[active], b),
           UNCHANGED order,
           \A i \in Id : route'[i] # "idle" => route[i] # "idle",
           \A i \in Id : route[i] # "idle" => route'[i] # "idle"
    PROVE  Durable' /\ Named'
  <1>1. StoreOK
    BY DEF IdentityInv, TypeOK, StoreOK
  <1>2. CASE active = None
    BY <1>2 DEF Apply, store, IdentityInv, Durable, Named, Row
  <1>3. CASE active # None
    <2>1. active \in Id /\ Save(b)
      BY <1>1, <1>3, ActiveType DEF Apply
    <2>2. att' = [att EXCEPT ![active] = b] /\ seq' = seq
      BY <2>1 DEF Save
    <2>3. active' \in {active, None} /\ disk' = Row(active', b)
      BY <2>1 DEF Save, Flush
    <2>4. Durable'
      BY <1>1, <2>1, <2>2, <2>3 DEF Durable, Row, StoreOK
    <2>5. \A i \in Id : att'[i].client_order_id = att[i].client_order_id
      BY <1>1, <1>3, <2>1, <2>2 DEF StoreOK, SameName
    <2>6. active' <= seq'
      BY <1>1, <2>2, <2>3, BoundsAreNat DEF None, IdentityInv, Named, StoreOK,
                                            OrderRef
    <2>7. QED
      BY <2>2, <2>4, <2>5, <2>6 DEF Named, IdentityInv
  <1>4. QED
    BY <1>2, <1>3

LEMMA RouteNamed ==
    ASSUME IdentityInv, ~FlushMayFail, NEW i \in Id, Route(i)
    PROVE  Durable' /\ Named'
  <1>1. StoreOK /\ TypeOK
    BY DEF IdentityInv, TypeOK, StoreOK
  <1>2. ASSUME UNCHANGED <<store, order>>, NEW pc \in RouteState \ {"idle"},
               route[i] # "idle", SetRoute(i, pc)
        PROVE  Durable' /\ Named'
    BY <1>1, <1>2 DEF SetRoute, store, IdentityInv, Durable, Named, TypeOK
  <1>3. CASE Gate(i)
    BY <1>2, <1>3 DEF Gate, RouteState, exchange
  <1>4. ASSUME NEW o, NEW cc, NEW oid, Replies(i, o, cc, oid), route[i] # "idle"
        PROVE  Durable' /\ Named'
    BY <1>2, <1>4 DEF Replies, RouteState, exchange
  <1>5. CASE GateRejects(i) \/ RefuseLocally(i) \/ Respond(i) \/ RespondUnknown(i)
    BY <1>4, <1>5 DEF GateRejects, RefuseLocally, Respond, RespondUnknown
  <1>6. CASE Transmit(i)
    BY <1>1, <1>6 DEF Transmit, SetRoute, store, IdentityInv, Durable, Named,
                      TypeOK
  <1>7. ASSUME Routing(i), EndRoute(i)
        PROVE  \A j \in Id : route'[j] = "idle" <=> route[j] = "idle"
    BY <1>1, <1>7 DEF Routing, EndRoute, SetRoute, TypeOK
  <1>8. CASE PostRouteUpdate(i)
    <2>1. reply[i] \in Reply /\ Routing(i)
      BY <1>1, <1>8 DEF TypeOK, PostRouteUpdate, Routing
    <2>2. active # None =>
              /\ RouteUpdate(att[active], reply[i]) \in Attempt
              /\ SameName(att[active], RouteUpdate(att[active], reply[i]))
      BY <1>1, <2>1, ActiveType, RouteUpdateType, RouteUpdateName
    <2>3. QED
      BY <1>7, <1>8, <2>1, <2>2, ApplyNamed DEF PostRouteUpdate, exchange
  <1>9. CASE RouteTimeout(i)
    <2>1. active # None =>
              /\ AckUnknown(att[active]) \in Attempt
              /\ SameName(att[active], AckUnknown(att[active]))
      BY <1>1, ActiveType, LifecycleTypes, LifecycleNames
    <2>2. QED
      BY <1>7, <1>9, <2>1, ApplyNamed DEF RouteTimeout, exchange
  <1>10. CASE RouteCancelled(i)
    BY <1>7, <1>10 DEF RouteCancelled, store, exchange, IdentityInv, Durable,
                       Named
  <1>11. QED
    BY <1>3, <1>5, <1>6, <1>8, <1>9, <1>10 DEF Route

\* What a reconcile pass saves is an attempt of the same name.
LEMMA ReconciledNames ==
    ASSUME TypeOK, NEW a \in Attempt
    PROVE  /\ Begun(a) \in Attempt /\ SameName(a, Begun(a))
           /\ \A answer \in Answer : /\ Resolved(a, answer) \in Attempt
                                     /\ SameName(a, Resolved(a, answer))
  <1>1. ASSUME NEW b \in Attempt, SameName(a, b)
        PROVE  /\ Settle(b) \in Attempt /\ SameName(a, Settle(b))
               /\ \A ev \in Evidence :
                     /\ ResolveReconcile(b, ev) \in Attempt
                     /\ SameName(a, ResolveReconcile(b, ev))
    BY <1>1, LifecycleTypes, LifecycleNames, ResolveType DEF SameName
  <1>2. Begun(a) \in Attempt /\ SameName(a, Begun(a))
    <2>1. BeginReconcile(a) \in Attempt /\ SameName(a, BeginReconcile(a))
      BY LifecycleTypes, LifecycleNames
    <2>2. QED
      BY <1>1, <2>1, EvidenceTypes DEF Begun
  <1>3. ASSUME NEW answer \in Answer
        PROVE  /\ Resolved(a, answer) \in Attempt
               /\ SameName(a, Resolved(a, answer))
    <2>1. SameName(a, a)
      BY DEF SameName
    <2>2. EvidenceOf(answer) \in Evidence
      BY <1>3, AnswerTypes, PipelineConstants
    <2>3. QED
      BY <1>1, <2>1, <2>2 DEF Resolved
  <1>4. QED
    BY <1>2, <1>3

LEMMA ReconcileNamed ==
    ASSUME IdentityInv, ~FlushMayFail, NEW r \in Reconcilers, Reconcile(r)
    PROVE  Durable' /\ Named'
  <1>1. StoreOK /\ TypeOK
    BY DEF IdentityInv, TypeOK, StoreOK
  <1>2. CASE UNCHANGED <<store, caller, exchange>>
    BY <1>2 DEF store, caller, exchange, IdentityInv, Durable, Named
  <1>3. CASE ReconcileBegin(r)
    <2>1. active # None => /\ Begun(att[active]) \in Attempt
                           /\ SameName(att[active], Begun(att[active]))
      BY <1>1, ActiveType, ReconciledNames
    <2>2. QED
      BY <1>3, <2>1, ApplyNamed DEF ReconcileBegin, caller, exchange
  <1>4. CASE ReconcileResolve(r)
    <2>1. reconciler[r].answer \in Answer
      BY <1>1 DEF TypeOK, ReconcilerState
    <2>2. active # None =>
              /\ Resolved(att[active], reconciler[r].answer) \in Attempt
              /\ SameName(att[active],
                          Resolved(att[active], reconciler[r].answer))
      BY <1>1, <2>1, ActiveType, ReconciledNames
    <2>3. QED
      BY <1>4, <2>2, ApplyNamed DEF ReconcileResolve, caller, exchange
  <1>5. QED
    BY <1>2, <1>3, <1>4 DEF Reconcile, ListKey, LookupFinds, LookupFindsNothing

LEMMA ProduceNamed ==
    ASSUME IdentityInv, ~FlushMayFail, Produce
    PROVE  Durable' /\ Named'
  <1>1. StoreOK /\ TypeOK
    BY DEF IdentityInv, TypeOK, StoreOK
  <1>2. ASSUME NEW q \in 1..Qty, ApproveIntent(q)
        PROVE  Durable' /\ Named'
    <2> DEFINE a == Bind(Minted(q), seq + 1, Unbound)
    <2>1. seq + 1 \in Id /\ seq \in Nat /\ seq + 1 # Unbound
      BY <1>1, <1>2, BoundsAreNat DEF ApproveIntent, StoreOK, OrderRef, Id,
                                      Unbound
    <2>2. /\ att' = [att EXCEPT ![seq + 1] = a] /\ disk' = Row(seq + 1, a)
          /\ active' = seq + 1 /\ seq' = seq + 1
          /\ route' = [route EXCEPT ![seq + 1] = "approved"]
          /\ order' = order
      BY <1>2 DEF ApproveIntent, exchange, Flush
    <2>3. a.client_order_id = seq + 1
      BY <2>1, MintedType DEF Bind, Attempt
    <2> HIDE DEF a
    <2>4. Durable'
      BY <1>1, <2>1, <2>2 DEF Durable, Row, StoreOK
    <2>5. Named'
      BY <1>1, <2>1, <2>2, <2>3 DEF Named, IdentityInv, TypeOK, Id
    <2>6. QED
      BY <2>4, <2>5
  <1>3. CASE ArbitrateTerminalMarket
    <2>1. Apply(MarkFlat(att[active])) /\ active # None
      BY <1>3 DEF ArbitrateTerminalMarket, Apply
    <2>2. QED
      BY <1>1, <1>3, <2>1, ActiveType, LifecycleTypes, LifecycleNames, ApplyNamed
         DEF ArbitrateTerminalMarket, caller, exchange
  <1>4. QED
    BY <1>2, <1>3 DEF Produce

LEMMA VenueNamed ==
    ASSUME IdentityInv, Venue
    PROVE  Durable' /\ Named'
  <1>1. UNCHANGED <<store, route>>
    BY DEF Venue, Accept, Execute, Cancel, CloseMarket, caller
  <1>2. \A i \in Id : order'[i] # "none" => order[i] # "none"
    BY DEF Venue, Accept, Execute, Cancel, CloseMarket, IdentityInv, TypeOK
  <1>3. QED
    BY <1>1, <1>2 DEF store, IdentityInv, Durable, Named

LEMMA FaultNamed ==
    ASSUME IdentityInv, ~FlushMayFail, Fault
    PROVE  Durable' /\ Named'
  <1>1. StoreOK /\ TypeOK
    BY DEF IdentityInv, TypeOK, StoreOK
  <1>2. /\ UNCHANGED order
        /\ \A i \in Id : route'[i] = "idle" <=> route[i] = "idle"
    BY <1>1 DEF Fault, Crash, CrashInApprove, Restart, exchange, TypeOK
  <1>3. CASE Crash
    <2>1. CASE active = None
      <3>1. disk = [active |-> None, attempt |-> Idle]
        BY <2>1 DEF IdentityInv, Durable, Row
      <3>2. /\ active' = None /\ att' = att /\ seq' = seq
            /\ disk' = Row(None, Reloaded(Idle))
        BY <1>3, <3>1 DEF Crash, Restart, Flush
      <3>3. QED
        BY <1>2, <2>1, <3>2 DEF Durable, Named, Row, IdentityInv
    <2>2. CASE active # None
      <3> DEFINE a == Reloaded(att[active])
      <3>1. disk = [active |-> active, attempt |-> att[active]] /\ active \in Id
        BY <1>1, <2>2, ActiveType DEF IdentityInv, Durable, Row
      <3>2. /\ active' \in {active, None} /\ att' = [att EXCEPT ![active] = a]
            /\ seq' = seq /\ disk' = Row(active', a)
        BY <1>3, <2>2, <3>1 DEF Crash, Restart, Flush
      <3>3. SameName(att[active], a)
        BY <1>1, <2>2, ActiveType, LifecycleNames
      <3> HIDE DEF a
      <3>4. Durable'
        BY <1>1, <3>1, <3>2 DEF Durable, Row, StoreOK
      <3>5. active' <= seq'
        BY <1>1, <3>2, BoundsAreNat DEF None, IdentityInv, Named, StoreOK,
                                        OrderRef
      <3>6. \A i \in Id : att'[i].client_order_id = att[i].client_order_id
        BY <1>1, <3>1, <3>2, <3>3 DEF StoreOK, SameName
      <3>7. QED
        BY <1>2, <3>2, <3>4, <3>5, <3>6 DEF Named, IdentityInv
    <2>3. QED
      BY <2>1, <2>2
  <1>4. ASSUME NEW q \in 1..Qty, CrashInApprove(q)
        PROVE  Durable' /\ Named'
    <2> DEFINE a == Reloaded(Minted(q))
    <2>1. seq + 1 \in Id /\ seq + 1 # None /\ seq \in Nat
      BY <1>1, <1>4, BoundsAreNat DEF CrashInApprove, StoreOK, OrderRef, None, Id
    <2>2. /\ active' \in {seq + 1, None} /\ att' = [att EXCEPT ![seq + 1] = a]
          /\ seq' = seq + 1 /\ disk' = Row(active', a)
      BY <1>4, <2>1 DEF CrashInApprove, Restart, Row, Flush
    <2> HIDE DEF a
    <2>3. Durable'
      BY <1>1, <2>1, <2>2 DEF Durable, Row, StoreOK
    <2>4. active' <= seq'
      BY <2>1, <2>2, BoundsAreNat DEF None
    <2>5. \A i \in Id : route[i] # "idle" => i # seq + 1 /\ i <= seq'
      BY <2>1, <2>2 DEF IdentityInv, Named, Id
    <2>6. QED
      BY <1>1, <1>2, <2>2, <2>3, <2>4, <2>5 DEF Named, IdentityInv, StoreOK
  <1>5. QED
    BY <1>3, <1>4 DEF Fault

LEMMA IdentityInvariant ==
    ASSUME ~FlushMayFail
    PROVE  Spec => []IdentityInv
  <1>1. Init => IdentityInv
    <2> SUFFICES ASSUME Init PROVE IdentityInv
      OBVIOUS
    <2>1. Durable /\ Named
      BY BoundsAreNat DEF Init, Durable, Named, Row, None
    <2>2. QED
      BY <2>1, InitType DEF IdentityInv
  <1>2. IdentityInv /\ [Next]_vars => IdentityInv'
    <2> SUFFICES ASSUME IdentityInv, [Next]_vars PROVE Durable' /\ Named' /\ TypeOK'
      BY DEF IdentityInv
    <2>1. CASE Next
      <3>1. TypeOK'
        BY <2>1, ProduceType, RouteType, ReconcileType, VenueType, FaultType
           DEF Next, IdentityInv
      <3>2. QED
        BY <2>1, <3>1, ProduceNamed, RouteNamed, ReconcileNamed, VenueNamed,
           FaultNamed DEF Next
    <2>2. CASE UNCHANGED vars
      BY <2>2 DEF vars, store, caller, exchange, IdentityInv, TypeOK, Durable,
                  Named
    <2>3. QED
      BY <2>1, <2>2
  <1>3. QED
    BY <1>1, <1>2, PTL DEF Spec

\* Identity binds before the wire: the exchange never sees an order of an
\* attempt that the attempt file, as it stands then, does not name - for any
\* number of reconcilers, attempts and crashes, if no rewrite is lost.
THEOREM IdentityIsDurable ==
    ASSUME ~FlushMayFail
    PROVE  Spec => []IdentityBeforeWire
  <1>1. IdentityInv => IdentityBeforeWire
    <2> SUFFICES ASSUME IdentityInv, NEW i \in Id, order[i] # "none"
                 PROVE  /\ att[i].client_order_id = i
                        /\ active = i => /\ disk.active = i
                                         /\ disk.attempt.client_order_id = i
      BY DEF IdentityBeforeWire
    <2>1. att[i].client_order_id = i
      BY DEF IdentityInv, Named
    <2>2. i # None
      BY BoundsAreNat DEF Id, None
    <2>3. QED
      BY <2>1, <2>2 DEF IdentityInv, Durable, Row
  <1>2. QED
    BY <1>1, IdentityInvariant, PTL

\* No step revives an attempt that is closed or replaced, nor rewrites it.
ClosedKept == \A i \in Id : (i <= seq /\ i # active) =>
                  active' # i /\ att'[i] = att[i]

LEMMA ApplyKeepsClosed ==
    ASSUME StoreOK, NEW b, Apply(b)
    PROVE  ClosedKept
  <1>1. CASE active = None
    BY <1>1 DEF Apply, store, ClosedKept
  <1>2. CASE active # None
    <2>1. active' \in {active, None} /\ att' = [att EXCEPT ![active] = b]
      BY <1>2 DEF Apply, Save
    <2>2. QED
      BY <2>1 DEF ClosedKept, StoreOK, Id, None
  <1>3. QED
    BY <1>1, <1>2

LEMMA NextKeepsClosed ==
    ASSUME IdentityInv, ~FlushMayFail, [Next]_vars
    PROVE  ClosedKept
  <1>1. StoreOK /\ TypeOK
    BY DEF IdentityInv, TypeOK, StoreOK
  <1>2. CASE UNCHANGED <<att, active>>
    BY <1>2 DEF ClosedKept
  <1>3. CASE Produce
    <2>1. ASSUME NEW q \in 1..Qty, ApproveIntent(q)
          PROVE  ClosedKept
      BY <1>1, <2>1, BoundsAreNat DEF ApproveIntent, ClosedKept, StoreOK,
                                      OrderRef, Id
    <2>2. CASE ArbitrateTerminalMarket
      BY <1>1, <2>2, ApplyKeepsClosed DEF ArbitrateTerminalMarket, Apply
    <2>3. QED
      BY <1>3, <2>1, <2>2 DEF Produce
  <1>4. ASSUME NEW i \in Id, Route(i)
        PROVE  ClosedKept
    <2>1. CASE PostRouteUpdate(i) \/ RouteTimeout(i)
      BY <1>1, <2>1, ApplyKeepsClosed DEF PostRouteUpdate, RouteTimeout
    <2>2. CASE ~(PostRouteUpdate(i) \/ RouteTimeout(i))
      BY <1>2, <1>4, <2>2 DEF Route, Gate, GateRejects, RefuseLocally, Transmit,
                Respond, RespondUnknown, RouteCancelled, Replies, store
    <2>3. QED
      BY <2>1, <2>2
  <1>5. ASSUME NEW r \in Reconcilers, Reconcile(r)
        PROVE  ClosedKept
    <2>1. CASE ReconcileBegin(r) \/ ReconcileResolve(r)
      BY <1>1, <2>1, ApplyKeepsClosed DEF ReconcileBegin, ReconcileResolve
    <2>2. CASE ~(ReconcileBegin(r) \/ ReconcileResolve(r))
      BY <1>2, <1>5, <2>2 DEF Reconcile, ListKey, LookupFinds,
                              LookupFindsNothing, store
    <2>3. QED
      BY <2>1, <2>2
  <1>6. CASE Venue
    BY <1>2, <1>6 DEF Venue, Accept, Execute, Cancel, CloseMarket, store
  <1>7. CASE Crash
    <2>1. /\ active' \in {disk.active, None}
          /\ att' = IF disk.active = None THEN att
                    ELSE [att EXCEPT ![disk.active] = Reloaded(disk.attempt)]
      BY <1>7 DEF Crash, Restart
    <2>2. disk.active = active
      BY DEF IdentityInv, Durable, Row
    <2>3. QED
      BY <1>1, <2>1, <2>2 DEF ClosedKept, StoreOK, Id, None
  <1>8. ASSUME NEW q \in 1..Qty, CrashInApprove(q)
        PROVE  ClosedKept
    <2>1. seq \in Nat /\ seq + 1 # None
      BY <1>1, BoundsAreNat DEF StoreOK, OrderRef, None
    <2>2. /\ active' \in {seq + 1, None}
          /\ att' = [att EXCEPT ![seq + 1] = Reloaded(Minted(q))]
      BY <1>8, <2>1 DEF CrashInApprove, Restart, Row
    <2>3. QED
      BY <1>1, <2>1, <2>2 DEF ClosedKept, StoreOK, Id, None
  <1>9. QED
    BY <1>2, <1>3, <1>4, <1>5, <1>6, <1>7, <1>8 DEF Next, Fault, vars, store

\* An attempt closed or replaced is never active again and never rewritten, by
\* a late route result, a reconciler's answer or a restart - for any number of
\* reconcilers, if no rewrite of the file is lost.
THEOREM ClosedIsFinal ==
    ASSUME ~FlushMayFail
    PROVE  Spec => ClosedStaysClosed
  <1>1. IdentityInv /\ [Next]_vars => [ClosedKept]_vars
    BY NextKeepsClosed
  <1>2. QED
    BY <1>1, IdentityInvariant, PTL DEF Spec, ClosedStaysClosed, ClosedKept

-----------------------------------------------------------------------------
(***************************************************************************)
(* The safety of the exit pipeline while no rewrite of the attempt file is *)
(* lost: until a pass has strayed, one order at most can trade for a       *)
(* generation, a released attempt is dead and its fills are counted,       *)
(* however passes of any number of reconcilers overlap.                    *)
(*                                                                         *)
(* The inductive invariant says, part by part, why an answer can be        *)
(* trusted: only the active attempt has anything under way (ClosedInv);    *)
(* while its route is under way it is SUBMITTING (ActiveInv) and no pass   *)
(* asks about it (ReconcilerInv); and a result or an answer that calls an  *)
(* order dead is true of the order it is about, for ever after (ReplyInv,  *)
(* ReconcilerInv).  Passes about an attempt that has since been replaced   *)
(* are harmless until they change the active attempt, and that strays.     *)
(***************************************************************************)

\* Nothing of attempt i is under way, in the process or at the exchange.
Settled(i) == route[i] \in {"idle", "done"} /\ order[i] \in {"none", "dead"}

\* Attempt i may be forgotten.
Closable(i) == /\ Settled(i)
               /\ market = "open" => att[i].filled_cc = executed[i]

UnusedInv == \A i \in Id : i > seq =>
    /\ route[i] = "idle"
    /\ executed[i] = 0
    /\ att[i].filled_cc = 0

OrderInv == \A i \in Id :
    /\ route[i] \in {"approved", "gated"} => order[i] = "none"
    /\ order[i] \in {"none", "wire"} => executed[i] = 0
    /\ order[i] = "live" => executed[i] < att[i].qty_cc
    /\ market = "terminal" => order[i] \in {"none", "dead"}
    /\ i <= seq => att[i].qty_cc > 0
    /\ att[i].filled_cc <= executed[i]

ReplyInv == \A i \in Id : route[i] = "replied" =>
    /\ reply[i].order_id \in {Unbound, i}
    /\ reply[i].filled_cc <= executed[i]
    /\ reply[i].outcome = "executed" =>
           order[i] = "dead" /\ reply[i].filled_cc = executed[i]
    /\ reply[i].outcome = "dead" => order[i] = "dead" /\ executed[i] = 0
    /\ reply[i].outcome = "never_sent" => order[i] = "none"
    /\ reply[i].outcome = "working" => reply[i].filled_cc < att[i].qty_cc

ClosedInv == \A i \in Id : i <= seq /\ i # active => Closable(i)

ActiveInv == active # None =>
    /\ att[active].state \in Unresolved \cup {"RETRY_ELIGIBLE"}
    /\ att[active].client_order_id \in {Unbound, active}
    /\ att[active].order_id \in {Unbound, active}
    /\ Routing(active) => /\ att[active].state = "SUBMITTING"
                          /\ att[active].filled_cc = 0
    /\ att[active].state = "RETRY_ELIGIBLE" => Closable(active)

\* A pass that has read its attempt asks about one order, whose route is over,
\* and what it was answered is true of that order.
ReconcilerInv == \A r \in Reconcilers :
    reconciler[r].pc \in {"asking", "answered"} =>
        \A i \in Targets(r) :
            /\ i <= seq /\ ~Routing(i)
            /\ \A j \in Targets(r) : j = i
            /\ reconciler[r].pc = "answered" =>
                   /\ reconciler[r].answer.filled_cc <= executed[i]
                   /\ reconciler[r].answer.kind = "terminal" =>
                          /\ order[i] = "dead"
                          /\ reconciler[r].answer.filled_cc = executed[i]

SafetyInv == /\ UnusedInv /\ OrderInv /\ ReplyInv
             /\ ClosedInv /\ ActiveInv /\ ReconcilerInv

-----------------------------------------------------------------------------
(* Consequences of the invariant.                                          *)

\* Only the active attempt has a route under way.
LEMMA RoutingIsActive ==
    ASSUME TypeOK, UnusedInv, ClosedInv, NEW i \in Id, Routing(i)
    PROVE  i = active /\ active # None
  <1>1. i <= seq
    BY BoundsAreNat DEF UnusedInv, Routing, TypeOK, OrderRef, Id
  <1>2. i # None
    BY BoundsAreNat DEF Id, None
  <1>3. QED
    BY <1>1, <1>2 DEF ClosedInv, Closable, Settled, Routing

\* A producer finds nothing of an earlier attempt under way.
LEMMA MintOverClosable ==
    ASSUME ClosedInv, ActiveInv, MayMint, NEW i \in Id, i <= seq
    PROVE  Closable(i)
  BY DEF ClosedInv, ActiveInv, MayMint, None, Id

\* What a method may make of the active attempt: b names the same order, counts
\* no more than it executed, and is released or closed only once it has ended.
Sound(b) ==
    /\ b \in Attempt
    /\ b.qty_cc = att[active].qty_cc
    /\ b.client_order_id = att[active].client_order_id
    /\ b.order_id \in {Unbound, active}
    /\ b.filled_cc <= executed[active]
    /\ b.state \in Unresolved \cup {"RETRY_ELIGIBLE", "FLAT"}
    /\ b.state \in {"RETRY_ELIGIBLE", "FLAT"} =>
           /\ order[active] \in {"none", "dead"}
           /\ market = "open" => b.filled_cc = executed[active]

\* The store's share of the invariant, when a method's result is saved and the
\* active attempt has no route left.
LEMMA SaveSafe ==
    ASSUME IdentityInv, SafetyInv, active # None, NEW b, Sound(b), Save(b),
           UNCHANGED exchange,
           \A i \in Id : \/ route'[i] = route[i]
                         \/ Routing(i) /\ route'[i] = "done",
           route'[active] \in {"idle", "done"},
           \A i \in Id : route'[i] = "replied" => reply'[i] = reply[i]
    PROVE  UnusedInv' /\ OrderInv' /\ ReplyInv' /\ ClosedInv' /\ ActiveInv'
  <1>1. /\ StoreOK /\ TypeOK
        /\ UnusedInv /\ OrderInv /\ ClosedInv /\ ActiveInv
    BY DEF IdentityInv, SafetyInv, TypeOK, StoreOK
  <1>2. active \in Id /\ active <= seq /\ active # None
    BY <1>1, ActiveType DEF IdentityInv, Named
  <1>3. /\ att' = [att EXCEPT ![active] = b] /\ seq' = seq
        /\ active' = IF b.state = "FLAT" THEN None ELSE active
        /\ order' = order /\ executed' = executed /\ market' = market
    BY DEF Save, exchange
  <1>4. att'[active] = b /\ \A i \in Id : i # active => att'[i] = att[i]
    BY <1>1, <1>2, <1>3 DEF StoreOK
  <1>5. \A i \in Id : att'[i].qty_cc = att[i].qty_cc
    BY <1>4 DEF Sound
  <1>6. UnusedInv'
    BY <1>1, <1>2, <1>3, <1>4, BoundsAreNat
       DEF UnusedInv, Routing, StoreOK, OrderRef, Id
  <1>7. OrderInv'
    BY <1>1, <1>3, <1>4, <1>5 DEF OrderInv, Sound
  <1>7a. ReplyInv'
    BY <1>3, <1>5 DEF SafetyInv, ReplyInv
  <1>8. ASSUME NEW i \in Id, i = active, b.state \in {"RETRY_ELIGIBLE", "FLAT"}
        PROVE  Closable(i)'
    BY <1>3, <1>4, <1>8 DEF Closable, Settled, Sound
  <1>9. ClosedInv'
    <2> SUFFICES ASSUME NEW i \in Id, i <= seq', i # active'
                 PROVE  Closable(i)'
      BY DEF ClosedInv
    <2>1. CASE i = active
      BY <1>3, <1>8, <2>1
    <2>2. CASE i # active
      <3>1. Closable(i)
        BY <1>1, <1>3, <2>2 DEF ClosedInv
      <3>2. QED
        BY <1>3, <1>4, <2>2, <3>1 DEF Closable, Settled, Routing
    <2>3. QED
      BY <2>1, <2>2
  <1>10. ActiveInv'
    <2> SUFFICES ASSUME active' # None PROVE ActiveInv'
      BY DEF ActiveInv
    <2>1. active' = active /\ b.state # "FLAT"
      BY <1>3
    <2>2. ~Routing(active)'
      BY <2>1 DEF Routing
    <2>3. b.client_order_id \in {Unbound, active}
      BY <1>1 DEF ActiveInv, Sound
    <2>4. QED
      BY <1>2, <1>4, <1>8, <2>1, <2>2, <2>3 DEF ActiveInv, Sound
  <1>11. QED
    BY <1>6, <1>7, <1>7a, <1>9, <1>10

-----------------------------------------------------------------------------
(* What the lifecycle methods do to an attempt, field by field.            *)

\* The fields no method but bind_attempt_identity touches.
Same(a, b) == /\ b.qty_cc = a.qty_cc
              /\ b.client_order_id = a.client_order_id
              /\ b.order_id = a.order_id

LEMMA StateEffects ==
    ASSUME NEW a \in Attempt
    PROVE  /\ /\ Same(a, Acked(a)) /\ Acked(a).filled_cc = a.filled_cc
              /\ a.state = "SUBMITTING" =>
                     Acked(a).state = "WORKING_OR_PARTIALLY_FILLED"
           /\ /\ Same(a, AckUnknown(a)) /\ AckUnknown(a).filled_cc = a.filled_cc
              /\ a.state = "SUBMITTING" => AckUnknown(a).state = "ACK_UNKNOWN"
           /\ /\ Same(a, BeginReconcile(a))
              /\ BeginReconcile(a).filled_cc = a.filled_cc
              /\ a.state \in Unresolved =>
                     BeginReconcile(a).state = "RECONCILING"
           /\ /\ Same(a, Reloaded(a)) /\ Reloaded(a).filled_cc = a.filled_cc
              /\ Reloaded(a).state = IF a.state \in Unresolved
                                     THEN "RECONCILING" ELSE a.state
           /\ /\ Same(a, Settle(a)) /\ Settle(a).filled_cc = a.filled_cc
              /\ Settle(a).state \in {a.state, "FLAT"}
              /\ a.state # "RETRY_ELIGIBLE" => Settle(a) = a
           /\ /\ Same(a, MarkFlat(a)) /\ MarkFlat(a).filled_cc = a.filled_cc
              /\ MarkFlat(a).state = "FLAT"
  BY DEF Same, Attempt, AttemptState, Acked, AckUnknown, BeginReconcile,
         Reloaded, Settle, MarkFlat, Unresolved

LEMMA RecordFillEffect ==
    ASSUME NEW a \in Attempt, NEW cc \in Nat
    PROVE  /\ Same(a, RecordFill(a, cc))
           /\ RecordFill(a, cc).filled_cc = a.filled_cc + cc
           /\ RecordFill(a, cc).state = IF a.filled_cc + cc >= a.qty_cc THEN "FLAT"
                                        ELSE IF a.state = "SUBMITTING"
                                        THEN "WORKING_OR_PARTIALLY_FILLED"
                                        ELSE a.state
  BY DEF Same, Attempt, RecordFill

\* An order found dead, and one found working.
LEMMA ResolveDeadEffect ==
    ASSUME NEW a \in Attempt, a.state \in Unresolved, NEW f \in 0..Qty
    PROVE  LET b == ResolveReconcile(a, Found(TRUE, f))
               m == IF f > a.filled_cc THEN f ELSE a.filled_cc
           IN  /\ Same(a, b)
               /\ b.filled_cc = m
               /\ b.state = IF m >= a.qty_cc THEN "FLAT" ELSE "RETRY_ELIGIBLE"
  <1> DEFINE ev == Found(TRUE, f)
             m  == IF f > a.filled_cc THEN f ELSE a.filled_cc
  <1>1. ev.order_found /\ ev.terminal /\ ev.filled_cc = f
    BY DEF Found
  <1> HIDE DEF ev
  <1>2. ResolveReconcile(a, ev) =
            [a EXCEPT !.filled_cc = m, !.state = FoundState(a, ev, m)]
    BY <1>1 DEF ResolveReconcile, ResolveFound
  <1> HIDE DEF m
  <1>3. FoundState(a, ev, m) = IF m >= a.qty_cc THEN "FLAT" ELSE "RETRY_ELIGIBLE"
    BY <1>1 DEF FoundState
  <1>4. QED
    BY <1>2, <1>3 DEF Same, Attempt, ev, m

LEMMA ResolveWorkingEffect ==
    ASSUME NEW a \in Attempt, a.state \in Unresolved, NEW f \in 0..Qty
    PROVE  LET b == ResolveReconcile(a, Found(FALSE, f))
           IN  /\ Same(a, b)
               /\ b.filled_cc = IF f > a.filled_cc THEN f ELSE a.filled_cc
               /\ b.state = "WORKING_OR_PARTIALLY_FILLED"
  <1> DEFINE ev == Found(FALSE, f)
             m  == IF f > a.filled_cc THEN f ELSE a.filled_cc
  <1>1. ev.order_found /\ ~ev.terminal /\ ev.filled_cc = f
    BY DEF Found
  <1> HIDE DEF ev
  <1>2. ResolveReconcile(a, ev) =
            [a EXCEPT !.filled_cc = m, !.state = FoundState(a, ev, m)]
    BY <1>1 DEF ResolveReconcile, ResolveFound
  <1> HIDE DEF m
  <1>3. FoundState(a, ev, m) = "WORKING_OR_PARTIALLY_FILLED"
    BY <1>1 DEF FoundState
  <1>4. QED
    BY <1>2, <1>3 DEF Same, Attempt, ev, m

LEMMA ResolveAbsentEffect ==
    ASSUME NEW a \in Attempt, a.state \in Unresolved, NEW ev \in Evidence,
           ~ev.order_found
    PROVE  LET b == ResolveReconcile(a, ev)
           IN  /\ Same(a, b)
               /\ b.filled_cc = a.filled_cc
               /\ b.state = IF ev.local_no_transmit \/ NeverTransmitted(a)
                            THEN "RETRY_ELIGIBLE" ELSE a.state
  BY DEF Same, Attempt, Evidence, ResolveReconcile

LEMMA ReleaseResidualEffect ==
    ASSUME NEW a \in Attempt, a.state \in Unresolved \cup {"FLAT"},
           a.state = "FLAT" \/ a.filled_cc < a.qty_cc
    PROVE  LET b == ReleaseResidual(a)
           IN  /\ Same(a, b)
               /\ b.filled_cc = a.filled_cc
               /\ b.state \in {"RETRY_ELIGIBLE", "FLAT"}
  <1>1. CASE a.state = "FLAT"
    BY <1>1 DEF ReleaseResidual, Same
  <1>2. CASE a.state # "FLAT"
    <2> DEFINE c == BeginReconcile(a)
    <2>1. a.filled_cc \in 0..Qty
      BY <1>2, BoundsAreNat DEF Attempt
    <2>2. /\ c \in Attempt /\ Same(a, c) /\ c.filled_cc = a.filled_cc
          /\ c.state = "RECONCILING" /\ c.state \in Unresolved
      BY <1>2, LifecycleTypes, StateEffects DEF Unresolved
    <2>3. ReleaseResidual(a) = ResolveReconcile(c, Found(TRUE, a.filled_cc))
      BY <1>2 DEF ReleaseResidual
    <2> DEFINE d == ResolveReconcile(c, Found(TRUE, a.filled_cc))
    <2> HIDE DEF c
    <2>4. /\ Same(c, d) /\ d.filled_cc = c.filled_cc
          /\ d.state \in {"RETRY_ELIGIBLE", "FLAT"}
      BY <2>1, <2>2, ResolveDeadEffect
    <2>5. QED
      BY <2>2, <2>3, <2>4 DEF Same
  <1>3. QED
    BY <1>1, <1>2

\* A route's result, applied to the attempt that sent the order.
LEMMA RouteUpdateEffect ==
    ASSUME NEW b \in Attempt, b.state = "SUBMITTING", b.filled_cc = 0,
           b.qty_cc > 0, NEW r \in Reply
    PROVE  LET c == RouteUpdate(b, r)
           IN  /\ c.qty_cc = b.qty_cc
               /\ c.client_order_id = b.client_order_id
               /\ c.order_id \in {b.order_id, r.order_id}
               /\ r.outcome = "executed" =>
                      /\ c.filled_cc = r.filled_cc
                      /\ c.state \in {"RETRY_ELIGIBLE", "FLAT"}
               /\ r.outcome = "working" =>
                      /\ c.filled_cc = r.filled_cc
                      /\ r.filled_cc < b.qty_cc =>
                             c.state = "WORKING_OR_PARTIALLY_FILLED"
               /\ r.outcome \in {"dead", "never_sent"} =>
                      c.filled_cc = 0 /\ c.state = "RETRY_ELIGIBLE"
               /\ r.outcome = "unknown" =>
                      c.filled_cc = 0 /\ c.state = "ACK_UNKNOWN"
  <1> DEFINE a == Bind(b, Unbound, r.order_id)
  <1>1. /\ r.outcome \in Outcome /\ r.filled_cc \in Nat /\ r.order_id \in OrderRef
        /\ Unbound \in OrderRef /\ 0 \in 0..Qty
        /\ b.qty_cc \in Nat
    BY BoundsAreNat DEF Reply, Unbound, OrderRef, Attempt
  <1>2. /\ a \in Attempt
        /\ a.state = "SUBMITTING" /\ a.filled_cc = 0 /\ a.qty_cc = b.qty_cc
        /\ a.client_order_id = b.client_order_id
        /\ a.order_id \in {b.order_id, r.order_id}
    <2>1. a \in Attempt
      BY <1>1, BindType
    <2>2. QED
      BY <2>1 DEF Bind, Attempt
  <1> HIDE DEF a
  <1> DEFINE w == Acked(a)
             g == BeginReconcile(a)
             f == RecordFill(w, r.filled_cc)
  <1>3. /\ w \in Attempt /\ Same(a, w) /\ w.filled_cc = 0
        /\ w.state = "WORKING_OR_PARTIALLY_FILLED"
    BY <1>2, LifecycleTypes, StateEffects
  <1>3a. /\ g \in Attempt /\ Same(a, g) /\ g.filled_cc = 0
         /\ g.state = "RECONCILING" /\ g.state \in Unresolved
    BY <1>2, LifecycleTypes, StateEffects DEF Unresolved
  <1>3b. /\ Same(a, AckUnknown(a)) /\ AckUnknown(a).filled_cc = 0
         /\ AckUnknown(a).state = "ACK_UNKNOWN"
    BY <1>2, StateEffects
  <1> HIDE DEF w, g
  <1>4. /\ f \in Attempt /\ Same(a, f) /\ f.filled_cc = r.filled_cc
        /\ f.state = IF r.filled_cc >= b.qty_cc THEN "FLAT"
                     ELSE "WORKING_OR_PARTIALLY_FILLED"
    <2>1. f \in Attempt
      BY <1>1, <1>3, RecordFillType
    <2>2. /\ Same(w, f) /\ f.filled_cc = w.filled_cc + r.filled_cc
          /\ f.state = IF w.filled_cc + r.filled_cc >= w.qty_cc THEN "FLAT"
                       ELSE w.state
      BY <1>1, <1>3, RecordFillEffect
    <2> HIDE DEF f
    <2>3. QED
      BY <1>1, <1>2, <1>3, <2>1, <2>2 DEF Same
  <1> HIDE DEF f
  <1> DEFINE c == RouteUpdate(b, r)
  <1>5. CASE r.outcome = "executed"
    <2>1. c = ReleaseResidual(f)
      BY <1>5 DEF RouteUpdate, a, w, f
    <2>2. /\ f.state \in Unresolved \cup {"FLAT"}
          /\ f.state = "FLAT" \/ f.filled_cc < f.qty_cc
      BY <1>1, <1>2, <1>4 DEF Unresolved, Same
    <2>3. QED
      BY <1>2, <1>4, <1>5, <2>1, <2>2, ReleaseResidualEffect DEF Same
  <1>6. CASE r.outcome = "working"
    <2>1. CASE r.filled_cc > 0
      <3>1. c = f
        BY <1>6, <2>1 DEF RouteUpdate, a, w, f
      <3>2. QED
        BY <1>1, <1>2, <1>4, <1>6, <3>1 DEF Same
    <2>2. CASE r.filled_cc = 0
      <3>1. c = w
        BY <1>6, <2>2 DEF RouteUpdate, a, w
      <3>2. QED
        BY <1>2, <1>3, <1>6, <2>2, <3>1 DEF Same
    <2>3. QED
      BY <1>1, <2>1, <2>2
  <1>7. CASE r.outcome = "dead"
    <2>1. c = ResolveReconcile(g, Found(TRUE, 0))
      BY <1>7 DEF RouteUpdate, a, g
    <2> DEFINE d == ResolveReconcile(g, Found(TRUE, 0))
    <2>2. /\ Same(g, d)
          /\ d.filled_cc = IF 0 > g.filled_cc THEN 0 ELSE g.filled_cc
          /\ d.state = IF d.filled_cc >= g.qty_cc THEN "FLAT" ELSE "RETRY_ELIGIBLE"
      BY <1>1, <1>3a, ResolveDeadEffect
    <2>2a. c = d
      BY <2>1
    <2> HIDE DEF c, d
    <2>3. c.filled_cc = 0 /\ c.state = "RETRY_ELIGIBLE"
      BY <1>1, <1>2, <1>3a, <2>2, <2>2a DEF Same
    <2>4. QED
      BY <1>2, <1>3a, <1>7, <2>2, <2>2a, <2>3 DEF Same, c
  <1>8. CASE r.outcome = "never_sent"
    <2>1. c = ResolveReconcile(g, NoTransmit)
      BY <1>8 DEF RouteUpdate, a, g
    <2>2. /\ NoTransmit \in Evidence /\ ~NoTransmit.order_found
          /\ NoTransmit.local_no_transmit
      BY EvidenceTypes DEF NoTransmit
    <2>3. QED
      BY <1>2, <1>3a, <1>8, <2>1, <2>2, ResolveAbsentEffect DEF Same
  <1>9. CASE r.outcome = "unknown"
    <2>1. c = AckUnknown(a)
      BY <1>9 DEF RouteUpdate, a
    <2>2. QED
      BY <1>2, <1>3b, <1>9, <2>1 DEF Same
  <1>10. QED
    BY <1>1, <1>5, <1>6, <1>7, <1>8, <1>9 DEF Outcome

-----------------------------------------------------------------------------
(* Every method makes of the active attempt what Sound allows.             *)

\* The facts about the active attempt that the methods' cases rest on.
LEMMA ActiveFacts ==
    ASSUME IdentityInv, SafetyInv, active # None
    PROVE  /\ active \in Id /\ active <= seq /\ att[active] \in Attempt
           /\ executed[active] \in 0..Qty
           /\ att[active].qty_cc > 0
           /\ att[active].filled_cc <= executed[active]
           /\ att[active].order_id \in {Unbound, active}
           /\ att[active].state \in Unresolved \cup {"RETRY_ELIGIBLE"}
           /\ att[active].state = "RETRY_ELIGIBLE" => Closable(active)
  <1>1. active \in Id /\ att[active] \in Attempt /\ active <= seq
    BY ActiveType DEF IdentityInv, TypeOK, StoreOK, Named
  <1>2. executed[active] \in 0..Qty
    BY <1>1 DEF IdentityInv, TypeOK
  <1>3. QED
    BY <1>1, <1>2 DEF SafetyInv, OrderInv, ActiveInv

\* Leaving it as it is.
LEMMA UnchangedSound ==
    ASSUME IdentityInv, SafetyInv, active # None
    PROVE  Sound(att[active])
  <1>1. att[active].state = "RETRY_ELIGIBLE" =>
            /\ order[active] \in {"none", "dead"}
            /\ market = "open" => att[active].filled_cc = executed[active]
    BY ActiveFacts DEF Closable, Settled
  <1>2. att[active].state = "FLAT" => FALSE
    BY ActiveFacts DEF Unresolved
  <1>3. QED
    BY <1>1, <1>2, ActiveFacts DEF Sound

\* An acknowledgement lost, at any point of the route.
LEMMA AckUnknownSound ==
    ASSUME IdentityInv, SafetyInv, active # None, Routing(active)
    PROVE  Sound(AckUnknown(att[active]))
  <1>1. att[active].state = "SUBMITTING"
    BY DEF SafetyInv, ActiveInv
  <1>2. QED
    BY <1>1, ActiveFacts, LifecycleTypes, StateEffects DEF Same, Sound, Unresolved

\* A route's result.
LEMMA RouteUpdateSound ==
    ASSUME IdentityInv, SafetyInv, active # None, route[active] = "replied"
    PROVE  Sound(RouteUpdate(att[active], reply[active]))
  <1> DEFINE a == att[active]
             r == reply[active]
             b == RouteUpdate(a, r)
  <1>1. /\ a \in Attempt /\ a.state = "SUBMITTING" /\ a.filled_cc = 0
        /\ a.qty_cc > 0 /\ executed[active] \in Nat
        /\ a.order_id \in {Unbound, active} /\ active \in Id
    BY ActiveFacts, BoundsAreNat DEF SafetyInv, ActiveInv, Routing
  <1>2. /\ r \in Reply
        /\ r.order_id \in {Unbound, active}
        /\ r.filled_cc <= executed[active]
        /\ r.outcome = "executed" =>
               order[active] = "dead" /\ r.filled_cc = executed[active]
        /\ r.outcome = "dead" => order[active] = "dead" /\ executed[active] = 0
        /\ r.outcome = "never_sent" => order[active] = "none"
        /\ r.outcome = "working" => r.filled_cc < a.qty_cc
    BY <1>1 DEF IdentityInv, TypeOK, SafetyInv, ReplyInv
  <1>3. r.outcome = "never_sent" => executed[active] = 0
    BY <1>1, <1>2 DEF SafetyInv, OrderInv
  <1>4. b \in Attempt
    BY <1>1, <1>2, RouteUpdateType
  <1> HIDE DEF a, r
  <1>5. /\ b.qty_cc = a.qty_cc
        /\ b.client_order_id = a.client_order_id
        /\ b.order_id \in {a.order_id, r.order_id}
        /\ r.outcome = "executed" =>
               /\ b.filled_cc = r.filled_cc
               /\ b.state \in {"RETRY_ELIGIBLE", "FLAT"}
        /\ r.outcome = "working" =>
               /\ b.filled_cc = r.filled_cc
               /\ r.filled_cc < a.qty_cc =>
                      b.state = "WORKING_OR_PARTIALLY_FILLED"
        /\ r.outcome \in {"dead", "never_sent"} =>
               b.filled_cc = 0 /\ b.state = "RETRY_ELIGIBLE"
        /\ r.outcome = "unknown" =>
               b.filled_cc = 0 /\ b.state = "ACK_UNKNOWN"
    BY <1>1, <1>2, RouteUpdateEffect
  <1> HIDE DEF b
  <1>6. r.outcome \in {"executed", "working", "dead", "never_sent", "unknown"}
    BY <1>2 DEF Reply, Outcome
  <1>7. b.filled_cc <= executed[active]
    BY <1>1, <1>2, <1>5, <1>6
  <1>8. b.state \in {"RETRY_ELIGIBLE", "FLAT"} =>
            order[active] \in {"none", "dead"} /\ b.filled_cc = executed[active]
    BY <1>2, <1>3, <1>5, <1>6
  <1>9. b.state \in Unresolved \cup {"RETRY_ELIGIBLE", "FLAT"}
    BY <1>2, <1>5, <1>6 DEF Unresolved
  <1>10. b.order_id \in {Unbound, active}
    BY <1>1, <1>2, <1>5
  <1>11. Sound(b)
    BY <1>4, <1>5, <1>7, <1>8, <1>9, <1>10 DEF Sound, a
  <1>12. QED
    BY <1>11 DEF a, b, r

\* An attempt that no route is left for and that has no identity was never sent.
LEMMA NeverTransmittedIsNeverSent ==
    ASSUME IdentityInv, SafetyInv, active # None, NeverTransmitted(att[active])
    PROVE  /\ order[active] = "none" /\ route[active] = "idle"
           /\ executed[active] = 0 /\ att[active].filled_cc = 0
  <1>1. active \in Id /\ att[active].client_order_id # active
    BY ActiveFacts, BoundsAreNat DEF NeverTransmitted, Unbound, None
  <1>2. route[active] = "idle" /\ order[active] = "none"
    BY <1>1 DEF IdentityInv, Named
  <1>3. executed[active] = 0
    BY <1>1, <1>2 DEF SafetyInv, OrderInv
  <1>4. QED
    BY <1>2, <1>3, ActiveFacts, BoundsAreNat DEF Attempt

\* Closing a resolved attempt at once changes nothing that Sound says.
LEMMA SettleSound ==
    ASSUME NEW b, Sound(b)
    PROVE  Sound(Settle(b))
  <1>1. /\ Settle(b) \in Attempt /\ Same(b, Settle(b))
        /\ Settle(b).filled_cc = b.filled_cc
        /\ Settle(b).state \in {b.state, "FLAT"}
        /\ b.state # "RETRY_ELIGIBLE" => Settle(b) = b
    BY LifecycleTypes, StateEffects DEF Sound
  <1>2. CASE b.state # "RETRY_ELIGIBLE"
    BY <1>1, <1>2
  <1>3. CASE b.state = "RETRY_ELIGIBLE"
    BY <1>1, <1>3 DEF Sound, Same
  <1>4. QED
    BY <1>2, <1>3

\* The start of a pass.
LEMMA BegunSound ==
    ASSUME IdentityInv, SafetyInv, active # None
    PROVE  /\ Sound(Begun(att[active]))
           /\ ~NeverTransmitted(att[active]) => Begun(att[active]).state # "FLAT"
  <1> DEFINE a == att[active]
             g == BeginReconcile(a)
  <1>0. CASE a.state \notin Unresolved
    <2>1. a.state = "RETRY_ELIGIBLE" /\ a \in Attempt
      BY <1>0, ActiveFacts
    <2>2. g = a /\ ResolveReconcile(g, NoTransmit) = a
      BY <1>0 DEF BeginReconcile, ResolveReconcile
    <2>3. Begun(a) \in {a, Settle(a)}
      BY <2>2 DEF Begun
    <2>4. ~NeverTransmitted(a) => Begun(a) = a
      BY <2>2 DEF Begun
    <2>5. QED
      BY <2>1, <2>3, <2>4, UnchangedSound, SettleSound
  <1>1. ASSUME a.state \in Unresolved
        PROVE  /\ a \in Attempt /\ g \in Attempt /\ Same(a, g)
               /\ g.filled_cc = a.filled_cc /\ g.state = "RECONCILING"
               /\ g.state \in Unresolved
    BY <1>1, ActiveFacts, LifecycleTypes, StateEffects DEF Unresolved
  <1>2. CASE a.state \in Unresolved /\ ~NeverTransmitted(a)
    <2>1. Begun(a) = g
      BY <1>2 DEF Begun
    <2>2. Sound(g)
      BY <1>1, <1>2, ActiveFacts DEF Sound, Same
    <2>3. QED
      BY <1>1, <1>2, <2>1, <2>2
  <1>3. CASE a.state \in Unresolved /\ NeverTransmitted(a)
    <2> DEFINE d == ResolveReconcile(g, NoTransmit)
    <2> HIDE DEF g
    <2>1. /\ NoTransmit \in Evidence /\ ~NoTransmit.order_found
          /\ NoTransmit.local_no_transmit
      BY EvidenceTypes DEF NoTransmit
    <2>2. /\ d \in Attempt /\ Same(g, d) /\ d.filled_cc = g.filled_cc
          /\ d.state = "RETRY_ELIGIBLE"
      BY <1>1, <1>3, <2>1, ResolveType, ResolveAbsentEffect
    <2>3. Begun(a) = Settle(d)
      BY <1>3 DEF Begun, g
    <2> HIDE DEF d
    <2>4. /\ order[active] = "none" /\ executed[active] = 0 /\ a.filled_cc = 0
      BY <1>3, NeverTransmittedIsNeverSent
    <2>5. Sound(d)
      BY <1>1, <1>3, <2>2, <2>4, ActiveFacts DEF Sound, Same
    <2>6. QED
      BY <1>3, <2>3, <2>5, SettleSound
  <1>4. QED
    BY <1>0, <1>2, <1>3

\* The end of a pass, about the active attempt.
LEMMA ResolvedSound ==
    ASSUME IdentityInv, SafetyInv, active # None, NEW answer \in Answer,
           answer.filled_cc <= executed[active],
           answer.kind = "terminal" =>
               order[active] = "dead" /\ answer.filled_cc = executed[active]
    PROVE  Sound(Resolved(att[active], answer))
  <1> DEFINE a == att[active]
             d == ResolveReconcile(a, EvidenceOf(answer))
  <1>1. /\ a \in Attempt /\ a.filled_cc \in Nat
        /\ a.filled_cc <= executed[active] /\ executed[active] \in 0..Qty
        /\ a.order_id \in {Unbound, active}
        /\ answer.filled_cc \in 0..Qty /\ 0 \in 0..Qty /\ active \in Id
    BY ActiveFacts, BoundsAreNat DEF Answer, Attempt
  <1>2. Sound(a)
    BY UnchangedSound
  <1>2a. CASE a.state \notin Unresolved
    <2>1. Resolved(a, answer) = Settle(a)
      BY <1>2a DEF Resolved, ResolveReconcile
    <2>2. QED
      BY <1>2, <2>1, SettleSound
  <1>3. CASE answer.kind = "unrecognised"
    BY <1>2, <1>3, SettleSound DEF Resolved
  <1>4. CASE a.state \in Unresolved /\ answer.kind # "unrecognised"
    <2>1. Resolved(a, answer) = Settle(d)
      BY <1>4 DEF Resolved
    <2>2. d \in Attempt
      <3>1. EvidenceOf(answer) \in Evidence
        BY AnswerTypes, PipelineConstants DEF IdentityInv
      <3>2. QED
        BY <1>1, <3>1, ResolveType
    <2>3. CASE answer.kind = "terminal"
      <3>1. EvidenceOf(answer) = Found(TRUE, answer.filled_cc)
        BY <2>3 DEF EvidenceOf
      <3>2. /\ Same(a, d)
            /\ d.filled_cc = IF answer.filled_cc > a.filled_cc
                             THEN answer.filled_cc ELSE a.filled_cc
            /\ d.state \in {"RETRY_ELIGIBLE", "FLAT"}
        <4> HIDE DEF a
        <4>1. d = ResolveReconcile(a, Found(TRUE, answer.filled_cc))
          BY <3>1
        <4> HIDE DEF d
        <4>2. QED
          BY <1>1, <1>4, <4>1, ResolveDeadEffect
      <3> HIDE DEF d
      <3>3. d.filled_cc = executed[active]
        BY <1>1, <2>3, <3>2
      <3>4. Sound(d)
        BY <1>1, <2>2, <2>3, <3>2, <3>3 DEF Sound, Same
      <3>5. QED
        BY <2>1, <3>4, SettleSound
    <2>4. CASE answer.kind = "working"
      <3>1. EvidenceOf(answer) = Found(FALSE, answer.filled_cc)
        BY <2>4 DEF EvidenceOf
      <3>2. /\ Same(a, d)
            /\ d.filled_cc = IF answer.filled_cc > a.filled_cc
                             THEN answer.filled_cc ELSE a.filled_cc
            /\ d.state = "WORKING_OR_PARTIALLY_FILLED"
        <4> HIDE DEF a
        <4>1. d = ResolveReconcile(a, Found(FALSE, answer.filled_cc))
          BY <3>1
        <4> HIDE DEF d
        <4>2. QED
          BY <1>1, <1>4, <4>1, ResolveWorkingEffect
      <3> HIDE DEF d
      <3>3. Sound(d)
        BY <1>1, <2>2, <3>2 DEF Sound, Same, Unresolved
      <3>4. QED
        BY <2>1, <3>3, SettleSound
    <2>5. CASE answer.kind = "none" /\ market = "terminal"
      <3>1. EvidenceOf(answer) = Found(TRUE, 0)
        BY <2>5 DEF EvidenceOf
      <3>2. /\ Same(a, d) /\ d.filled_cc = a.filled_cc
            /\ d.state \in {"RETRY_ELIGIBLE", "FLAT"}
        <4> HIDE DEF a
        <4>1. d = ResolveReconcile(a, Found(TRUE, 0))
          BY <3>1
        <4> HIDE DEF d
        <4>2. /\ Same(a, d)
              /\ d.filled_cc = IF 0 > a.filled_cc THEN 0 ELSE a.filled_cc
              /\ d.state \in {"RETRY_ELIGIBLE", "FLAT"}
          BY <1>1, <1>4, <4>1, ResolveDeadEffect
        <4>3. QED
          BY <1>1, <4>2
      <3> HIDE DEF d
      <3>3. order[active] \in {"none", "dead"}
        BY <1>1, <2>5 DEF SafetyInv, OrderInv
      <3>4. Sound(d)
        BY <1>1, <2>2, <2>5, <3>2, <3>3 DEF Sound, Same
      <3>5. QED
        BY <2>1, <3>4, SettleSound
    <2>6. CASE answer.kind = "none" /\ market # "terminal"
      <3>1. EvidenceOf(answer) = Inconclusive
        BY <2>6 DEF EvidenceOf
      <3>2. /\ Inconclusive \in Evidence /\ ~Inconclusive.order_found
            /\ ~Inconclusive.local_no_transmit
        BY EvidenceTypes DEF Inconclusive, NoTransmit
      <3>3. /\ Same(a, d) /\ d.filled_cc = a.filled_cc
            /\ d.state = IF NeverTransmitted(a) THEN "RETRY_ELIGIBLE"
                         ELSE a.state
        BY <1>1, <1>4, <3>1, <3>2, ResolveAbsentEffect
      <3> HIDE DEF d
      <3>4. NeverTransmitted(a) => /\ order[active] = "none"
                                   /\ executed[active] = a.filled_cc
        BY NeverTransmittedIsNeverSent
      <3>5. Sound(d)
        BY <1>1, <1>4, <2>2, <3>3, <3>4 DEF Sound, Same, Unresolved
      <3>6. QED
        BY <2>1, <3>5, SettleSound
    <2>7. QED
      BY <1>4, <2>3, <2>4, <2>5, <2>6 DEF Answer
  <1>5. QED
    BY <1>2a, <1>3, <1>4

-----------------------------------------------------------------------------
(* Every step keeps the invariant.                                         *)

\* A route under way is the active attempt's.
LEMMA RoutingIsSubmitting ==
    ASSUME IdentityInv, SafetyInv, NEW i \in Id, Routing(i)
    PROVE  /\ i = active /\ active # None /\ i <= seq
           /\ att[active].state = "SUBMITTING"
  <1>1. i = active /\ active # None
    BY RoutingIsActive DEF IdentityInv, SafetyInv
  <1>2. QED
    BY <1>1, ActiveFacts DEF SafetyInv, ActiveInv

LEMMA IdleReconcilersSafe ==
    ASSUME \A r \in Reconcilers : reconciler'[r].pc = "idle"
    PROVE  ReconcilerInv'
  BY DEF ReconcilerInv

\* A step that no pass takes leaves every pass's evidence true.
LEMMA PassesKept ==
    ASSUME IdentityInv, SafetyInv, UNCHANGED reconciler,
           seq' \in Nat, seq <= seq',
           \A i \in Id : /\ i <= seq /\ ~Routing(i) => ~Routing(i)'
                         /\ executed'[i] \in Nat /\ executed[i] <= executed'[i]
                         /\ order[i] = "dead" =>
                                order'[i] = "dead" /\ executed'[i] = executed[i]
    PROVE  ReconcilerInv'
  <1> SUFFICES ASSUME NEW r \in Reconcilers,
                      reconciler[r].pc \in {"asking", "answered"},
                      NEW i \in Targets(r)
               PROVE  /\ i <= seq' /\ ~Routing(i)'
                      /\ \A j \in Targets(r) : j = i
                      /\ reconciler[r].pc = "answered" =>
                             /\ reconciler[r].answer.filled_cc <= executed'[i]
                             /\ reconciler[r].answer.kind = "terminal" =>
                                    /\ order'[i] = "dead"
                                    /\ reconciler[r].answer.filled_cc = executed'[i]
    BY DEF ReconcilerInv, Targets
  <1>1. /\ i \in Id /\ i \in Nat /\ seq \in Nat /\ executed[i] \in Nat
        /\ reconciler[r].answer.filled_cc \in Nat
    BY BoundsAreNat DEF Targets, IdentityInv, TypeOK, ReconcilerState, Answer,
                        OrderRef, Unbound, Id
  <1>2. /\ i <= seq /\ ~Routing(i)
        /\ \A j \in Targets(r) : j = i
        /\ reconciler[r].pc = "answered" =>
               /\ reconciler[r].answer.filled_cc <= executed[i]
               /\ reconciler[r].answer.kind = "terminal" =>
                      /\ order[i] = "dead"
                      /\ reconciler[r].answer.filled_cc = executed[i]
    BY DEF SafetyInv, ReconcilerInv
  <1>3. QED
    BY <1>1, <1>2

\* Moves of routes alone, and of reconcilers' own records, leave it at that.
LEMMA RoutesEndPasses ==
    ASSUME IdentityInv, SafetyInv, UNCHANGED <<reconciler, seq, executed>>,
           \A i \in Id : /\ ~Routing(i) => ~Routing(i)'
                         /\ order[i] = "dead" => order'[i] = "dead"
    PROVE  ReconcilerInv'
  <1>1. /\ seq \in Nat /\ \A i \in Id : executed[i] \in Nat
    BY BoundsAreNat DEF IdentityInv, TypeOK, OrderRef
  <1>2. QED
    BY <1>1, PassesKept

\* A route moves on, or ends, without touching the store.
LEMMA RouteMovesSafe ==
    ASSUME IdentityInv, SafetyInv, NEW i \in Id, Routing(i),
           UNCHANGED <<store, reconciler, executed, market>>,
           NEW pc \in {"gated", "transmitted", "replied", "done"}, SetRoute(i, pc),
           \A j \in Id : j # i => order'[j] = order[j],
           order[i] = "dead" => order'[i] = "dead",
           OrderInv', ReplyInv'
    PROVE  SafetyInv'
  <1>1. /\ i = active /\ active # None /\ i <= seq
        /\ att[active].state = "SUBMITTING"
    BY RoutingIsSubmitting
  <1>2. /\ route'[i] = pc /\ \A j \in Id : j # i => route'[j] = route[j]
        /\ att' = att /\ active' = active /\ seq' = seq
    BY DEF IdentityInv, TypeOK, SetRoute, store
  <1>3. UnusedInv'
    BY <1>1, <1>2, BoundsAreNat DEF SafetyInv, UnusedInv, IdentityInv, TypeOK,
                                    OrderRef, Id
  <1>4. ClosedInv'
    BY <1>1, <1>2 DEF SafetyInv, ClosedInv, Closable, Settled
  <1>5. ActiveInv'
    BY <1>1, <1>2 DEF SafetyInv, ActiveInv, Routing
  <1>6. ReconcilerInv'
    <2>1. \A j \in Id : ~Routing(j) => ~Routing(j)'
      BY <1>2 DEF Routing
    <2>2. QED
      BY <1>2, <2>1, RoutesEndPasses
  <1>7. QED
    BY <1>3, <1>4, <1>5, <1>6 DEF SafetyInv

\* A result on its way back says of the order no more than is so.
LEMMA RepliesSafe ==
    ASSUME IdentityInv, SafetyInv, NEW i \in Id, Routing(i),
           NEW o, NEW cc, NEW oid, Replies(i, o, cc, oid),
           oid \in {Unbound, i}, cc <= executed[i],
           o = "executed" => order[i] = "dead" /\ cc = executed[i],
           o = "dead" => order[i] = "dead" /\ executed[i] = 0,
           o = "never_sent" => order[i] = "none",
           o = "working" => cc < att[i].qty_cc
    PROVE  SafetyInv'
  <1>1. /\ UNCHANGED <<store, reconciler, executed, market, order>>
        /\ SetRoute(i, "replied")
    BY DEF Replies, exchange
  <1>2. OrderInv'
    BY <1>1 DEF SafetyInv, OrderInv, SetRoute, store, IdentityInv, TypeOK
  <1>3. /\ reply'[i] = [outcome |-> o, filled_cc |-> cc, order_id |-> oid]
        /\ \A j \in Id : j # i => route'[j] = route[j] /\ reply'[j] = reply[j]
    BY DEF Replies, SetRoute, IdentityInv, TypeOK
  <1>4. ReplyInv'
    BY <1>1, <1>3 DEF SafetyInv, ReplyInv, store
  <1>5. QED
    BY <1>1, <1>2, <1>4, RouteMovesSafe

\* A method's result is saved as the route of the active attempt ends.
LEMMA EndRouteSafe ==
    ASSUME IdentityInv, SafetyInv, NEW i \in Id, Routing(i), EndRoute(i),
           NEW b, Sound(b), Apply(b), UNCHANGED <<reconciler, exchange>>
    PROVE  SafetyInv'
  <1>1. i = active /\ active # None
    BY RoutingIsSubmitting
  <1>2. Save(b)
    BY <1>1 DEF Apply
  <1>3. /\ route'[i] = "done"
        /\ \A j \in Id : j # i => route'[j] = route[j] /\ reply'[j] = reply[j]
    BY DEF EndRoute, SetRoute, IdentityInv, TypeOK
  <1>4. UnusedInv' /\ OrderInv' /\ ReplyInv' /\ ClosedInv' /\ ActiveInv'
    BY <1>1, <1>2, <1>3, SaveSafe
  <1>5. ReconcilerInv'
    <2>1. \A j \in Id : ~Routing(j) => ~Routing(j)'
      BY <1>3 DEF Routing
    <2>2. QED
      BY <1>2, <2>1, RoutesEndPasses DEF Save, exchange
  <1>6. QED
    BY <1>4, <1>5 DEF SafetyInv

LEMMA RouteSafe ==
    ASSUME IdentityInv, SafetyInv, NEW i \in Id, Route(i)
    PROVE  SafetyInv'
  <1>1. executed[i] \in Nat /\ 0 <= executed[i]
    BY BoundsAreNat DEF IdentityInv, TypeOK
  <1>2. OrderInv /\ ReplyInv
    BY DEF SafetyInv
  <1>3. CASE Gate(i)
    <2>1. OrderInv' /\ ReplyInv'
      BY <1>2, <1>3 DEF Gate, SetRoute, store, exchange, IdentityInv, TypeOK,
                        OrderInv, ReplyInv
    <2>2. QED
      BY <1>3, <2>1, RouteMovesSafe DEF Gate, exchange, Routing
  <1>4. CASE GateRejects(i) \/ RefuseLocally(i)
    <2>1. order[i] = "none" /\ Routing(i)
      BY <1>2, <1>4 DEF GateRejects, RefuseLocally, OrderInv, Routing
    <2>2. Replies(i, "never_sent", 0, Unbound)
      BY <1>4 DEF GateRejects, RefuseLocally
    <2>3. QED
      BY <1>1, <2>1, <2>2, RepliesSafe
  <1>5. CASE Transmit(i)
    <2>1. order' = [order EXCEPT ![i] =
                       IF market = "open" THEN "wire" ELSE "dead"]
          /\ SetRoute(i, "transmitted")
          /\ UNCHANGED <<store, reply, reconciler, executed, market>>
      BY <1>5 DEF Transmit
    <2>2. executed[i] = 0
      BY <1>2, <1>5 DEF Transmit, OrderInv
    <2>3. OrderInv'
      BY <1>2, <2>1, <2>2 DEF OrderInv, SetRoute, store, IdentityInv, TypeOK
    <2>4. ReplyInv'
      BY <1>2, <2>1 DEF ReplyInv, SetRoute, store, IdentityInv, TypeOK
    <2>5. \A j \in Id : j # i => order'[j] = order[j]
      BY <2>1 DEF IdentityInv, TypeOK
    <2>6. Routing(i) /\ order[i] = "none"
      BY <1>2, <1>5 DEF Transmit, Routing, OrderInv
    <2>7. QED
      BY <2>1, <2>3, <2>4, <2>5, <2>6, RouteMovesSafe
  <1>6. CASE Respond(i)
    <2>1. Routing(i)
      BY <1>6 DEF Respond, Routing
    <2>2. CASE order[i] = "live" /\ Replies(i, "working", executed[i], i)
      <3>1. executed[i] < att[i].qty_cc
        BY <1>2, <2>2 DEF OrderInv
      <3>2. QED
        BY <1>1, <2>1, <2>2, <3>1, RepliesSafe
    <2>3. CASE order[i] = "dead" /\ Replies(i, "executed", executed[i], i)
      BY <1>1, <2>1, <2>3, RepliesSafe
    <2>4. CASE order[i] = "dead" /\ executed[i] = 0 /\ Replies(i, "dead", 0, i)
      BY <1>1, <2>1, <2>4, RepliesSafe
    <2>5. QED
      BY <1>6, <2>2, <2>3, <2>4 DEF Respond
  <1>7. CASE RespondUnknown(i)
    BY <1>1, <1>7, RepliesSafe DEF RespondUnknown, Routing
  <1>8. CASE PostRouteUpdate(i)
    <2>1. Routing(i) /\ route[i] = "replied"
      BY <1>8 DEF PostRouteUpdate, Routing
    <2>2. i = active /\ active # None
      BY <2>1, RoutingIsSubmitting
    <2>3. Sound(RouteUpdate(att[active], reply[active]))
      BY <2>1, <2>2, RouteUpdateSound
    <2>4. QED
      BY <1>8, <2>1, <2>2, <2>3, EndRouteSafe DEF PostRouteUpdate
  <1>9. CASE RouteTimeout(i)
    <2>1. i = active /\ active # None /\ Routing(i)
      BY <1>9, RoutingIsSubmitting DEF RouteTimeout
    <2>2. Sound(AckUnknown(att[active]))
      BY <2>1, AckUnknownSound
    <2>3. QED
      BY <1>9, <2>1, <2>2, EndRouteSafe DEF RouteTimeout
  <1>10. CASE RouteCancelled(i)
    <2>1. /\ SetRoute(i, "done") /\ Routing(i)
          /\ \A j \in Id : route'[j] = "replied" => reply'[j] = reply[j]
          /\ UNCHANGED <<store, reconciler, order, executed, market>>
      BY <1>10 DEF RouteCancelled, EndRoute, SetRoute, exchange, IdentityInv,
                   TypeOK
    <2>2. \A j \in Id : route'[j] \in {route[j], "done"}
      BY <2>1 DEF SetRoute, IdentityInv, TypeOK
    <2>3. OrderInv' /\ ReplyInv'
      BY <1>2, <2>1, <2>2 DEF OrderInv, ReplyInv, store
    <2>4. QED
      BY <2>1, <2>3, RouteMovesSafe
  <1>11. QED
    BY <1>3, <1>4, <1>5, <1>6, <1>7, <1>8, <1>9, <1>10 DEF Route

\* A pass's own step changes no other pass, and keeps the invariant once its
\* own new position is accounted for.
LEMMA PassMoves ==
    ASSUME IdentityInv, SafetyInv, NEW r \in Reconcilers, NEW x \in ReconcilerState,
           SetReconciler(r, x), UNCHANGED <<caller, exchange, seq>>,
           x.pc \in {"asking", "answered"} =>
               \A i \in {x.oid, x.coid} \ {Unbound} :
                   /\ i <= seq /\ ~Routing(i)
                   /\ \A j \in {x.oid, x.coid} \ {Unbound} : j = i
                   /\ x.pc = "answered" =>
                          /\ x.answer.filled_cc <= executed[i]
                          /\ x.answer.kind = "terminal" =>
                                 /\ order[i] = "dead"
                                 /\ x.answer.filled_cc = executed[i]
    PROVE  ReconcilerInv'
  <1> SUFFICES ASSUME NEW s \in Reconcilers,
                      reconciler'[s].pc \in {"asking", "answered"},
                      NEW i \in Targets(s)'
               PROVE  /\ i <= seq' /\ ~Routing(i)'
                      /\ \A j \in Targets(s)' : j = i
                      /\ reconciler'[s].pc = "answered" =>
                             /\ reconciler'[s].answer.filled_cc <= executed'[i]
                             /\ reconciler'[s].answer.kind = "terminal" =>
                                    /\ order'[i] = "dead"
                                    /\ reconciler'[s].answer.filled_cc
                                           = executed'[i]
    BY DEF ReconcilerInv
  <1>1. /\ seq' = seq /\ executed' = executed /\ order' = order
        /\ Routing(i)' = Routing(i)
    BY DEF caller, exchange, Routing
  <1>2. CASE s = r
    <2>1. reconciler'[s] = x
      BY <1>2 DEF SetReconciler, IdentityInv, TypeOK
    <2>2. QED
      BY <1>1, <2>1 DEF Targets
  <1>3. CASE s # r
    <2>1. reconciler'[s] = reconciler[s]
      BY <1>3 DEF SetReconciler, IdentityInv, TypeOK
    <2>2. Targets(s)' = Targets(s)
      BY <2>1 DEF Targets
    <2>3. QED
      BY <1>1, <2>1, <2>2 DEF SafetyInv, ReconcilerInv
  <1>4. QED
    BY <1>2, <1>3

\* A pass saves a method's result for the active attempt, whose route is over,
\* or leaves the attempt as it is.
LEMMA PassSaves ==
    ASSUME IdentityInv, SafetyInv, NEW b, Apply(b), UNCHANGED <<caller, exchange>>,
           active # None =>
               \/ b = att[active]
               \/ Sound(b) /\ ~Routing(active)
    PROVE  /\ UnusedInv' /\ OrderInv' /\ ReplyInv' /\ ClosedInv' /\ ActiveInv'
           /\ seq' = seq
  <1>1. ASSUME UNCHANGED <<att, active, seq>>
        PROVE  /\ UnusedInv' /\ OrderInv' /\ ReplyInv' /\ ClosedInv' /\ ActiveInv'
               /\ seq' = seq
    BY <1>1 DEF SafetyInv, UnusedInv, OrderInv, ReplyInv, ClosedInv, Closable,
                Settled, ActiveInv, Routing, caller, exchange
  <1>2. CASE active = None
    BY <1>1, <1>2 DEF Apply, store
  <1>3. CASE active # None /\ b = att[active]
    <2>1. att[active].state # "FLAT"
      BY <1>3, ActiveFacts DEF Unresolved
    <2>2. UNCHANGED <<att, active, seq>>
      BY <1>3, <2>1 DEF Apply, Save, IdentityInv, TypeOK
    <2>3. QED
      BY <1>1, <2>2
  <1>4. CASE active # None /\ Sound(b) /\ ~Routing(active)
    <2>1. route[active] \in {"idle", "done"}
      BY <1>4, ActiveFacts DEF Routing, IdentityInv, TypeOK, RouteState
    <2>2. Save(b) /\ route' = route /\ reply' = reply
      BY <1>4 DEF Apply, caller
    <2>3. QED
      BY <1>4, <2>1, <2>2, SaveSafe DEF Save
  <1>5. QED
    BY <1>2, <1>3, <1>4

LEMMA ReconcileSafe ==
    ASSUME IdentityInv, SafetyInv, ~strayed', NEW r \in Reconcilers, Reconcile(r)
    PROVE  SafetyInv'
  <1>1. /\ TypeOK /\ reconciler[r] \in ReconcilerState
        /\ reconciler[r].answer \in Answer
    BY DEF IdentityInv, TypeOK, ReconcilerState
  <1>2. AtRest \in ReconcilerState /\ NoAnswer \in Answer
    <2>1. NoAnswer \in Answer
      BY BoundsAreNat DEF NoAnswer, Answer
    <2>2. QED
      BY <1>1, <2>1, AnswerTypes
  <1>3. /\ AtRest.pc = "idle" /\ [AtRest EXCEPT !.pc = "listed"].pc = "listed"
        /\ [AtRest EXCEPT !.pc = "listed"] \in ReconcilerState
    BY <1>2 DEF AtRest, ReconcilerState
  <1>4. ASSUME UNCHANGED <<store, caller, exchange>>, ReconcilerInv'
        PROVE  SafetyInv'
    BY <1>4 DEF SafetyInv, UnusedInv, OrderInv, ReplyInv, ClosedInv, Closable,
                Settled, ActiveInv, Routing, store, caller, exchange
  <1>5. CASE ListKey(r)
    <2>1. ReconcilerInv'
      BY <1>3, <1>5, PassMoves DEF ListKey, store
    <2>2. QED
      BY <1>4, <1>5, <2>1 DEF ListKey
  <1>6. CASE ReconcileBegin(r)
    <2>1. /\ Apply(Begun(att[active])) /\ UNCHANGED <<caller, exchange>>
          /\ active # None => ~Routing(active)
      BY <1>6 DEF ReconcileBegin, Overtaken
    <2>2. active # None => Sound(Begun(att[active]))
      BY BegunSound
    <2>3. /\ UnusedInv' /\ OrderInv' /\ ReplyInv' /\ ClosedInv' /\ ActiveInv'
          /\ seq' = seq
      BY <2>1, <2>2, PassSaves
    <2>4. ReconcilerInv'
      <3>1. CASE active # None /\ ~NeverTransmitted(att[active])
        <4> DEFINE x == [pc |-> "asking", coid |-> att[active].client_order_id,
                         oid |-> att[active].order_id, answer |-> NoAnswer]
        <4>1. SetReconciler(r, x)
          BY <1>6, <3>1 DEF ReconcileBegin
        <4>2. /\ att[active].client_order_id \in {Unbound, active}
              /\ att[active].order_id \in {Unbound, active}
              /\ att[active] \in Attempt /\ active <= seq
          BY <3>1, ActiveFacts DEF SafetyInv, ActiveInv
        <4>3. x \in ReconcilerState /\ x.pc = "asking"
          BY <1>2, <4>2 DEF ReconcilerState, Attempt
        <4>4. \A i \in {x.oid, x.coid} \ {Unbound} : i = active
          BY <4>2
        <4> HIDE DEF x
        <4>5. QED
          BY <2>1, <2>3, <3>1, <4>1, <4>2, <4>3, <4>4, PassMoves
      <3>2. CASE ~(active # None /\ ~NeverTransmitted(att[active]))
        <4>1. SetReconciler(r, AtRest)
          BY <1>6, <3>2 DEF ReconcileBegin
        <4>2. QED
          BY <1>2, <1>3, <2>1, <2>3, <4>1, PassMoves
      <3>3. QED
        BY <3>1, <3>2
    <2>5. QED
      BY <2>3, <2>4 DEF SafetyInv
  <1>7. ASSUME NEW answer \in Answer, reconciler[r].pc = "asking",
               Answered(r, answer), UNCHANGED <<store, caller, exchange>>,
               \A i \in Targets(r) :
                   /\ answer.filled_cc <= executed[i]
                   /\ answer.kind = "terminal" =>
                          order[i] = "dead" /\ answer.filled_cc = executed[i]
        PROVE  SafetyInv'
    <2> DEFINE x == [reconciler[r] EXCEPT !.pc = "answered", !.answer = answer]
    <2>1. /\ SetReconciler(r, x) /\ x \in ReconcilerState
          /\ x.pc = "answered" /\ x.answer = answer
          /\ {x.oid, x.coid} \ {Unbound} = Targets(r)
      BY <1>1, <1>7 DEF Answered, ReconcilerState, Targets
    <2>2. \A i \in Targets(r) : /\ i <= seq /\ ~Routing(i)
                                /\ \A j \in Targets(r) : j = i
      BY <1>7 DEF SafetyInv, ReconcilerInv
    <2> HIDE DEF x
    <2>3. ReconcilerInv'
      BY <1>7, <2>1, <2>2, PassMoves DEF store
    <2>4. QED
      BY <1>4, <1>7, <2>3
  <1>8. ASSUME NEW i \in Id, LookupFinds(r, i)
        PROVE  SafetyInv'
    <2>1. /\ reconciler[r].pc = "asking" /\ i \in Targets(r)
          /\ UNCHANGED <<store, caller, exchange>>
      BY <1>8 DEF LookupFinds
    <2>2. \A j \in Targets(r) : j = i
      BY <2>1 DEF SafetyInv, ReconcilerInv
    <2>3. executed[i] \in 0..Qty /\ executed[i] <= executed[i]
      BY <1>1 DEF TypeOK
    <2>4. \A k \in {"working", "terminal", "unrecognised"} :
              [kind |-> k, filled_cc |-> executed[i]] \in Answer
      BY <2>3 DEF Answer
    <2>5. CASE order[i] = "live"
      <3>1. PICK k \in {"working", "unrecognised"} :
                Answered(r, [kind |-> k, filled_cc |-> executed[i]])
        BY <1>8, <2>5 DEF LookupFinds
      <3>2. QED
        BY <1>7, <2>1, <2>2, <2>3, <2>4, <3>1
    <2>6. CASE order[i] = "dead"
      <3>1. Answered(r, [kind |-> "terminal", filled_cc |-> executed[i]])
        BY <1>8, <2>6 DEF LookupFinds
      <3>2. QED
        BY <1>7, <2>1, <2>2, <2>3, <2>4, <2>6, <3>1
    <2>7. QED
      BY <1>8, <2>5, <2>6 DEF LookupFinds
  <1>9. CASE LookupFindsNothing(r)
    <2>1. NoAnswer.kind = "none" /\ NoAnswer.filled_cc = 0
      BY DEF NoAnswer
    <2>2. \A i \in Targets(r) : 0 <= executed[i]
      BY <1>1, BoundsAreNat DEF Targets, TypeOK, ReconcilerState, OrderRef, Id,
                                Unbound
    <2>3. QED
      BY <1>2, <1>7, <1>9, <2>1, <2>2 DEF LookupFindsNothing
  <1>10. CASE ReconcileResolve(r)
    <2> DEFINE answer == reconciler[r].answer
               b == Resolved(att[active], answer)
    <2>1. /\ reconciler[r].pc = "answered" /\ SetReconciler(r, AtRest)
          /\ Apply(b) /\ UNCHANGED <<caller, exchange>> /\ ~Misapplied(r)
      BY <1>10 DEF ReconcileResolve
    <2>2. active # None =>
              \/ b = att[active]
              \/ Sound(b) /\ ~Routing(active)
      <3>1. CASE active # None /\ active \in Targets(r)
        <4>1. /\ ~Routing(active)
              /\ answer.filled_cc <= executed[active]
              /\ answer.kind = "terminal" =>
                     order[active] = "dead" /\ answer.filled_cc = executed[active]
          BY <2>1, <3>1 DEF SafetyInv, ReconcilerInv
        <4>2. QED
          BY <1>1, <3>1, <4>1, ResolvedSound
      <3>2. CASE active # None /\ active \notin Targets(r)
        BY <2>1, <3>2 DEF Misapplied
      <3>3. QED
        BY <3>1, <3>2
    <2> HIDE DEF b
    <2>3. /\ UnusedInv' /\ OrderInv' /\ ReplyInv' /\ ClosedInv' /\ ActiveInv'
          /\ seq' = seq
      BY <2>1, <2>2, PassSaves
    <2>4. ReconcilerInv'
      BY <1>2, <1>3, <2>1, <2>3, PassMoves
    <2>5. QED
      BY <2>3, <2>4 DEF SafetyInv
  <1>11. QED
    BY <1>5, <1>6, <1>8, <1>9, <1>10 DEF Reconcile

\* A new attempt is minted: its record and route alone change.
LEMMA MintSafe ==
    ASSUME IdentityInv, SafetyInv, MayMint, seq < MaxAttempts,
           NEW a \in Attempt,
           a.state \in Unresolved, a.qty_cc > 0, a.filled_cc = 0,
           a.client_order_id \in {Unbound, seq + 1}, a.order_id = Unbound,
           seq' = seq + 1, active' = seq + 1, att' = [att EXCEPT ![seq + 1] = a],
           UNCHANGED exchange,
           NEW pc \in {"idle", "approved", "done"},
           pc = "approved" => a.state = "SUBMITTING",
           route'[seq + 1] = pc,
           \A i \in Id : i # seq + 1 =>
               /\ route'[i] \in {route[i], "done"}
               /\ route[i] = "idle" => route'[i] = "idle"
    PROVE  UnusedInv' /\ OrderInv' /\ ClosedInv' /\ ActiveInv'
  <1> DEFINE n == seq + 1
  <1>1. /\ n \in Id /\ seq \in Nat /\ n # None /\ n > seq /\ n # Unbound
    BY BoundsAreNat DEF IdentityInv, TypeOK, OrderRef, Id, None, Unbound
  <1>2. /\ att'[n] = a /\ \A i \in Id : i # n => att'[i] = att[i]
        /\ order' = order /\ executed' = executed /\ market' = market
    BY <1>1 DEF IdentityInv, TypeOK, exchange
  <1>3. route[n] = "idle" /\ order[n] = "none" /\ executed[n] = 0
    BY <1>1 DEF SafetyInv, UnusedInv, IdentityInv, Named
  <1>4. \A i \in Id : i <= n <=> (i <= seq \/ i = n)
    BY <1>1 DEF Id
  <1>5. \A i \in Id : i <= seq => Closable(i)
    BY MintOverClosable DEF SafetyInv
  <1> HIDE DEF n
  <1>6. seq' = n /\ active' = n /\ route'[n] = pc
    BY DEF n
  <1>7. \A i \in Id : i # n => /\ route'[i] \in {route[i], "done"}
                               /\ route[i] = "idle" => route'[i] = "idle"
    BY DEF n
  <1>8. UnusedInv'
    <2> SUFFICES ASSUME NEW i \in Id, i > n
                 PROVE  /\ route'[i] = "idle" /\ executed'[i] = 0
                        /\ att'[i].filled_cc = 0
      BY <1>6 DEF UnusedInv
    <2>1. i # n /\ i > seq
      BY <1>1 DEF n, Id
    <2>2. route[i] = "idle" /\ executed[i] = 0 /\ att[i].filled_cc = 0
      BY <2>1 DEF SafetyInv, UnusedInv
    <2>3. QED
      BY <1>2, <1>7, <2>1, <2>2
  <1>9. OrderInv'
    <2> SUFFICES ASSUME NEW i \in Id
                 PROVE  /\ route'[i] \in {"approved", "gated"} => order'[i] = "none"
                        /\ order'[i] \in {"none", "wire"} => executed'[i] = 0
                        /\ order'[i] = "live" => executed'[i] < att'[i].qty_cc
                        /\ market' = "terminal" => order'[i] \in {"none", "dead"}
                        /\ i <= n => att'[i].qty_cc > 0
                        /\ att'[i].filled_cc <= executed'[i]
      BY <1>6 DEF OrderInv
    <2>1. CASE i = n
      BY <1>2, <1>3, <2>1
    <2>2. CASE i # n
      <3>1. /\ route[i] \in {"approved", "gated"} => order[i] = "none"
            /\ order[i] \in {"none", "wire"} => executed[i] = 0
            /\ order[i] = "live" => executed[i] < att[i].qty_cc
            /\ market = "terminal" => order[i] \in {"none", "dead"}
            /\ i <= n => att[i].qty_cc > 0
            /\ att[i].filled_cc <= executed[i]
        BY <1>4, <2>2 DEF SafetyInv, OrderInv
      <3>2. /\ att'[i] = att[i] /\ order'[i] = order[i] /\ market' = market
            /\ executed'[i] = executed[i] /\ route'[i] \in {route[i], "done"}
        BY <1>2, <1>7, <2>2
      <3>3. QED
        BY <3>1, <3>2
    <2>3. QED
      BY <2>1, <2>2
  <1>10. ClosedInv'
    <2> SUFFICES ASSUME NEW i \in Id, i <= seq', i # active'
                 PROVE  Closable(i)'
      BY DEF ClosedInv
    <2>1. i # n /\ i <= seq
      BY <1>4, <1>6
    <2>2. QED
      BY <1>2, <1>5, <1>7, <2>1 DEF Closable, Settled
  <1>11. ActiveInv'
    <2>1. a.client_order_id \in {Unbound, n}
      BY DEF n
    <2>2. Routing(active)' => pc = "approved"
      BY <1>6 DEF Routing
    <2>3. a.state # "RETRY_ELIGIBLE"
      BY DEF Unresolved
    <2>4. QED
      BY <1>2, <1>6, <2>1, <2>2, <2>3 DEF ActiveInv
  <1>12. QED
    BY <1>8, <1>9, <1>10, <1>11

\* What a producer saves first and what it saves with its identity.
LEMMA MintedFields ==
    ASSUME NEW q \in 1..Qty, NEW n \in OrderRef
    PROVE  /\ LET a == Minted(q)
              IN  /\ a \in Attempt /\ a.state = "SUBMITTING" /\ a.qty_cc > 0
                  /\ a.filled_cc = 0 /\ a.client_order_id = Unbound
                  /\ a.order_id = Unbound
           /\ LET a == Bind(Minted(q), n, Unbound)
              IN  /\ a \in Attempt /\ a.state = "SUBMITTING" /\ a.qty_cc > 0
                  /\ a.filled_cc = 0 /\ a.client_order_id \in {Unbound, n}
                  /\ a.order_id = Unbound
  <1> DEFINE a == Minted(q)
             b == Bind(a, n, Unbound)
  <1>1. q \in Nat /\ q > 0 /\ Unbound \in OrderRef
    BY BoundsAreNat DEF Unbound, OrderRef
  <1>2. /\ a \in Attempt /\ a.state = "SUBMITTING" /\ a.qty_cc = q
        /\ a.filled_cc = 0 /\ a.client_order_id = Unbound
        /\ a.order_id = Unbound
    BY MintedType DEF Minted, Idle
  <1> HIDE DEF a
  <1>3. b \in Attempt
    BY <1>1, <1>2, BindType
  <1>4. /\ b.state = a.state /\ b.qty_cc = a.qty_cc /\ b.filled_cc = a.filled_cc
        /\ b.client_order_id \in {a.client_order_id, n}
        /\ b.order_id = a.order_id
    BY <1>2 DEF Bind, Attempt
  <1> HIDE DEF b
  <1>5. QED
    BY <1>1, <1>2, <1>3, <1>4 DEF a, b

LEMMA ProduceSafe ==
    ASSUME IdentityInv, SafetyInv, Produce
    PROVE  SafetyInv'
  <1>1. ASSUME NEW q \in 1..Qty, ApproveIntent(q)
        PROVE  SafetyInv'
    <2> DEFINE a == Bind(Minted(q), seq + 1, Unbound)
    <2>1. seq + 1 \in Id /\ seq + 1 \in OrderRef
      BY <1>1, BoundsAreNat DEF ApproveIntent, IdentityInv, TypeOK, OrderRef, Id
    <2>2. /\ MayMint /\ seq < MaxAttempts
          /\ seq' = seq + 1 /\ active' = seq + 1
          /\ att' = [att EXCEPT ![seq + 1] = a]
          /\ route' = [route EXCEPT ![seq + 1] = "approved"]
          /\ UNCHANGED <<reply, reconciler, exchange>>
      BY <1>1 DEF ApproveIntent
    <2>3. /\ a \in Attempt /\ a.state = "SUBMITTING" /\ a.state \in Unresolved
          /\ a.qty_cc > 0 /\ a.filled_cc = 0
          /\ a.client_order_id \in {Unbound, seq + 1} /\ a.order_id = Unbound
      BY <2>1, MintedFields DEF Unresolved
    <2> HIDE DEF a
    <2>4. /\ route'[seq + 1] = "approved"
          /\ \A i \in Id : i # seq + 1 => route'[i] = route[i]
      BY <2>1, <2>2 DEF IdentityInv, TypeOK
    <2>5. UnusedInv' /\ OrderInv' /\ ClosedInv' /\ ActiveInv'
      BY <2>2, <2>3, <2>4, MintSafe
    <2>6. ReplyInv'
      <3>1. \A i \in Id : route'[i] = "replied" =>
                i # seq + 1 /\ route[i] = "replied" /\ att'[i] = att[i]
        BY <2>1, <2>2, <2>4 DEF IdentityInv, TypeOK
      <3>2. QED
        BY <2>2, <3>1 DEF SafetyInv, ReplyInv, exchange
    <2>7. /\ seq \in Nat /\ seq' \in Nat /\ seq <= seq'
          /\ \A i \in Id : executed[i] \in Nat
      BY <2>2, BoundsAreNat DEF IdentityInv, TypeOK, OrderRef
    <2>8. ReconcilerInv'
      <3>1. \A i \in Id : i <= seq => route'[i] = route[i]
        BY <2>4, <2>7
      <3>2. QED
        BY <2>2, <2>7, <3>1, PassesKept DEF exchange, Routing
    <2>9. QED
      BY <2>5, <2>6, <2>8 DEF SafetyInv
  <1>2. CASE ArbitrateTerminalMarket
    <2> DEFINE b == MarkFlat(att[active])
    <2>1. /\ active # None /\ att[active].state = "RETRY_ELIGIBLE"
          /\ market = "terminal" /\ Save(b)
          /\ UNCHANGED <<route, reply, reconciler, exchange>>
      BY <1>2 DEF ArbitrateTerminalMarket, caller
    <2>2. Closable(active) /\ active \in Id
      BY <2>1, ActiveFacts
    <2>3. /\ b \in Attempt /\ Same(att[active], b) /\ b.state = "FLAT"
          /\ b.filled_cc = att[active].filled_cc
      BY <2>1, ActiveFacts, LifecycleTypes, StateEffects
    <2> HIDE DEF b
    <2>3a. Sound(b)
      BY <2>1, <2>2, <2>3, ActiveFacts DEF Sound, Same, Closable, Settled
    <2>4. UnusedInv' /\ OrderInv' /\ ReplyInv' /\ ClosedInv' /\ ActiveInv'
      <3>1. route[active] \in {"idle", "done"}
        BY <2>2 DEF Closable, Settled
      <3>2. QED
        BY <2>1, <2>3a, <3>1, SaveSafe
    <2>6. ReconcilerInv'
      BY <2>1, RoutesEndPasses DEF Save, exchange, Routing
    <2>7. QED
      BY <2>4, <2>6 DEF SafetyInv
  <1>3. QED
    BY <1>1, <1>2 DEF Produce

\* The exchange only moves orders that are at the exchange.
OrdersAdvance ==
    /\ market' = "open" => market = "open"
    /\ \A i \in Id : /\ executed[i] <= executed'[i]
                     /\ order[i] = "none" => order'[i] = "none"
                     /\ order[i] = "dead" => order'[i] = "dead"
                     /\ order[i] \in {"none", "dead"} => executed'[i] = executed[i]

LEMMA VenueSafe ==
    ASSUME IdentityInv, SafetyInv, Venue
    PROVE  SafetyInv'
  <1>1. OrderInv /\ TypeOK
    BY DEF SafetyInv, IdentityInv
  <1>2. UNCHANGED <<store, caller, reconciler>>
    BY DEF Venue, Accept, Execute, Cancel, CloseMarket
  <1>3. OrderInv' /\ OrdersAdvance
    <2>1. \A i \in Id : executed[i] \in Nat /\ att[i].qty_cc \in Nat
      BY <1>1, BoundsAreNat DEF TypeOK, Attempt
    <2>2. ASSUME NEW i \in Id, Accept(i) \/ Cancel(i)
          PROVE  OrderInv' /\ OrdersAdvance
      <3>1. /\ order[i] \in {"wire", "live"} /\ i <= seq
            /\ executed' = executed /\ market' = market
            /\ att' = att /\ seq' = seq /\ route' = route
        BY <2>2 DEF Accept, Cancel, store, caller, IdentityInv, Named
      <3>2. /\ \A j \in Id : j # i => order'[j] = order[j]
            /\ order'[i] \in {"live", "dead"}
            /\ order'[i] = "live" => order[i] = "wire"
        BY <1>1, <2>2 DEF Accept, Cancel, TypeOK
      <3>3. order[i] = "wire" => executed[i] < att[i].qty_cc
        BY <1>1, <2>1, <3>1 DEF OrderInv
      <3>4. market = "open"
        BY <1>1, <3>1 DEF OrderInv, TypeOK
      <3>5. OrderInv'
        BY <1>1, <3>1, <3>2, <3>3, <3>4 DEF OrderInv
      <3>6. QED
        BY <2>1, <3>1, <3>2, <3>5 DEF OrdersAdvance
    <2>3. ASSUME NEW i \in Id, NEW cc \in 1..Qty, Execute(i, cc)
          PROVE  OrderInv' /\ OrdersAdvance
      <3>1. /\ order[i] = "live" /\ market' = market
            /\ executed[i] + cc <= att[i].qty_cc
            /\ att' = att /\ seq' = seq /\ route' = route
        BY <2>3 DEF Execute, store, caller
      <3>2. /\ \A j \in Id : j # i => /\ order'[j] = order[j]
                                      /\ executed'[j] = executed[j]
            /\ executed'[i] = executed[i] + cc
            /\ order'[i] = IF executed[i] + cc = att[i].qty_cc THEN "dead"
                           ELSE "live"
        BY <1>1, <2>3 DEF Execute, TypeOK
      <3>3. /\ executed[i] <= executed'[i]
            /\ order'[i] = "live" => executed'[i] < att[i].qty_cc
        BY <2>1, <3>1, <3>2
      <3>4. att[i].filled_cc <= executed'[i]
        BY <1>1, <2>1, <3>2 DEF OrderInv, TypeOK, Attempt
      <3>5. market = "open"
        BY <1>1, <3>1 DEF OrderInv, TypeOK
      <3>6. OrderInv'
        BY <1>1, <3>1, <3>2, <3>3, <3>4, <3>5 DEF OrderInv
      <3>7. QED
        BY <2>1, <3>1, <3>2, <3>3, <3>6 DEF OrdersAdvance
    <2>4. CASE CloseMarket
      BY <1>1, <2>1, <2>4 DEF CloseMarket, OrderInv, OrdersAdvance, TypeOK,
                                  store, caller
    <2>5. QED
      BY <2>2, <2>3, <2>4 DEF Venue
  <1>4. UnusedInv'
    BY <1>2, <1>3 DEF SafetyInv, UnusedInv, OrdersAdvance, store, caller, IdentityInv,
                      Named
  <1>5. \A i \in Id : Closable(i) => Closable(i)'
    BY <1>2, <1>3 DEF OrdersAdvance, Closable, Settled, store, caller
  <1>6. ClosedInv'
    BY <1>2, <1>5 DEF SafetyInv, ClosedInv, store
  <1>7. ActiveInv'
    <2>1. active # None => active \in Id
      BY ActiveFacts
    <2>2. active' = active /\ att' = att /\ route' = route
      BY <1>2 DEF store, caller
    <2>3. active # None /\ Closable(active) => Closable(active)'
      BY <1>5, <2>1, <2>2 DEF Closable, Settled
    <2>4. QED
      BY <2>1, <2>2, <2>3 DEF SafetyInv, ActiveInv, Routing
  <1>8. ReplyInv'
    <2>1. \A i \in Id : /\ executed[i] \in Nat /\ executed'[i] \in Nat
                        /\ reply[i].filled_cc \in Nat
      BY <1>1, BoundsAreNat, VenueType DEF TypeOK, Reply
    <2>2. QED
      BY <1>2, <1>3, <2>1 DEF OrdersAdvance, SafetyInv, ReplyInv, store, caller
  <1>9. ReconcilerInv'
    <2>1. seq' = seq /\ seq \in Nat /\ \A i \in Id : executed'[i] \in Nat
      BY <1>1, <1>2, BoundsAreNat, VenueType DEF TypeOK, OrderRef, store
    <2>2. QED
      BY <1>2, <1>3, <2>1, PassesKept DEF OrdersAdvance, Routing, caller
  <1>10. QED
    BY <1>3, <1>4, <1>6, <1>7, <1>8, <1>9 DEF SafetyInv

\* A restart finds nothing under way and the active attempt unresolved.
LEMMA FaultSafe ==
    ASSUME ~FlushMayFail, IdentityInv, SafetyInv, Fault
    PROVE  SafetyInv'
  <1>1. /\ UNCHANGED exchange
        /\ \A i \in Id : route'[i] = IF route[i] = "idle" THEN "idle" ELSE "done"
        /\ \A r \in Reconcilers : reconciler'[r] = AtRest
    BY DEF Fault, Crash, CrashInApprove, Restart
  <1>2. /\ \A i \in Id : route'[i] \in {"idle", "done"} /\ ~Routing(i)'
        /\ ReplyInv' /\ ReconcilerInv'
    <2>1. \A i \in Id : route'[i] \in {"idle", "done"}
      BY <1>1
    <2>2. ReconcilerInv'
      BY <1>1, IdleReconcilersSafe DEF AtRest
    <2>3. QED
      BY <2>1, <2>2 DEF ReplyInv, Routing
  <1>3. CASE Crash
    <2>1. CASE active = None
      <3>1. disk = [active |-> None, attempt |-> Idle]
        BY <2>1 DEF IdentityInv, Durable, Row
      <3>2. /\ active' = None /\ att' = att /\ seq' = seq
            /\ order' = order /\ executed' = executed /\ market' = market
        BY <1>1, <1>3, <3>1 DEF Crash, Restart, exchange
      <3>3. UnusedInv' /\ OrderInv'
        BY <1>1, <1>2, <3>2 DEF SafetyInv, UnusedInv, OrderInv
      <3>4. ClosedInv' /\ ActiveInv'
        BY <1>2, <2>1, <3>2 DEF SafetyInv, ClosedInv, ActiveInv, Closable, Settled
      <3>5. QED
        BY <1>2, <3>3, <3>4 DEF SafetyInv
    <2>2. CASE active # None
      <3> DEFINE a == att[active]
                 b == Reloaded(a)
      <3>1. /\ disk.active = active /\ disk.attempt = a
            /\ active \in Id /\ a \in Attempt
        BY <2>2, ActiveFacts DEF IdentityInv, Durable, Row
      <3>2. /\ active' \in {active, None}
            /\ att' = [att EXCEPT ![active] = b] /\ seq' = seq
            /\ active' = None => b.state = "RETRY_ELIGIBLE"
            /\ order' = order /\ executed' = executed /\ market' = market
        BY <1>1, <1>3, <2>2, <3>1 DEF Crash, Restart, exchange
      <3>3. /\ b \in Attempt /\ Same(a, b) /\ b.filled_cc = a.filled_cc
            /\ b.state \in {"RECONCILING", "RETRY_ELIGIBLE"}
            /\ b.state = "RETRY_ELIGIBLE" => a.state = "RETRY_ELIGIBLE"
        <4>1. a.state \in Unresolved \cup {"RETRY_ELIGIBLE"}
          BY <2>2, ActiveFacts
        <4> HIDE DEF a
        <4>2. /\ b \in Attempt /\ Same(a, b) /\ b.filled_cc = a.filled_cc
              /\ b.state = IF a.state \in Unresolved THEN "RECONCILING" ELSE a.state
          BY <3>1, LifecycleTypes, StateEffects
        <4> HIDE DEF b
        <4>3. QED
          BY <4>1, <4>2
      <3> HIDE DEF a, b
      <3>4. /\ att'[active] = b
            /\ \A i \in Id : i # active => att'[i] = att[i]
        BY <3>1, <3>2 DEF IdentityInv, TypeOK
      <3>5. \A i \in Id : /\ att'[i].qty_cc = att[i].qty_cc
                          /\ att'[i].filled_cc = att[i].filled_cc
        BY <3>3, <3>4 DEF Same, a
      <3>6. UnusedInv'
        BY <1>1, <3>2, <3>5 DEF SafetyInv, UnusedInv
      <3>7. OrderInv'
        BY <1>2, <3>2, <3>5 DEF SafetyInv, OrderInv
      <3>8. \A i \in Id : Closable(i) => Closable(i)'
        BY <1>2, <3>2, <3>5 DEF Closable, Settled
      <3>9. b.state = "RETRY_ELIGIBLE" => Closable(active)
        BY <2>2, <3>3, ActiveFacts DEF a
      <3>10. ClosedInv'
        <4> SUFFICES ASSUME NEW i \in Id, i <= seq', i # active'
                     PROVE  Closable(i)'
          BY DEF ClosedInv
        <4>1. CASE i = active
          BY <3>2, <3>8, <3>9, <4>1
        <4>2. CASE i # active
          BY <3>2, <3>8, <4>2 DEF SafetyInv, ClosedInv
        <4>3. QED
          BY <4>1, <4>2
      <3>11. ActiveInv'
        <4> SUFFICES ASSUME active' # None PROVE ActiveInv'
          BY DEF ActiveInv
        <4>1. active' = active
          BY <3>2
        <4>2. b.state = "RETRY_ELIGIBLE" => Closable(active)'
          BY <3>1, <3>8, <3>9, <4>1 DEF Closable, Settled
        <4>3. /\ b.client_order_id \in {Unbound, active}
              /\ b.order_id \in {Unbound, active}
          BY <2>2, <3>3 DEF SafetyInv, ActiveInv, Same, a
        <4>4. ~Routing(active)'
          BY <1>2, <3>1, <4>1 DEF Routing
        <4>5. QED
          BY <3>3, <3>4, <4>1, <4>2, <4>3, <4>4 DEF ActiveInv, Unresolved
      <3>12. QED
        BY <1>2, <3>6, <3>7, <3>10, <3>11 DEF SafetyInv
    <2>3. QED
      BY <2>1, <2>2
  <1>4. ASSUME NEW q \in 1..Qty, CrashInApprove(q)
        PROVE  SafetyInv'
    <2> DEFINE a == Minted(q)
               b == Reloaded(a)
    <2>1. seq + 1 \in Id /\ seq + 1 \in OrderRef /\ seq + 1 # None
      BY <1>4, BoundsAreNat DEF CrashInApprove, IdentityInv, TypeOK, OrderRef, Id,
                                None
    <2>2. /\ a \in Attempt /\ a.state = "SUBMITTING" /\ a.qty_cc > 0
          /\ a.filled_cc = 0 /\ a.client_order_id = Unbound
          /\ a.order_id = Unbound
      BY <2>1, MintedFields
    <2>3. /\ b \in Attempt /\ Same(a, b) /\ b.filled_cc = 0
          /\ b.state = "RECONCILING" /\ b.state \in Unresolved
      BY <2>2, LifecycleTypes, StateEffects DEF Unresolved
    <2>4. /\ MayMint /\ seq < MaxAttempts /\ seq' = seq + 1
          /\ att' = [att EXCEPT ![seq + 1] = b]
          /\ active' = seq + 1
      BY <1>4, <2>1, <2>3 DEF CrashInApprove, Restart, Row
    <2> HIDE DEF a, b
    <2>5. route[seq + 1] = "idle"
      BY <2>1 DEF SafetyInv, UnusedInv, IdentityInv, TypeOK, OrderRef, Id
    <2>6. UnusedInv' /\ OrderInv' /\ ClosedInv' /\ ActiveInv'
      <3>1. /\ b.qty_cc > 0 /\ b.client_order_id \in {Unbound, seq + 1}
            /\ b.order_id = Unbound
        BY <2>2, <2>3 DEF Same
      <3>2. route'[seq + 1] = "idle"
        BY <1>1, <2>1, <2>5
      <3>3. \A i \in Id : i # seq + 1 =>
                /\ route'[i] \in {route[i], "done"}
                /\ route[i] = "idle" => route'[i] = "idle"
        BY <1>1
      <3>4. QED
        BY <1>1, <2>3, <2>4, <3>1, <3>2, <3>3, MintSafe
    <2>7. QED
      BY <1>2, <2>6 DEF SafetyInv
  <1>5. QED
    BY <1>3, <1>4 DEF Fault

LEMMA InitSafe == Init => SafetyInv
  <1> SUFFICES ASSUME Init PROVE SafetyInv
    OBVIOUS
  <1>1. \A i \in Id : i > 0 /\ ~(i <= 0)
    BY BoundsAreNat DEF Id
  <1>2. UnusedInv /\ OrderInv
    BY <1>1 DEF Init, UnusedInv, OrderInv, Idle
  <1>3. ReplyInv /\ ClosedInv /\ ActiveInv
    BY <1>1 DEF Init, ReplyInv, ClosedInv, ActiveInv
  <1>4. ReconcilerInv
    BY DEF Init, ReconcilerInv, AtRest
  <1>5. QED
    BY <1>2, <1>3, <1>4 DEF SafetyInv

\* The history only grows: a pass that has strayed has strayed.
LEMMA StrayedStays ==
    ASSUME strayed, [Next]_vars
    PROVE  strayed'
  <1>1. CASE UNCHANGED strayed
    BY <1>1
  <1>2. ASSUME NEW r \in Reconcilers, Reconcile(r)
        PROVE  strayed'
    BY <1>2 DEF Reconcile, ListKey, ReconcileBegin, LookupFinds,
                LookupFindsNothing, ReconcileResolve
  <1>3. ASSUME NEW i \in Id, Route(i)
        PROVE  strayed'
    BY <1>3 DEF Route, Gate, GateRejects, RefuseLocally, Transmit, Respond,
                RespondUnknown, PostRouteUpdate, RouteTimeout, RouteCancelled,
                Replies
  <1>4. CASE Produce \/ Venue \/ Fault
    BY <1>4 DEF Produce, ApproveIntent, ArbitrateTerminalMarket, Venue, Accept,
                Execute, Cancel, CloseMarket, Fault, Crash, CrashInApprove,
                Restart
  <1>5. QED
    BY <1>1, <1>2, <1>3, <1>4 DEF Next, vars

\* What holds of every state: the invariant, until a pass has strayed.
UntilAstray == strayed \/ SafetyInv

LEMMA SafetyInvariant ==
    ASSUME ~FlushMayFail
    PROVE  Spec => [](IdentityInv /\ UntilAstray)
  <1>1. Init => UntilAstray
    BY InitSafe DEF UntilAstray
  <1>2. IdentityInv /\ UntilAstray /\ [Next]_vars => UntilAstray'
    <2> SUFFICES ASSUME IdentityInv, UntilAstray, [Next]_vars, ~strayed'
                 PROVE  SafetyInv'
      BY DEF UntilAstray
    <2>1. SafetyInv
      BY StrayedStays DEF UntilAstray
    <2>2. CASE Next
      BY <2>1, <2>2, ProduceSafe, RouteSafe, ReconcileSafe, VenueSafe, FaultSafe
         DEF Next
    <2>3. CASE UNCHANGED vars
      BY <2>1, <2>3 DEF vars, store, caller, exchange, SafetyInv, UnusedInv,
                  OrderInv, ReplyInv, ClosedInv, ActiveInv, ReconcilerInv, Targets,
                  Closable, Settled, Routing
    <2>4. QED
      BY <2>2, <2>3
  <1>3. Spec => []IdentityInv
    BY IdentityInvariant
  <1>4. QED
    BY <1>1, <1>2, <1>3, PTL DEF Spec

-----------------------------------------------------------------------------
(* What the invariant gives.                                               *)

\* Only the active attempt can trade, and not once it is released.
LEMMA OnlyActiveTrades ==
    ASSUME IdentityInv, SafetyInv, NEW i \in Id, CanTrade(i)
    PROVE  i = active /\ i <= seq /\ att[i].state # "RETRY_ELIGIBLE"
  <1>1. ~Settled(i)
    BY DEF CanTrade, AtExchange, Settled
  <1>2. i <= seq
    <2>1. route[i] # "idle"
      BY DEF CanTrade, AtExchange, IdentityInv, Named
    <2>2. QED
      BY <2>1 DEF IdentityInv, Named
  <1>3. i = active
    BY <1>1, <1>2 DEF SafetyInv, ClosedInv, Closable
  <1>4. active # None
    BY <1>3, BoundsAreNat DEF Id, None
  <1>5. QED
    BY <1>1, <1>2, <1>3, <1>4 DEF SafetyInv, ActiveInv, Closable

\* The arbiter's promise: one order at most can trade for a generation, for any
\* number of attempts, lots, crashes and reconcilers, however their passes
\* overlap with lost acknowledgements, timeouts and cancelled tasks, until a pass
\* acts on an attempt that is not its own - if no rewrite of the file is lost.
THEOREM OneOrderAtMost ==
    ASSUME ~FlushMayFail
    PROVE  Spec => []AtMostOneLive
  <1>1. IdentityInv /\ UntilAstray => AtMostOneLive
    BY OnlyActiveTrades DEF AtMostOneLive, UntilAstray
  <1>2. QED
    BY <1>1, SafetyInvariant, PTL

\* An attempt is released for a replacement, or closed, only once its order is
\* beyond trading, until a pass has strayed: nothing but misapplied evidence
\* releases a live order.
THEOREM ReleaseNeedsDeath ==
    ASSUME ~FlushMayFail
    PROVE  Spec => []ReleasedIsDead
  <1>1. IdentityInv /\ UntilAstray => ReleasedIsDead
    BY OnlyActiveTrades DEF ReleasedIsDead, Released, UntilAstray
  <1>2. QED
    BY <1>1, SafetyInvariant, PTL

\* An attempt never counts more than its order executed and, once released in an
\* open market, counts all of it, until a pass has strayed.
THEOREM FillsAreAccounted ==
    ASSUME ~FlushMayFail
    PROVE  Spec => []FillsAccounted
  <1>1. IdentityInv /\ UntilAstray => FillsAccounted
    <2> SUFFICES ASSUME IdentityInv, SafetyInv, NEW i \in Id
                 PROVE  /\ att[i].filled_cc <= executed[i]
                        /\ Released(i) /\ market = "open" =>
                               att[i].filled_cc = executed[i]
      BY DEF FillsAccounted, UntilAstray
    <2>1. att[i].filled_cc <= executed[i]
      BY DEF SafetyInv, OrderInv
    <2>2. i # None
      BY BoundsAreNat DEF Id, None
    <2>3. Released(i) => Closable(i)
      BY <2>2 DEF Released, SafetyInv, ClosedInv, ActiveInv
    <2>4. QED
      BY <2>1, <2>3 DEF Closable
  <1>2. QED
    BY <1>1, SafetyInvariant, PTL

-----------------------------------------------------------------------------
(* The pipeline implements SingleExitAuthority.                            *)

Holders == {i \in Id : CanTrade(i)}

LEMMA HoldersAreOne ==
    ASSUME IdentityInv, SafetyInv
    PROVE  \A i, j \in Holders : i = j
  BY OnlyActiveTrades DEF Holders

\* A producer is let through only when nobody holds the authority.
LEMMA MintOverNone ==
    ASSUME IdentityInv, SafetyInv, MayMint
    PROVE  Holders = {}
  BY OnlyActiveTrades, BoundsAreNat DEF Holders, MayMint, Id, None

\* Every other step leaves the authority where it is, or takes it away.
LEMMA HoldersShrink ==
    ASSUME IdentityInv, [Next]_vars,
           \A q \in 1..Qty : ~ApproveIntent(q)
    PROVE  \A i \in Id : CanTrade(i)' => CanTrade(i)
  <1>1. TypeOK
    BY DEF IdentityInv
  <1>2. SUFFICES ASSUME NEW i \in Id, ~CanTrade(i)
                 PROVE  ~CanTrade(i)'
    OBVIOUS
  <1> DEFINE Gone == /\ order[i] \in {"none", "dead"}
                     /\ route[i] \notin {"approved", "gated"}
  <1>3. Gone
    BY <1>1, <1>2 DEF CanTrade, AtExchange, TypeOK, OrderState
  <1>4. SUFFICES Gone'
    BY DEF CanTrade, AtExchange
  <1>5. CASE UNCHANGED <<route, order>>
    BY <1>3, <1>5
  <1>6. ASSUME NEW j \in Id, Route(j)
        PROVE  Gone'
    <2>1. CASE j = i
      BY <1>1, <1>3, <1>6, <2>1 DEF Route, Gate, GateRejects, RefuseLocally,
         Transmit, Respond, RespondUnknown, PostRouteUpdate, RouteTimeout,
         RouteCancelled, Replies, EndRoute, SetRoute, exchange, TypeOK
    <2>2. CASE j # i
      BY <1>1, <1>3, <1>6, <2>2 DEF Route, Gate, GateRejects, RefuseLocally,
         Transmit, Respond, RespondUnknown, PostRouteUpdate, RouteTimeout,
         RouteCancelled, Replies, EndRoute, SetRoute, exchange, TypeOK
    <2>3. QED
      BY <2>1, <2>2
  <1>7. CASE Venue
    BY <1>1, <1>3, <1>7 DEF Venue, Accept, Execute, Cancel, CloseMarket, caller,
                            TypeOK
  <1>8. CASE Fault
    BY <1>3, <1>8 DEF Fault, Crash, CrashInApprove, Restart, exchange
  <1>9. ASSUME NEW r \in Reconcilers, Reconcile(r)
        PROVE  UNCHANGED <<route, order>>
    BY <1>9 DEF Reconcile, ListKey, ReconcileBegin, LookupFinds,
                LookupFindsNothing, ReconcileResolve, caller, exchange
  <1>10. QED
    BY <1>5, <1>6, <1>7, <1>8, <1>9 DEF Next, Produce, ArbitrateTerminalMarket,
                                        vars, caller, exchange

\* A producer's attempt is the only one that gains the authority.
LEMMA MintGrants ==
    ASSUME IdentityInv, NEW q \in 1..Qty, ApproveIntent(q)
    PROVE  /\ seq < MaxAttempts /\ seq' = seq + 1 /\ seq + 1 \in Id
           /\ \A i \in Id : i = seq + 1 => CanTrade(i)'
           /\ \A i \in Id : i # seq + 1 => (CanTrade(i)' <=> CanTrade(i))
           /\ UNCHANGED strayed
  <1>1. seq < MaxAttempts /\ seq' = seq + 1 /\ UNCHANGED strayed
    BY DEF ApproveIntent
  <1>2. seq + 1 \in Id
    BY <1>1, BoundsAreNat DEF IdentityInv, TypeOK, OrderRef, Id
  <1>3. /\ route'[seq + 1] = "approved" /\ order' = order
        /\ \A i \in Id : i # seq + 1 => route'[i] = route[i]
    BY <1>2 DEF ApproveIntent, exchange, IdentityInv, TypeOK
  <1>4. \A i \in Id : i = seq + 1 => CanTrade(i)'
    BY <1>3 DEF CanTrade
  <1>5. \A i \in Id : i # seq + 1 => (CanTrade(i)' <=> CanTrade(i))
    BY <1>3 DEF CanTrade, AtExchange
  <1>6. QED
    BY <1>1, <1>2, <1>4, <1>5

\* Numbers are taken one by one, by a producer or by a crash in one.
LEMMA NumbersAdvance ==
    ASSUME [Next]_vars, seq' # seq, \A q \in 1..Qty : ~ApproveIntent(q)
    PROVE  \E q \in 1..Qty : CrashInApprove(q)
  BY DEF Next, Produce, ArbitrateTerminalMarket, Save, Route,
         Gate, GateRejects, RefuseLocally, Transmit, Respond, RespondUnknown,
         PostRouteUpdate, RouteTimeout, RouteCancelled, Replies, Apply,
         Reconcile, ListKey, ReconcileBegin, LookupFinds, LookupFindsNothing,
         ReconcileResolve, Venue, Accept, Execute, Cancel, CloseMarket, Fault,
         Crash, Restart, store, vars

\* The exit pipeline implements the arbiter's promise, with no assumption about
\* passes: authority to trade is granted to one attempt at a time, under a fresh
\* number, only when no earlier attempt's order can trade any more, until a pass
\* has strayed; and even then only a fresh number ever gains it.
THEOREM Implements ==
    ASSUME ~FlushMayFail
    PROVE  Spec => ImplementsAuthority
  <1>1. Init => Authority!Init
    BY DEF Init, Authority!Init, CanTrade, AtExchange
  <1>2. IdentityInv /\ UntilAstray /\ TypeOK' /\ [Next]_vars
            => [Authority!Next]_(Authority!vars)
    <2> SUFFICES ASSUME IdentityInv, UntilAstray, TypeOK', [Next]_vars
                 PROVE  [Authority!Next]_(Authority!vars)
      OBVIOUS
    <2>1. CASE strayed'
      <3>1. ASSUME NEW q \in 1..Qty, ApproveIntent(q)
            PROVE  Authority!Astray
        BY <2>1, <3>1, MintGrants DEF Authority!Astray
      <3>2. ASSUME \A q \in 1..Qty : ~ApproveIntent(q)
            PROVE  Authority!Astray
        <4>1. Holders' \subseteq Holders
          BY <3>2, HoldersShrink DEF Holders
        <4>2. CASE seq' = seq
          BY <2>1, <4>1, <4>2 DEF Authority!Astray, Holders
        <4>3. CASE seq' # seq
          <5>1. seq < MaxAttempts /\ seq' = seq + 1
            BY <3>2, <4>3, NumbersAdvance DEF CrashInApprove, Restart
          <5>2. QED
            BY <2>1, <4>1, <5>1 DEF Authority!Astray, Holders
        <4>4. QED
          BY <4>2, <4>3
      <3>3. QED
        BY <3>1, <3>2 DEF Authority!Next
    <2>2. CASE ~strayed'
      <3>1. SafetyInv /\ strayed' = strayed
        <4>1. ~strayed
          BY <2>2, StrayedStays
        <4>2. QED
          BY <2>2, <4>1 DEF UntilAstray, IdentityInv, TypeOK
      <3>2. ASSUME NEW q \in 1..Qty, ApproveIntent(q)
            PROVE  Authority!Grant
        <4>1. Holders = {}
          BY <3>1, <3>2, MintOverNone DEF ApproveIntent
        <4>2. Holders' = {seq + 1}
          <5>1. /\ seq + 1 \in Id
                /\ \A i \in Id : i = seq + 1 => CanTrade(i)'
                /\ \A i \in Id : i # seq + 1 => (CanTrade(i)' <=> CanTrade(i))
            BY <3>2, MintGrants
          <5>2. \A i \in Id : ~CanTrade(i)
            BY <4>1 DEF Holders
          <5>3. QED
            BY <5>1, <5>2 DEF Holders
        <4>3. QED
          BY <3>1, <3>2, <4>1, <4>2, MintGrants DEF Authority!Grant, Holders
      <3>3. ASSUME \A q \in 1..Qty : ~ApproveIntent(q)
            PROVE  [Authority!Next]_(Authority!vars)
        <4>1. Holders' \in {Holders, {}}
          BY <3>1, <3>3, HoldersAreOne, HoldersShrink DEF Holders
        <4>2. CASE seq' = seq
          BY <3>1, <4>1, <4>2
             DEF Authority!Next, Authority!Revoke, Authority!vars, Holders
        <4>3. CASE seq' # seq
          <5>1. MayMint /\ seq < MaxAttempts /\ seq' = seq + 1
            BY <3>3, <4>3, NumbersAdvance DEF CrashInApprove, Restart
          <5>2. Holders = {} /\ Holders' = Holders
            BY <3>1, <4>1, <5>1, MintOverNone
          <5>3. QED
            BY <3>1, <5>1, <5>2 DEF Authority!Next, Authority!Waste, Holders
        <4>4. QED
          BY <4>2, <4>3
      <3>4. QED
        BY <3>2, <3>3 DEF Authority!Next
    <2>3. QED
      BY <2>1, <2>2
  <1>3. QED
    BY <1>1, <1>2, SafetyInvariant, TypeCorrect, PTL
       DEF Spec, ImplementsAuthority, Authority!Spec
=============================================================================
