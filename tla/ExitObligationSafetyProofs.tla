--------------------- MODULE ExitObligationSafetyProofs ---------------------
(***************************************************************************)
(* One working order, under an open row, and no fill lost: what holds of   *)
(* the exit obligation whatever a lookup counts and however dispatches,    *)
(* routes, fills and restarts overlap.                                     *)
(*                                                                         *)
(* A row that has ended may be opened again by its order's executions, so  *)
(* the inductive invariant does not follow the rows' states; it says that  *)
(* an attempt goes out only while no row is open and no order at work, and *)
(* that a row ends only when its order has.                                *)
(***************************************************************************)
EXTENDS ExitObligationProofs

Settled(w) == ident[w] \in Unspent \cup IdentDead
OpenRow(a) == row[a].state \in Nonterminal
OverRow(a) == row[a].state \in Terminal
Routing(a) == route[a] = "routing"
AllSeen    == Cardinality(seen) >= Size
Lots(a)    == {n \in 1..Size : credit[<<row[a].wire, n>>] = a}

(* The rows. *)
WireOnce ==
    \A a, b \in Attempt :
        Exists(a) /\ ~row[a].renamed /\ b \in Exact(row, row[a].wire) => a = b
\* An id salted with an attempt is one of its successor's.
SaltsFollow ==
    \A b \in Attempt : Exists(b) /\ row[b].wire \in Attempt => row[row[b].wire].renamed

(* The dispatch. *)
SupersedingInv ==
    LET a == disp.attempt
    IN
    disp.step = "superseding" =>
        /\ ~row[a].renamed /\ row[a].wire = Base
        /\ disp.found \in Terminal => Settled(Base) /\ ~Routing(a)
CreatingInv ==
    disp.step = "creating" =>
        /\ Exact(row, disp.wire) = {}
        /\ disp.wire \in Attempt => row[disp.wire].renamed
\* The attempt created is alone: no other is on its way to the exchange.
CreatedInv ==
    LET w == row[disp.attempt].wire
    IN
    disp.step = "created" =>
        /\ Settled(w) /\ (ident[w] \in Unspent => OpenRow(disp.attempt))
        /\ \A a \in Attempt : ~Routing(a)
        /\ \A v \in Wire : ~AtWork(v)
AsksEnough ==
    disp.step \in {"superseding", "creating", "created"} => Size <= Cardinality(seen) + disp.qty

(* The routes. *)
RoutingOpen ==
    \A a \in Attempt : Routing(a) =>
        /\ OpenRow(a) /\ ~row[a].renamed /\ ident[row[a].wire] = "PERSISTED"
        /\ flight.state = "EXECUTION_PENDING" => flight.wire \in {NoWire, row[a].wire}
        /\ \A b \in Attempt : Routing(b) => b = a
        /\ \A v \in Wire : ~AtWork(v)
SentInv == \A a \in Attempt : route[a] = "sent" => order[row[a].wire].state # "none"

(* The orders. *)
OrderHasRow ==
    \A w \in Wire : order[w].state # "none" => \E a \in Attempt : Exists(a) /\ row[a].wire = w
WorkHasOpenRow ==
    \A w \in Wire : AtWork(w) =>
        \E a \in Attempt : OpenRow(a) /\ row[a].wire = w /\ row[a].qty = order[w].size
OneAtWork    == \A v, w \in Wire : AtWork(v) /\ AtWork(w) => v = w
AnswersTrue  == \A l \in Lookups : probe[l].answer = "empty" => order[probe[l].wire].state = "dead"
NoRowSettled == \A w \in Wire : Exact(row, w) = {} => Settled(w)
OverSettled  ==
    \A a \in Attempt : OverRow(a) /\ ~row[a].renamed => Settled(row[a].wire) \/ AllSeen

(* The fills. *)
CreditOnWire ==
    \A f \in Fill : credit[f] # 0 =>
        Exists(credit[f]) /\ row[credit[f]].wire = f[1] /\ f[2] <= order[f[1]].filled
GotCounts == \A a \in Attempt : row[a].got = Cardinality(Lots(a))
EnoughAsked ==
    \A a \in Attempt : Exists(a) /\ row[a].wire # Legacy =>
        \/ ident[row[a].wire] \in IdentDead
        \/ Size + row[a].got <= Cardinality(seen) + row[a].qty

RowsInv  == WireOnce /\ SaltsFollow
DispInv  == SupersedingInv /\ CreatingInv /\ CreatedInv /\ AsksEnough
RouteInv == RoutingOpen /\ SentInv
OrderInv == OrderHasRow /\ WorkHasOpenRow /\ OneAtWork /\ AnswersTrue /\ NoRowSettled /\ OverSettled
FillInv  == LateFillsOnly /\ CreditOnWire /\ GotCounts /\ EnoughAsked

\* The inductive invariant.
IInv == Typed /\ RowsInv /\ DispInv /\ RouteInv /\ OrderInv /\ FillInv

-----------------------------------------------------------------------------
(* What moves end.                                                         *)

\* No row ends.
NoneEnds(r, q) == \A a \in Attempt : q[a].state \in Terminal => r[a].state \in Terminal

LEMMA StatesApart ==
    /\ Terminal \cap Nonterminal = {}
    /\ "none" \notin Terminal \cup Nonterminal
    /\ {"CANCELED", "TERMINAL_UNFILLED", "FILLED", "SUPERSEDED"} = Terminal
    /\ {"INTENT_PERSISTED", "SUBMITTING", "SUBMISSION_UNKNOWN", "RESOLVING_ON_EXCHANGE",
        "ACKNOWLEDGED", "ACKNOWLEDGED_LATE", "RESTING", "PARTIALLY_FILLED"} = Nonterminal
  BY DEF Terminal, Nonterminal, Working, Unproven

LEMMA MovesEndNone ==
    ASSUME NEW r \in [Attempt -> Row], NEW w
    PROVE  /\ NoneEnds(r, r)
           /\ NoneEnds(r, Move(r, w, "SUBMITTING"))
           /\ NoneEnds(r, Move(r, w, "SUBMISSION_UNKNOWN"))
           /\ NoneEnds(r, Move(r, w, "RESOLVING_ON_EXCHANGE"))
           /\ NoneEnds(r, Move(r, w, "ACKNOWLEDGED"))
           /\ NoneEnds(r, Move(r, w, "ACKNOWLEDGED_LATE"))
           /\ NoneEnds(r, Move(r, w, "RESTING"))
  <1>1. ASSUME NEW s \in Nonterminal PROVE NoneEnds(r, Move(r, w, s))
    <2>1. s \in States \ {"none"} /\ s \notin Terminal
      BY StatesApart DEF States
    <2> QED  BY <2>1, MoveEffect DEF NoneEnds
  <1>2. {"SUBMITTING", "SUBMISSION_UNKNOWN", "RESOLVING_ON_EXCHANGE", "ACKNOWLEDGED",
         "ACKNOWLEDGED_LATE", "RESTING"} \subseteq Nonterminal
    BY StatesApart
  <1>3. NoneEnds(r, r)
    BY DEF NoneEnds
  <1> QED  BY <1>1, <1>2, <1>3

LEMMA NoneEndsTwice ==
    ASSUME NEW r, NEW q, NEW p, NoneEnds(r, q), NoneEnds(q, p)
    PROVE  NoneEnds(r, p)
  BY DEF NoneEnds

LEMMA MarkEndsNone ==
    ASSUME NEW r \in [Attempt -> Row], NEW fl \in FlightType, MarkUnknown(r, fl)
    PROVE  NoneEnds(r, row') /\ flight'.state # "EXECUTION_PENDING"
  <1>1. [fl EXCEPT !.state = "SUBMISSION_UNKNOWN"].state = "SUBMISSION_UNKNOWN"
    BY DEF FlightType
  <1> QED  BY <1>1, MovesEndNone DEF MarkUnknown, NoFlight, Flight

\* A move that ends rows ends those of its id.
LEMMA EndsOnly ==
    ASSUME NEW r \in [Attempt -> Row], NEW w,
           NEW s \in {"CANCELED", "TERMINAL_UNFILLED", "FILLED"}
    PROVE  \A a \in Attempt :
              Move(r, w, s)[a].state \in Terminal => r[a].state \in Terminal \/ a \in Exact(r, w)
  <1>1. s \in States \ {"none"}
    BY StatesApart DEF States
  <1> QED  BY <1>1, MoveEffect

-----------------------------------------------------------------------------
(* Steps that record: rows move, calls end, nothing is sent, filled or     *)
(* begun.  All but a handful of the actions are of this kind.              *)

\* What must be so of the order of a row that ends.
Ended(a) ==
    LET w == row[a].wire IN
    /\ ~AtWork(w)
    /\ ident'[w] \in Unspent \cup IdentDead
    /\ Dispatching(a) => disp'.step # "created" \/ ident'[w] \notin Unspent

RecordsRows ==
    /\ Recorded(row, row')
    /\ \A a \in Attempt : row'[a].state \in Terminal => OverRow(a) \/ Ended(a)

RecordsCalls ==
    /\ \A a \in Attempt :
          /\ route'[a] = "sent" => route[a] = "sent"
          /\ route'[a] = "routing" =>
                /\ row'[a].state \notin Terminal /\ Exists(a) /\ ~row[a].renamed
                /\ ident'[row[a].wire] = "PERSISTED"
                /\ flight'.state = "EXECUTION_PENDING" => flight'.wire \in {NoWire, row[a].wire}
                /\ Routing(a) \/ Dispatching(a)
    /\ \/ disp'.step \in {"idle", "emitted"}
       \/ disp' = disp /\ \A a \in Attempt : route'[a] = "routing" => Routing(a)

RecordsIdent ==
    \A w \in Wire :
        /\ ident'[w] \in Unspent => ident[w] \in Unspent
        /\ ident[w] \in IdentDead => ident'[w] \in IdentDead
        /\ Settled(w) => \/ ident'[w] \in Unspent \cup IdentDead
                         \/ \E a \in Attempt : Routing(a) /\ row[a].wire = w

Recording ==
    /\ RecordsRows /\ RecordsCalls /\ RecordsIdent
    /\ UNCHANGED <<order, seen, credit>>
    /\ \A l \in Lookups : probe'[l].answer = "empty" => order[probe'[l].wire].state = "dead"

LEMMA RowTyped ==
    ASSUME IInv
    PROVE  /\ row \in [Attempt -> Row] /\ flight \in FlightType
           /\ \A a \in Attempt : row[a].wire \in Wire
           /\ ident \in [Wire -> IdentState]
           /\ route \in [Attempt -> {"idle", "routing", "sent", "done"}]
           /\ memory \in [Attempt -> {"none", "open", "closed"}]
  BY DEF IInv, Typed, TypeOK, FlightType, Row

\* A row that a recording step leaves behind: the same id and counts.
LEMMA RecordedRow ==
    ASSUME IInv, Recording, NEW a \in Attempt
    PROVE  /\ row'[a].wire = row[a].wire /\ row'[a].renamed = row[a].renamed
           /\ row'[a].qty = row[a].qty /\ row'[a].got = row[a].got
           /\ row'[a].state = "none" <=> row[a].state = "none"
           /\ row'[a].state \in Terminal => OverRow(a) \/ Ended(a)
           /\ row'[a].state \in {"none"} \cup Nonterminal \cup Terminal
           /\ row[a] \in Row /\ row'[a] \in Row
  <1>1. row[a] \in Row /\ row'[a] \in Row
    BY DEF IInv, Typed, TypeOK, Recording, RecordsRows, Recorded
  <1> QED  BY <1>1 DEF Recording, RecordsRows, Recorded, Kept, Row

\* The routing attempt is the only row of its id.
LEMMA RoutingOwnsId ==
    ASSUME IInv, NEW a \in Attempt, Exists(a), ~row[a].renamed,
           NEW b \in Attempt, Routing(b), row[b].wire = row[a].wire
    PROVE  a = b
  <1>1. OpenRow(b) /\ ~row[b].renamed
    BY DEF IInv, RouteInv, RoutingOpen
  <1>2. b \in Exact(row, row[a].wire)
    BY <1>1, StatesApart DEF Exact, OpenRow
  <1> QED  BY <1>2 DEF IInv, RowsInv, WireOnce

LEMMA RecordingKeepsRows == ASSUME IInv, Recording PROVE RowsInv'
  <1>0. \A a \in Attempt : /\ row'[a].wire = row[a].wire /\ row'[a].renamed = row[a].renamed
                           /\ row'[a].state = "none" <=> row[a].state = "none"
    BY RecordedRow
  <1>1. WireOnce'
    BY <1>0 DEF IInv, RowsInv, WireOnce, Exists, Exact
  <1>2. SaltsFollow'
    <2> SUFFICES ASSUME NEW b \in Attempt, row'[b].state # "none", row'[b].wire \in Attempt
                 PROVE  row'[row'[b].wire].renamed
      BY DEF SaltsFollow, Exists
    <2>1. row[row[b].wire].renamed /\ row[b].wire \in Attempt /\ row'[b].wire = row[b].wire
      BY <1>0 DEF IInv, RowsInv, SaltsFollow, Exists
    <2> QED  BY <2>1, <1>0
  <1> QED  BY <1>1, <1>2 DEF RowsInv

LEMMA RecordingKeepsDisp == ASSUME IInv, Typed', Recording PROVE DispInv'
  <1> DEFINE a == disp.attempt
             w == row[a].wire
  <1>1. CASE disp'.step \in {"idle", "emitted"}
    BY <1>1 DEF DispInv, SupersedingInv, CreatingInv, CreatedInv, AsksEnough
  <1>2. CASE disp' = disp /\ \A b \in Attempt : route'[b] = "routing" => Routing(b)
    <2>s. UNCHANGED <<order, seen, credit>>
      BY DEF Recording
    <2>1. AsksEnough'
      BY <1>2, <2>s DEF IInv, DispInv, AsksEnough
    <2>2. CreatingInv'
      <3>1. ASSUME disp.step = "creating"
            PROVE  /\ Exact(row', disp.wire) = {}
                   /\ disp.wire \in Attempt => row'[disp.wire].renamed
        <4>1. Exact(row', disp.wire) = Exact(row, disp.wire)
          BY RecordedRow DEF Exact
        <4> QED  BY <3>1, <4>1, RecordedRow DEF IInv, DispInv, CreatingInv
      <3> QED  BY <1>2, <3>1 DEF CreatingInv
    <2>3. SupersedingInv'
      <3> SUFFICES ASSUME disp.step = "superseding"
                   PROVE  /\ ~row'[a].renamed /\ row'[a].wire = Base
                          /\ disp.found \in Terminal =>
                                ident'[Base] \in Unspent \cup IdentDead /\ route'[a] # "routing"
        BY <1>2 DEF SupersedingInv, Settled, Routing
      <3>1. a \in Attempt /\ Exists(a)
        BY DEF IInv, Typed, Shape, DispShape
      <3>2. /\ ~row[a].renamed /\ w = Base
            /\ disp.found \in Terminal => Settled(Base) /\ ~Routing(a)
        BY DEF IInv, DispInv, SupersedingInv
      <3>3. ~row'[a].renamed /\ row'[a].wire = Base
        BY <3>1, <3>2, RecordedRow
      <3>4. ASSUME disp.found \in Terminal
            PROVE  ident'[Base] \in Unspent \cup IdentDead /\ route'[a] # "routing"
        <4>1. \A b \in Attempt : ~(Routing(b) /\ row[b].wire = Base)
          BY <3>1, <3>2, <3>4, RoutingOwnsId
        <4>2. Base \in Wire
          BY ObligationConstants DEF Base, Wire, Legacy
        <4> QED  BY <1>2, <3>1, <3>2, <3>4, <4>1, <4>2 DEF Recording, RecordsIdent
      <3> QED  BY <3>3, <3>4
    <2>4. CreatedInv'
      <3> SUFFICES ASSUME disp.step = "created"
                   PROVE  /\ ident'[row'[a].wire] \in Unspent \cup IdentDead
                          /\ ident'[row'[a].wire] \in Unspent => row'[a].state \in Nonterminal
                          /\ \A b \in Attempt : route'[b] # "routing"
                          /\ \A v \in Wire : ~AtWork(v)
        BY <1>2, <2>s DEF CreatedInv, Settled, OpenRow, Routing, AtWork
      <3>1. a \in Attempt /\ Exists(a)
        BY DEF IInv, Typed, Shape, DispShape
      <3>2. w \in Wire /\ row'[a].wire = w
        BY <3>1, RecordedRow DEF IInv, Typed, TypeOK, Row
      <3>3. /\ Settled(w) /\ (ident[w] \in Unspent => OpenRow(a))
            /\ \A b \in Attempt : ~Routing(b)
            /\ \A v \in Wire : ~AtWork(v)
        BY DEF IInv, DispInv, CreatedInv
      <3>4. ident'[w] \in Unspent \cup IdentDead
        BY <3>2, <3>3 DEF Recording, RecordsIdent
      <3>5. ASSUME ident'[w] \in Unspent PROVE row'[a].state \in Nonterminal
        <4>1. OpenRow(a)
          BY <3>2, <3>3, <3>5 DEF Recording, RecordsIdent
        <4>2. ~Ended(a) /\ ~OverRow(a)
          BY <1>2, <3>5, <4>1, StatesApart DEF Ended, Dispatching, OpenRow, OverRow
        <4> QED  BY <3>1, <4>2, RecordedRow DEF Exists
      <3> QED  BY <1>2, <3>2, <3>3, <3>4, <3>5
    <2> QED  BY <2>1, <2>2, <2>3, <2>4 DEF DispInv
  <1> QED  BY <1>1, <1>2 DEF Recording, RecordsCalls

LEMMA RecordingKeepsRoutes == ASSUME IInv, Recording PROVE RouteInv'
  <1>s. UNCHANGED <<order, seen, credit>>
    BY DEF Recording
  <1>1. RoutingOpen'
    <2> SUFFICES ASSUME NEW a \in Attempt, route'[a] = "routing"
                 PROVE  /\ row'[a].state \in Nonterminal /\ ~row'[a].renamed
                        /\ ident'[row'[a].wire] = "PERSISTED"
                        /\ flight'.state = "EXECUTION_PENDING" =>
                              flight'.wire \in {NoWire, row'[a].wire}
                        /\ \A b \in Attempt : route'[b] = "routing" => b = a
                        /\ \A v \in Wire : ~AtWork(v)
      BY <1>s DEF RoutingOpen, OpenRow, Routing, AtWork
    <2>1. /\ row'[a].state \notin Terminal /\ Exists(a) /\ ~row[a].renamed
          /\ ident'[row[a].wire] = "PERSISTED"
          /\ flight'.state = "EXECUTION_PENDING" => flight'.wire \in {NoWire, row[a].wire}
          /\ \A b \in Attempt : route'[b] = "routing" => Routing(b) \/ Dispatching(b)
          /\ Routing(a) \/ Dispatching(a)
      BY DEF Recording, RecordsCalls
    <2>2. row'[a].state \in Nonterminal /\ ~row'[a].renamed /\ row'[a].wire = row[a].wire
      BY <2>1, RecordedRow DEF Exists
    <2>3. (\A b \in Attempt : route'[b] = "routing" => b = a) /\ \A v \in Wire : ~AtWork(v)
      BY <2>1 DEF IInv, RouteInv, RoutingOpen, DispInv, CreatedInv, Dispatching
    <2> QED  BY <2>1, <2>2, <2>3
  <1>2. SentInv'
    <2>1. \A a \in Attempt : route'[a] = "sent" => route[a] = "sent"
      BY DEF Recording, RecordsCalls
    <2> QED  BY <1>s, <2>1, RecordedRow DEF IInv, RouteInv, SentInv
  <1> QED  BY <1>1, <1>2 DEF RouteInv

LEMMA RecordingKeepsOrders == ASSUME IInv, Recording PROVE OrderInv'
  <1>s. UNCHANGED <<order, seen, credit>>
    BY DEF Recording
  <1>1. OrderHasRow'
    BY <1>s, RecordedRow DEF IInv, OrderInv, OrderHasRow, Exists
  <1>2. WorkHasOpenRow'
    <2> SUFFICES ASSUME NEW w \in Wire, AtWork(w)
                 PROVE  \E a \in Attempt : /\ row'[a].state \in Nonterminal
                                           /\ row'[a].wire = w /\ row'[a].qty = order[w].size
      BY <1>s DEF WorkHasOpenRow, AtWork, OpenRow
    <2>1. PICK a \in Attempt : OpenRow(a) /\ row[a].wire = w /\ row[a].qty = order[w].size
      BY DEF IInv, OrderInv, WorkHasOpenRow
    <2>2. ~Ended(a) /\ ~OverRow(a) /\ row[a].state # "none"
      BY <2>1, StatesApart DEF Ended, OpenRow, OverRow
    <2> QED  BY <2>1, <2>2, RecordedRow
  <1>3. OneAtWork' /\ AnswersTrue'
    BY <1>s DEF IInv, OrderInv, OneAtWork, AtWork, Recording, AnswersTrue
  <1>4. NoRowSettled'
    <2> SUFFICES ASSUME NEW w \in Wire, Exact(row', w) = {}
                 PROVE  ident'[w] \in Unspent \cup IdentDead
      BY DEF NoRowSettled, Settled
    <2>1. Exact(row, w) = {}
      BY RecordedRow DEF Exact
    <2>2. Settled(w)
      BY <2>1 DEF IInv, OrderInv, NoRowSettled
    <2>3. ASSUME NEW a \in Attempt, Routing(a), row[a].wire = w PROVE FALSE
      BY <2>1, <2>3, StatesApart DEF IInv, RouteInv, RoutingOpen, OpenRow, Exact
    <2> QED  BY <2>2, <2>3 DEF Recording, RecordsIdent
  <1>5. OverSettled'
    <2> SUFFICES ASSUME NEW a \in Attempt, row'[a].state \in Terminal, ~row'[a].renamed
                 PROVE  ident'[row[a].wire] \in Unspent \cup IdentDead \/ AllSeen
      BY <1>s, RecordedRow DEF OverSettled, OverRow, Settled, AllSeen
    <2>1. row[a].wire \in Wire /\ ~row[a].renamed /\ (OverRow(a) \/ Ended(a))
      BY RecordedRow DEF Row
    <2>2. CASE Ended(a)
      BY <2>2 DEF Ended
    <2>3. CASE OverRow(a)
      <3>1. Settled(row[a].wire) \/ AllSeen
        BY <2>1, <2>3 DEF IInv, OrderInv, OverSettled
      <3>2. ASSUME NEW b \in Attempt, Routing(b), row[b].wire = row[a].wire PROVE FALSE
        <4>1. OpenRow(b)
          BY <3>2 DEF IInv, RouteInv, RoutingOpen
        <4>2. a = b
          BY <2>1, <2>3, <3>2, RoutingOwnsId, StatesApart DEF Exists, OverRow
        <4> QED  BY <4>1, <4>2, <2>3, StatesApart DEF OpenRow, OverRow
      <3> QED  BY <2>1, <3>1, <3>2 DEF Recording, RecordsIdent
    <2> QED  BY <2>1, <2>2, <2>3
  <1> QED  BY <1>1, <1>2, <1>3, <1>4, <1>5 DEF OrderInv

LEMMA RecordingKeepsFills == ASSUME IInv, Recording PROVE FillInv'
  <1>s. UNCHANGED <<order, seen, credit>>
    BY DEF Recording
  <1>i. \A w \in Wire : ident[w] \in IdentDead => ident'[w] \in IdentDead
    BY DEF Recording, RecordsIdent
  <1>1. LateFillsOnly'
    <2>1. seen \in SUBSET Fill /\ \A f \in Fill : f[1] \in Wire
      BY DEF IInv, Typed, TypeOK, Fill
    <2>2. \A w \in Wire : Tombstone(row', w) = Tombstone(row, w)
      BY RecordedRow DEF Tombstone
    <2> QED  BY <1>s, <1>i, <2>1, <2>2 DEF IInv, FillInv, LateFillsOnly
  <1>2. CreditOnWire'
    <2>1. \A f \in Fill : credit[f] # 0 => credit[f] \in Attempt
      BY ObligationConstants DEF IInv, Typed, TypeOK, Attempt
    <2> QED  BY <1>s, <2>1, RecordedRow DEF IInv, FillInv, CreditOnWire, Exists
  <1>3. GotCounts'
    <2>1. \A a \in Attempt : Lots(a)' = Lots(a)
      BY <1>s, RecordedRow DEF Lots
    <2> QED  BY <2>1, RecordedRow DEF IInv, FillInv, GotCounts
  <1>4. EnoughAsked'
    BY <1>s, <1>i, RecordedRow, RowTyped DEF IInv, FillInv, EnoughAsked, Exists
  <1> QED  BY <1>1, <1>2, <1>3, <1>4 DEF FillInv

LEMMA RecordingKeeps == ASSUME IInv, Typed', Recording PROVE IInv'
  BY RecordingKeepsRows, RecordingKeepsDisp, RecordingKeepsRoutes, RecordingKeepsOrders,
     RecordingKeepsFills DEF IInv

-----------------------------------------------------------------------------
(* The recording steps.                                                    *)

FlightKept == \/ flight' = flight
              \/ flight'.state # "EXECUTION_PENDING"
              \/ flight'.wire = NoWire

\* A step that ends no attempt and leaves the identities alone.
LEMMA Quiet ==
    ASSUME IInv, Recorded(row, row'), NoneEnds(row, row'), FlightKept,
           UNCHANGED <<ident, order, seen, credit>>,
           \A a \in Attempt : route'[a] \in {route[a], "done"},
           disp' = disp \/ disp'.step \in {"idle", "emitted"},
           \A l \in Lookups : probe'[l].answer = "empty" => order[probe'[l].wire].state = "dead"
    PROVE  Recording
  <1>1. RecordsRows
    BY DEF RecordsRows, NoneEnds, OverRow
  <1>2. RecordsIdent
    BY DEF RecordsIdent, Settled
  <1>3. ASSUME NEW a \in Attempt, route'[a] = "routing"
        PROVE  /\ row'[a].state \notin Terminal /\ Exists(a) /\ ~row[a].renamed
               /\ ident'[row[a].wire] = "PERSISTED"
               /\ flight'.state = "EXECUTION_PENDING" => flight'.wire \in {NoWire, row[a].wire}
               /\ Routing(a)
    <2>1. Routing(a)
      BY <1>3 DEF Routing
    <2>2. /\ OpenRow(a) /\ ~row[a].renamed /\ ident[row[a].wire] = "PERSISTED"
          /\ flight.state = "EXECUTION_PENDING" => flight.wire \in {NoWire, row[a].wire}
      BY <2>1 DEF IInv, RouteInv, RoutingOpen
    <2>3. row'[a].state \notin Terminal /\ Exists(a)
      BY <2>2, StatesApart DEF NoneEnds, OpenRow, Exists
    <2> QED  BY <2>1, <2>2, <2>3 DEF FlightKept
  <1>4. RecordsCalls
    BY <1>3 DEF RecordsCalls
  <1> QED  BY <1>1, <1>2, <1>4 DEF Recording

LEMMA SameAnswers ==
    ASSUME IInv, UNCHANGED probe
    PROVE  \A l \in Lookups : probe'[l].answer = "empty" => order[probe'[l].wire].state = "dead"
  BY DEF IInv, OrderInv, AnswersTrue

LEMMA MonitorRecords ==
    ASSUME IInv, \/ EmitExitIntent
                 \/ Suppress
                 \/ \E w \in Wire : ConfirmLate(w)
                 \/ RemovePosition
                 \/ FlightTimeout
                 \/ UNCHANGED vars
    PROVE  Recording
  <1>1. Recorded(row, row') /\ NoneEnds(row, row')
    BY RowTyped, Moving, MovesEndNone, MarkUnknownRecords, MarkEndsNone
    DEF EmitExitIntent, Suppress, ConfirmLate, RemovePosition, FlightTimeout, vars, durable
  <1>2. UNCHANGED <<ident, order, seen, credit, route, probe>>
    BY DEF EmitExitIntent, Suppress, ConfirmLate, RemovePosition, FlightTimeout,
           vars, durable, process
  <1>3. disp' = disp \/ disp'.step \in {"idle", "emitted"}
    BY AtRestTyped DEF EmitExitIntent, Suppress, ConfirmLate, RemovePosition, FlightTimeout,
           vars, durable, process, AtRest
  <1>4. FlightKept
    BY RowTyped, MarkEndsNone
    DEF FlightKept, EmitExitIntent, Suppress, ConfirmLate, RemovePosition, FlightTimeout,
        vars, durable, NoFlight, Flight
  <1> QED  BY <1>1, <1>2, <1>3, <1>4, SameAnswers, Quiet

LEMMA AdoptRecords ==
    ASSUME IInv, NEW w \in Wire, Adopt(row, w),
           UNCHANGED <<ident, credit, seen, memory, route, probe, order>>
    PROVE  Recording
  <1>1. Recorded(row, row') /\ disp' = AtRest
    BY RowTyped, AdoptEffect
  <1>2. /\ NoneEnds(row, Move(row, w, "SUBMITTING"))
        /\ Move(row, w, "SUBMITTING") \in [Attempt -> Row]
        /\ Flight("EXECUTION_PENDING", w) \in FlightType
    BY RowTyped, MovesEndNone, Moving, FlightsTyped DEF Recorded
  <1>3. NoneEnds(row, row') /\ FlightKept
    BY <1>2, MarkEndsNone, NoneEndsTwice DEF Adopt, FlightKept
  <1> QED  BY <1>1, <1>3, AtRestTyped, SameAnswers, Quiet

LEMMA DenyRecords == ASSUME IInv, NEW a \in Attempt, Deny(a) PROVE Recording
  <1>1. Recorded(row, row') /\ NoneEnds(row, row')
    BY RowTyped, Moving, MovesEndNone DEF Deny, durable
  <1>2. UNCHANGED <<ident, order, seen, credit, disp, probe>>
    BY DEF Deny, durable
  <1>3. \A b \in Attempt : route'[b] \in {route[b], "done"}
    BY RowTyped DEF Deny, EndRoute
  <1>4. FlightKept
    BY DEF Deny, FlightKept, NoFlight, Flight
  <1> QED  BY <1>1, <1>2, <1>3, <1>4, SameAnswers, Quiet

\* Restarting ends every call; a row inserted is another lemma's.
LEMMA RestartRecords == ASSUME IInv, Restart, row' = row PROVE Recording
  <1>1. Recorded(row, row') /\ NoneEnds(row, row')
    BY RowTyped, Moving, MovesEndNone
  <1>2. /\ UNCHANGED <<ident, order, seen, credit>>
        /\ \A a \in Attempt : route'[a] \notin {"routing", "sent"}
        /\ disp' = AtRest
        /\ \A l \in Lookups : probe'[l].answer = "none"
    BY DEF Restart, NoProbe
  <1>3. RecordsRows
    BY <1>1 DEF RecordsRows, NoneEnds, OverRow
  <1>4. RecordsIdent /\ RecordsCalls
    BY <1>2, AtRestTyped DEF RecordsIdent, RecordsCalls, Settled
  <1> QED  BY <1>2, <1>3, <1>4 DEF Recording

-----------------------------------------------------------------------------
(* An attempt whose call is under way.                                     *)

LEMMA RoutingFacts ==
    ASSUME IInv, NEW a \in Attempt, route[a] = "routing"
    PROVE  /\ OpenRow(a) /\ ~OverRow(a) /\ Exists(a) /\ ~row[a].renamed
           /\ ident[row[a].wire] = "PERSISTED"
           /\ flight.state = "EXECUTION_PENDING" => flight.wire \in {NoWire, row[a].wire}
           /\ order[row[a].wire].state = "none" /\ order[row[a].wire].filled = 0
           /\ \A v \in Wire : ~AtWork(v)
           /\ \A b \in Attempt : route[b] = "routing" => b = a
           /\ disp.step # "created"
  <1>1. /\ OpenRow(a) /\ ~row[a].renamed /\ ident[row[a].wire] = "PERSISTED"
        /\ flight.state = "EXECUTION_PENDING" => flight.wire \in {NoWire, row[a].wire}
        /\ \A v \in Wire : ~AtWork(v)
        /\ \A b \in Attempt : route[b] = "routing" => b = a
    BY DEF IInv, RouteInv, RoutingOpen, Routing
  <1>2. row[a].wire \in Wire
    BY RowTyped
  <1>3. order[row[a].wire].state = "none" /\ order[row[a].wire].filled = 0
    BY <1>1, <1>2 DEF IInv, Typed, Shape, OrderShape
  <1>4. disp.step # "created"
    BY DEF IInv, DispInv, CreatedInv, Routing
  <1> QED  BY <1>1, <1>3, <1>4, StatesApart DEF Exists, OpenRow, OverRow

LEMMA SentFacts ==
    ASSUME IInv, NEW a \in Attempt, route[a] = "sent"
    PROVE  /\ row[a].wire \in Wire
           /\ order[row[a].wire].state # "none"
           /\ ident[row[a].wire] \notin Unspent
           /\ \A b \in Attempt : route[b] = "routing" => row[b].wire # row[a].wire
  <1>1. row[a].wire \in Wire
    BY RowTyped
  <1>2. order[row[a].wire].state # "none"
    BY DEF IInv, RouteInv, SentInv
  <1>3. ident[row[a].wire] \notin Unspent
    BY <1>1, <1>2 DEF IInv, Typed, Shape, OrderShape, Unspent
  <1> QED  BY <1>1, <1>2, <1>3, RoutingFacts DEF Unspent

\* A call that sent nothing may end the rows of its id.
LEMMA OwnRowEnds ==
    ASSUME IInv, NEW a \in Attempt, route[a] = "routing",
           Recorded(row, row'), NoneEnds(Move(row, row[a].wire, "TERMINAL_UNFILLED"), row'),
           ident'[row[a].wire] \in Unspent \cup IdentDead
    PROVE  RecordsRows
  <1>1. ASSUME NEW b \in Attempt, row'[b].state \in Terminal, ~OverRow(b) PROVE Ended(b)
    <2>1. b \in Exact(row, row[a].wire)
      BY <1>1, RowTyped, EndsOnly DEF NoneEnds, OverRow
    <2>2. row[b].wire = row[a].wire
      BY <2>1 DEF Exact
    <2> QED  BY <2>2, RoutingFacts, RowTyped DEF Ended, Dispatching
  <1> QED  BY <1>1 DEF RecordsRows

\* Then no call is at work that has not sent.
LEMMA OwnCallEnds ==
    ASSUME IInv, NEW a \in Attempt, route[a] = "routing",
           route' = [route EXCEPT ![a] = "done"],
           UNCHANGED disp
    PROVE  RecordsCalls
  <1>1. \A b \in Attempt : /\ route'[b] = "sent" => route[b] = "sent"
                           /\ route'[b] # "routing"
    BY RowTyped, RoutingFacts
  <1> QED  BY <1>1 DEF RecordsCalls

LEMMA HoldRecords == ASSUME IInv, NEW a \in Attempt, Hold(a) PROVE Recording
  <1>u. /\ UNCHANGED <<ident, credit, seen, disp, probe, order>>
        /\ route[a] = "routing" /\ route' = [route EXCEPT ![a] = "done"]
    BY DEF Hold, EndRoute
  <1>c. RecordsCalls
    BY <1>u, OwnCallEnds
  <1>i. RecordsIdent
    BY <1>u DEF RecordsIdent, Settled
  <1>1. CASE /\ flight.state = "EXECUTION_PENDING" /\ Moves(row, flight.wire, "TERMINAL_UNFILLED")
             /\ row' = Move(row, flight.wire, "TERMINAL_UNFILLED")
    <2>1. flight.wire # NoWire
      BY <1>1, RowTyped, ObligationConstants DEF Moves, Exact, Wire, Legacy, NoWire
    <2>2. flight.wire = row[a].wire
      BY <1>1, <1>u, <2>1, RoutingFacts
    <2>3. Recorded(row, row') /\ NoneEnds(row', row')
      BY <1>1, RowTyped, Moving DEF NoneEnds
    <2>4. ident'[row[a].wire] \in Unspent \cup IdentDead
      BY <1>u, RoutingFacts DEF Unspent
    <2>5. RecordsRows
      BY <1>1, <1>u, <2>2, <2>3, <2>4, OwnRowEnds
    <2> QED  BY <1>u, <1>c, <1>i, <2>5, SameAnswers DEF Recording
  <1>2. CASE UNCHANGED row \/ MarkUnknown(row, flight)
    <2>1. Recorded(row, row') /\ NoneEnds(row, row')
      BY <1>2, RowTyped, Moving, MovesEndNone, MarkUnknownRecords, MarkEndsNone
    <2>2. RecordsRows
      BY <2>1 DEF RecordsRows, NoneEnds, OverRow
    <2> QED  BY <1>u, <1>c, <1>i, <2>2, SameAnswers DEF Recording
  <1> QED  BY <1>1, <1>2 DEF Hold

LEMMA RefuseRecords == ASSUME IInv, NEW a \in Attempt, Refuse(a) PROVE Recording
  <1> DEFINE w == row[a].wire
             m == Move(row, w, "TERMINAL_UNFILLED")
  <1>u. /\ UNCHANGED <<credit, seen, disp, probe, order>>
        /\ route[a] = "routing" /\ route' = [route EXCEPT ![a] = "done"]
    BY DEF Refuse, EndRoute
  <1>1. ident' = [ident EXCEPT ![w] = "REJECTED"] /\ w \in Wire /\ ident[w] = "PERSISTED"
    BY <1>u, RowTyped, RoutingFacts DEF Refuse
  <1>2. RecordsIdent
    BY <1>1, RowTyped DEF RecordsIdent, Settled, IdentDead, Unspent
  <1>3. Recorded(row, m) /\ m \in [Attempt -> Row]
    BY RowTyped, Moving DEF Recorded
  <1>4. row' = m \/ MarkUnknown(m, flight)
    BY DEF Refuse
  <1>5. ident'[w] \in Unspent \cup IdentDead
    BY <1>1, RowTyped DEF IdentDead
  <1>6. Recorded(row, row') /\ NoneEnds(m, row')
    <2> HIDE DEF m
    <2> QED  BY <1>3, <1>4, RowTyped, MovesEndNone, MarkUnknownRecords, MarkEndsNone, RecordedTwice
  <1>7. RecordsRows
    BY <1>u, <1>5, <1>6, OwnRowEnds
  <1> QED  BY <1>u, <1>2, <1>7, OwnCallEnds, SameAnswers DEF Recording

\* The calls when one ends whose order has gone out.
LEMMA SentCallEnds ==
    ASSUME IInv, NEW a \in Attempt, route[a] = "sent",
           route' = [route EXCEPT ![a] = "done"],
           \A b \in Attempt : row'[b].state \in Terminal => OverRow(b) \/ row[b].wire = row[a].wire,
           \A v \in Wire \ {row[a].wire} : ident'[v] = ident[v],
           flight'.state # "EXECUTION_PENDING",
           UNCHANGED disp
    PROVE  RecordsCalls
  <1>1. \A b \in Attempt : /\ route'[b] = "sent" => route[b] = "sent"
                           /\ route'[b] = "routing" => route[b] = "routing"
    BY RowTyped
  <1>2. ASSUME NEW b \in Attempt, route[b] = "routing"
        PROVE  /\ row'[b].state \notin Terminal /\ Exists(b) /\ ~row[b].renamed
               /\ ident'[row[b].wire] = "PERSISTED"
    <2>1. row[b].wire # row[a].wire /\ row[b].wire \in Wire
      BY <1>2, SentFacts, RowTyped
    <2> QED  BY <1>2, <2>1, RoutingFacts
  <1> QED  BY <1>1, <1>2 DEF RecordsCalls, Routing

LEMMA TimeoutRecords == ASSUME IInv, NEW a \in Attempt, RouteTimeout(a) PROVE Recording
  <1> DEFINE w == row[a].wire
  <1>u. /\ UNCHANGED <<credit, seen, memory, disp, probe, order>>
        /\ route[a] \in {"routing", "sent"} /\ route' = [route EXCEPT ![a] = "done"]
    BY DEF RouteTimeout, EndRoute
  <1>1. /\ w \in Wire
        /\ \A v \in Wire : /\ v # w => ident'[v] = ident[v]
                           /\ ident'[v] \in Unspent => ident[v] \in Unspent
                           /\ ident'[v] = ident[v] \/ (v = w /\ ident[v] \in {"PERSISTED", "SUBMITTING"})
    BY RowTyped DEF RouteTimeout, Unspent
  <1>2. Recorded(row, row') /\ NoneEnds(row, row') /\ flight'.state # "EXECUTION_PENDING"
    BY RowTyped, MarkUnknownRecords, MarkEndsNone DEF RouteTimeout
  <1>3. ident[w] = "PERSISTED" => route[a] = "routing"
    BY <1>u, SentFacts DEF Unspent
  <1>4. RecordsIdent
    <2>1. /\ "SUBMITTING" \notin Unspent \cup IdentDead
          /\ "PERSISTED" \notin IdentDead
      BY DEF Unspent, IdentDead
    <2> QED  BY <1>1, <1>3, <2>1 DEF RecordsIdent, Settled, Routing
  <1>5. RecordsCalls
    <2>1. \A b \in Attempt : row'[b].state \in Terminal => OverRow(b)
      BY <1>2 DEF NoneEnds, OverRow
    <2> QED  BY <1>u, <1>1, <1>2, <2>1, OwnCallEnds, SentCallEnds
  <1>6. RecordsRows
    BY <1>2 DEF RecordsRows, NoneEnds, OverRow
  <1> QED  BY <1>u, <1>4, <1>5, <1>6, SameAnswers DEF Recording

\* An id that the exchange has an order for is settled at most once.
LEMMA ReplyIdent ==
    ASSUME IInv, NEW a \in Attempt, route[a] = "sent", NEW s,
           ident' = [ident EXCEPT ![row[a].wire] = s],
           s \in IdentDead \/ (s \notin Unspent /\ ident[row[a].wire] \notin IdentDead)
    PROVE  RecordsIdent /\ \A v \in Wire \ {row[a].wire} : ident'[v] = ident[v]
  <1> DEFINE w == row[a].wire
  <1>1. w \in Wire /\ ident \in [Wire -> IdentState] /\ ident[w] \notin Unspent
    BY RowTyped, SentFacts
  <1>2. \A v \in Wire \ {w} : ident'[v] = ident[v]
    BY <1>1
  <1>3. ident'[w] = s
    BY <1>1
  <1>4. IdentDead \cap Unspent = {}
    BY DEF IdentDead, Unspent
  <1>5. ASSUME NEW v \in Wire
        PROVE  /\ ident'[v] \in Unspent => ident[v] \in Unspent
               /\ ident[v] \in IdentDead => ident'[v] \in IdentDead
               /\ Settled(v) => ident'[v] \in Unspent \cup IdentDead
    BY <1>1, <1>2, <1>3, <1>4 DEF Settled
  <1> QED  BY <1>2, <1>5 DEF RecordsIdent

LEMMA RejectedRecords == ASSUME IInv, NEW a \in Attempt, ReplyRejected(a) PROVE Recording
  <1> DEFINE s == IF ident[row[a].wire] \in IdentDead THEN ident[row[a].wire] ELSE "REJECTED"
  <1>u. /\ UNCHANGED <<credit, seen, disp, probe, order>>
        /\ route[a] = "sent" /\ route' = [route EXCEPT ![a] = "done"]
        /\ ident' = [ident EXCEPT ![row[a].wire] = s]
    BY DEF ReplyRejected, EndRoute, Close
  <1>1. s \in IdentDead
    BY DEF IdentDead
  <1>2. Recorded(row, row') /\ NoneEnds(row, row') /\ flight'.state # "EXECUTION_PENDING"
    BY RowTyped, MarkUnknownRecords, MarkEndsNone DEF ReplyRejected
  <1> HIDE DEF s
  <1>3. RecordsIdent /\ \A v \in Wire \ {row[a].wire} : ident'[v] = ident[v]
    BY <1>u, <1>1, ReplyIdent
  <1>4. RecordsCalls /\ RecordsRows
    <2>1. \A b \in Attempt : row'[b].state \in Terminal => OverRow(b)
      BY <1>2 DEF NoneEnds, OverRow
    <2> QED  BY <1>u, <1>2, <1>3, <2>1, SentCallEnds DEF RecordsRows
  <1> QED  BY <1>u, <1>3, <1>4, SameAnswers DEF Recording

\* What a reply may do to the rows: end those of its own order, once it has
\* ended with executions.
Progressed(w, q) ==
    /\ Recorded(row, q)
    /\ \A b \in Attempt :
          q[b].state \in Terminal => OverRow(b) \/ (row[b].wire = w /\ Final(w) /\ Executed(w) > 0)

LEMMA ProgressFilled ==
    ASSUME NEW w, NEW q, Progressed(w, q), Final(w), Executed(w) > 0
    PROVE  Progressed(w, Move(q, w, "FILLED"))
  <1>1. q \in [Attempt -> Row]
    BY DEF Progressed, Recorded
  <1>2. Recorded(q, Move(q, w, "FILLED"))
    BY <1>1, Moving
  <1>3. \A b \in Attempt : Move(q, w, "FILLED")[b].state \in Terminal =>
                              q[b].state \in Terminal \/ b \in Exact(q, w)
    BY <1>1, EndsOnly
  <1>4. \A b \in Exact(q, w) : row[b].wire = w
    BY DEF Progressed, Recorded, Kept, Exact
  <1>5. Recorded(row, Move(q, w, "FILLED"))
    BY <1>2, RecordedTwice DEF Progressed
  <1> DEFINE p == Move(q, w, "FILLED")
  <1> HIDE DEF p
  <1> QED  BY <1>3, <1>4, <1>5 DEF Progressed, p

LEMMA ProgressEndsNone ==
    ASSUME NEW w, NEW q, NEW p, Progressed(w, q), Recorded(q, p), NoneEnds(q, p)
    PROVE  Progressed(w, p)
  BY RecordedTwice DEF Progressed, NoneEnds

LEMMA ProgressWorking ==
    ASSUME NEW w, NEW q, Progressed(w, q), NEW a \in Attempt,
           NEW s \in {"PARTIALLY_FILLED", "RESTING"}
    PROVE  Progressed(w, MoveAttempt(q, a, s))
  <1>1. q \in [Attempt -> Row]
    BY DEF Progressed, Recorded
  <1>2. s \in States \ {"none", "INTENT_PERSISTED"} /\ s \notin Terminal
    BY StatesApart DEF States
  <1>3. Recorded(q, MoveAttempt(q, a, s))
    BY <1>1, <1>2, MoveAttemptRecords
  <1>4. MoveAttempt(q, a, s)[a].state \in {q[a].state, s}
    BY <1>1 DEF MoveAttempt, Row
  <1>5. \A b \in Attempt \ {a} : MoveAttempt(q, a, s)[b] = q[b]
    BY <1>1 DEF MoveAttempt
  <1>6. NoneEnds(q, MoveAttempt(q, a, s))
    BY <1>2, <1>4, <1>5 DEF NoneEnds
  <1> QED  BY <1>3, <1>6, ProgressEndsNone

LEMMA SubmittedFlightTyped ==
    ASSUME NEW w \in Wire
    PROVE  SubmittedFlight(w) \in FlightType /\ SubmittedFlight(w).state # "EXECUTION_PENDING"
  BY FlightsTyped DEF SubmittedFlight, NoFlight, Flight

LEMMA ReplyProgresses ==
    ASSUME IInv, NEW a \in Attempt, Reply(a)
    PROVE  Progressed(row[a].wire, row') /\ flight'.state # "EXECUTION_PENDING"
  <1> DEFINE w == row[a].wire
             n == NoteAck(a)
             r == Submitted(n, w)
  <1>1. route[a] = "sent" /\ row \in [Attempt -> Row] /\ w \in Wire
    BY RowTyped DEF Reply
  <1>2. Progressed(w, row)
    BY <1>1, Moving DEF Progressed, OverRow
  <1>3. Progressed(w, n)
    BY <1>1, <1>2, ProgressFilled DEF NoteAck
  <1>4. n \in [Attempt -> Row]
    BY <1>3 DEF Progressed, Recorded
  <1> HIDE DEF n
  <1>5. Progressed(w, r)
    <2>1. /\ Recorded(n, Move(n, w, "ACKNOWLEDGED"))
          /\ NoneEnds(n, Move(n, w, "ACKNOWLEDGED"))
      BY <1>4, Moving, MovesEndNone
    <2> QED  BY <1>3, <2>1, ProgressEndsNone DEF Submitted
  <1>6. r \in [Attempt -> Row]
    BY <1>5 DEF Progressed, Recorded
  <1>7. \/ CanFinalize(w) /\ row' = Move(r, w, "FILLED") /\ flight' = NoFlight
        \/ row' = r /\ flight' = SubmittedFlight(w)
        \/ row' = MoveAttempt(r, a, "PARTIALLY_FILLED") /\ flight' = SubmittedFlight(w)
        \/ row' = MoveAttempt(r, a, "RESTING") /\ flight' = SubmittedFlight(w)
        \/ MarkUnknown(r, SubmittedFlight(w))
    BY DEF Reply, n
  <1>f. SubmittedFlight(w) \in FlightType /\ SubmittedFlight(w).state # "EXECUTION_PENDING"
    BY <1>1, SubmittedFlightTyped
  <1> HIDE DEF r, w
  <1>8. CASE CanFinalize(w) /\ row' = Move(r, w, "FILLED") /\ flight' = NoFlight
    <2>1. order[w].state # "none"
      BY <1>1, SentFacts DEF w
    <2>2. order[w].size > 0
      BY <1>1, <2>1 DEF IInv, Typed, Shape, OrderShape
    <2>3. Final(w) /\ Executed(w) > 0
      BY <1>8, <2>2 DEF CanFinalize
    <2> QED  BY <1>5, <1>8, <2>3, ProgressFilled DEF NoFlight, Flight, w
  <1>9. CASE row' = r /\ flight' = SubmittedFlight(w)
    BY <1>5, <1>9, <1>f DEF w
  <1>10. CASE /\ row' = MoveAttempt(r, a, "PARTIALLY_FILLED") \/ row' = MoveAttempt(r, a, "RESTING")
              /\ flight' = SubmittedFlight(w)
    BY <1>5, <1>10, <1>f, ProgressWorking DEF w
  <1>11. CASE MarkUnknown(r, SubmittedFlight(w))
    BY <1>5, <1>6, <1>11, <1>f, MarkUnknownRecords, MarkEndsNone, ProgressEndsNone DEF w
  <1> QED  BY <1>7, <1>8, <1>9, <1>10, <1>11

LEMMA ReplyRecording == ASSUME IInv, NEW a \in Attempt, Reply(a) PROVE Recording
  <1> DEFINE w == row[a].wire
             s == IF ident[w] \in IdentDead THEN ident[w]
                  ELSE IF Final(w) /\ Executed(w) > 0 THEN "FILLED" ELSE "ACKNOWLEDGED"
  <1>u. /\ UNCHANGED <<credit, seen, disp, probe, order>>
        /\ route[a] = "sent" /\ route' = [route EXCEPT ![a] = "done"]
    BY DEF Reply, EndRoute
  <1>1. Progressed(w, row') /\ flight'.state # "EXECUTION_PENDING"
    BY ReplyProgresses
  <1>3. ident' = [ident EXCEPT ![w] = s] \/ ident' = [ident EXCEPT ![w] = "FILLED"]
    BY RowTyped DEF Reply, AckedIdent
  <1>4. /\ s \in IdentDead \/ (s \notin Unspent /\ ident[w] \notin IdentDead)
        /\ "FILLED" \in IdentDead
        /\ Final(w) /\ Executed(w) > 0 => s \in IdentDead
    BY DEF IdentDead, Unspent
  <1>5. Final(w) /\ Executed(w) > 0 => ident'[w] \in IdentDead
    BY <1>3, <1>4, RowTyped
  <1> HIDE DEF s
  <1>6. RecordsIdent /\ \A v \in Wire \ {w} : ident'[v] = ident[v]
    BY <1>u, <1>3, <1>4, ReplyIdent
  <1>7. RecordsCalls
    <2>1. \A b \in Attempt : row'[b].state \in Terminal => OverRow(b) \/ row[b].wire = w
      BY <1>1 DEF Progressed
    <2> QED  BY <1>u, <1>1, <1>6, <2>1, SentCallEnds
  <1>8. RecordsRows
    <2>1. ASSUME NEW b \in Attempt, row'[b].state \in Terminal, ~OverRow(b) PROVE Ended(b)
      <3>1. row[b].wire = w /\ Final(w) /\ Executed(w) > 0
        BY <1>1, <2>1 DEF Progressed
      <3>2. ~AtWork(w) /\ ident'[w] \in IdentDead
        BY <1>5, <3>1 DEF Final, AtWork
      <3> QED  BY <3>1, <3>2 DEF Ended, IdentDead, Unspent
    <2> QED  BY <1>1, <2>1 DEF RecordsRows, Progressed
  <1> QED  BY <1>u, <1>6, <1>7, <1>8, SameAnswers DEF Recording

\* The row dispatched is open if its id is unspent, and then it is the only one
\* on its way.
LEMMA StartRecords == ASSUME IInv, StartRoute PROVE Recording
  <1> DEFINE a == disp.attempt
             w == row[a].wire
  <1>1. /\ disp.step = "created" /\ a \in Attempt /\ w \in Wire /\ ~row[a].renamed
        /\ Settled(w) /\ (ident[w] \in Unspent => OpenRow(a))
        /\ \A b \in Attempt : ~Routing(b)
    BY RowTyped DEF StartRoute, IInv, Typed, Shape, DispShape, DispInv, CreatedInv
  <1>2. row' = Move(row, w, "SUBMITTING") /\ disp' = AtRest
        /\ UNCHANGED <<credit, seen, probe, order>>
    BY DEF StartRoute
  <1>3. Recorded(row, row') /\ NoneEnds(row, row')
    BY <1>2, RowTyped, Moving, MovesEndNone
  <1>4. CASE /\ flight' = Flight("RECONCILIATION_REQUIRED", w)
             /\ UNCHANGED <<ident, memory, route>>
    <2>1. FlightKept
      BY <1>4 DEF FlightKept, Flight
    <2> QED  BY <1>2, <1>3, <1>4, <2>1, AtRestTyped, SameAnswers, Quiet
  <1>5. CASE /\ IdentityOf(w) # "replaced"
             /\ flight' = Flight("EXECUTION_PENDING", w)
             /\ ident' = [ident EXCEPT ![w] = IdentityOf(w)]
             /\ route' = [route EXCEPT ![a] = "routing"]
    <2>1. ident[w] \in Unspent /\ IdentityOf(w) = "PERSISTED"
      BY <1>1, <1>5 DEF IdentityOf, Settled, Unspent, IdentDead
    <2>2. row'[a].state \notin Terminal /\ Exists(a)
      BY <1>1, <1>3, <2>1, StatesApart DEF NoneEnds, OpenRow, Exists
    <2>3. ident'[w] = "PERSISTED" /\ \A v \in Wire \ {w} : ident'[v] = ident[v]
      BY <1>1, <1>5, <2>1, RowTyped
    <2>4. RecordsIdent
      BY <2>1, <2>3 DEF RecordsIdent, Settled, Unspent, IdentDead
    <2>5. \A b \in Attempt : /\ route'[b] = "sent" => route[b] = "sent"
                             /\ route'[b] = "routing" => b = a
      BY <1>1, <1>5, RowTyped DEF Routing
    <2>6. flight'.wire = w /\ Dispatching(a)
      BY <1>1, <1>5 DEF Flight, Dispatching
    <2>7. RecordsCalls
      BY <1>1, <1>2, <2>2, <2>3, <2>5, <2>6, AtRestTyped DEF RecordsCalls
    <2>8. RecordsRows
      BY <1>3 DEF RecordsRows, NoneEnds, OverRow
    <2> QED  BY <1>2, <2>4, <2>7, <2>8, SameAnswers DEF Recording
  <1>6. \/ /\ flight' = Flight("RECONCILIATION_REQUIRED", w)
           /\ UNCHANGED <<ident, memory, route>>
        \/ /\ IdentityOf(w) # "replaced"
           /\ flight' = Flight("EXECUTION_PENDING", w)
           /\ ident' = [ident EXCEPT ![w] = IdentityOf(w)]
           /\ route' = [route EXCEPT ![a] = "routing"]
    BY DEF StartRoute
  <1> QED  BY <1>4, <1>5, <1>6

LEMMA BeginRecords ==
    ASSUME IInv, NEW l \in Lookups, NEW w \in Wire, BeginReconcile(l, w)
    PROVE  Recording
  <1>u. UNCHANGED <<ident, credit, seen, memory, route, disp, order>>
    BY DEF BeginReconcile
  <1>1. CASE /\ NeverDispatched(w) /\ row' = Move(row, w, "TERMINAL_UNFILLED")
             /\ flight' \in Released(w) /\ UNCHANGED probe
    <2>1. PICK a \in Exact(row, w) : row[a].state = "INTENT_PERSISTED" /\ ident[w] \in Unspent
      BY <1>1 DEF NeverDispatched, Unspent
    <2>2. a \in Attempt /\ Exists(a) /\ row[a].wire = w /\ ~row[a].renamed
      BY <2>1 DEF Exact, Exists
    <2>3. \A b \in Exact(row, w) : b = a
      BY <2>2 DEF IInv, RowsInv, WireOnce, Exact
    <2>4. ~AtWork(w)
      BY <2>1 DEF IInv, Typed, Shape, OrderShape, Unspent, AtWork
    <2>5. route[a] = "idle"
      BY <2>1, <2>2 DEF IInv, Typed, Shape, RouteShape
    <2>6. \A b \in Attempt : row'[b].state \in Terminal => OverRow(b) \/ b = a
      BY <1>1, <2>3, RowTyped, EndsOnly DEF OverRow
    <2>7. Ended(a)
      BY <1>u, <2>1, <2>2, <2>4 DEF Ended, BeginReconcile
    <2>8. RecordsRows
      BY <1>1, <2>6, <2>7, RowTyped, Moving DEF RecordsRows
    <2>9. RecordsIdent
      BY <1>u DEF RecordsIdent, Settled
    <2>10. FlightKept
      BY <1>1 DEF FlightKept, Released, NoFlight, Flight
    <2>11. RecordsCalls
      BY <1>u, <2>5, <2>6, <2>10, RoutingFacts DEF RecordsCalls, FlightKept, Routing
    <2> QED  BY <1>1, <1>u, <2>8, <2>9, <2>11, SameAnswers DEF Recording
  <1>2. CASE /\ row' = Move(row, w, "RESOLVING_ON_EXCHANGE")
             /\ probe' = [probe EXCEPT ![l] = [wire |-> w, answer |-> "awaited"]]
             /\ UNCHANGED flight
    <2>1. Recorded(row, row') /\ NoneEnds(row, row') /\ FlightKept
      BY <1>2, RowTyped, Moving, MovesEndNone DEF FlightKept
    <2>2. \A k \in Lookups : probe'[k].answer = "empty" => probe'[k] = probe[k]
      BY <1>2 DEF IInv, Typed, TypeOK
    <2>3. \A k \in Lookups : probe'[k].answer = "empty" => order[probe'[k].wire].state = "dead"
      BY <2>2 DEF IInv, OrderInv, AnswersTrue
    <2> QED  BY <1>u, <2>1, <2>3, Quiet
  <1> QED  BY <1>1, <1>2 DEF BeginReconcile

\* A lookup that says an order ended speaks true, whatever it counts.
LEMMA AnswerRecords ==
    ASSUME IInv, NEW l \in Lookups, NEW s \in Said, Answer(l, s)
    PROVE  Recording
  <1>1. /\ UNCHANGED <<ident, credit, flight, seen, memory, route, disp, order, row>>
        /\ probe' = [probe EXCEPT ![l].answer = s]
    BY DEF Answer, durable
  <1>2. s = "empty" => order[probe[l].wire].state = "dead"
    BY DEF Answer, Says
  <1>3. ASSUME NEW k \in Lookups, probe'[k].answer = "empty"
        PROVE  order[probe'[k].wire].state = "dead"
    <2>1. probe \in [Lookups -> [wire : Wire \cup {NoWire},
                                 answer : {"none", "awaited", "nothing", "working",
                                           "executed", "empty"}]]
      BY DEF IInv, Typed, TypeOK
    <2>2. CASE k = l
      BY <1>1, <1>2, <1>3, <2>1, <2>2
    <2>3. CASE k # l
      BY <1>1, <1>3, <2>1, <2>3 DEF IInv, OrderInv, AnswersTrue
    <2> QED  BY <2>2, <2>3
  <1>4. Recorded(row, row') /\ NoneEnds(row, row') /\ FlightKept
    BY <1>1, RowTyped, Moving, MovesEndNone DEF FlightKept
  <1> QED  BY <1>1, <1>3, <1>4, Quiet

LEMMA ApplyRecords == ASSUME IInv, NEW l \in Lookups, ApplyAnswer(l) PROVE Recording
  <1> DEFINE w == probe[l].wire
             s == probe[l].answer
  <1>u. /\ UNCHANGED <<credit, seen, memory, route, disp, order>>
        /\ probe' = [probe EXCEPT ![l] = NoProbe]
    BY DEF ApplyAnswer
  <1>p. \A k \in Lookups : probe'[k].answer = "empty" => order[probe'[k].wire].state = "dead"
    <2>1. \A k \in Lookups : probe'[k].answer = "empty" => probe'[k] = probe[k]
      BY <1>u DEF IInv, Typed, TypeOK, NoProbe
    <2> QED  BY <2>1 DEF IInv, OrderInv, AnswersTrue
  <1>w. w \in Wire
    BY DEF IInv, Typed, Shape, ProbeShape, ApplyAnswer
  <1>1. CASE /\ UNCHANGED ident /\ (UNCHANGED row \/ row' = Move(row, w, "RESTING"))
             /\ FlightKept
    <2>1. Recorded(row, row') /\ NoneEnds(row, row')
      BY <1>1, RowTyped, Moving, MovesEndNone
    <2> QED  BY <1>1, <1>u, <1>p, <2>1, Quiet
  <1>2. CASE /\ s = "empty"
             /\ ident' = [ident EXCEPT ![w] = "CANCELED"]
             /\ row' = Move(row, w, "CANCELED")
             /\ FlightKept
    <2>1. order[w].state = "dead"
      BY <1>2 DEF IInv, OrderInv, AnswersTrue
    <2>2. ident[w] \notin Unspent
      BY <1>w, <2>1 DEF IInv, Typed, Shape, OrderShape, Unspent
    <2>3. ident'[w] = "CANCELED" /\ \A v \in Wire \ {w} : ident'[v] = ident[v]
      BY <1>2, <1>w, RowTyped
    <2>4. RecordsIdent
      BY <2>3 DEF RecordsIdent, Settled, Unspent, IdentDead
    <2>5. \A b \in Attempt : row'[b].state \in Terminal => OverRow(b) \/ row[b].wire = w
      BY <1>2, RowTyped, EndsOnly DEF OverRow, Exact
    <2>6. ASSUME NEW b \in Attempt, row[b].wire = w PROVE Ended(b)
      BY <2>1, <2>3, <2>6 DEF Ended, AtWork, IdentDead, Unspent
    <2>7. RecordsRows
      BY <1>2, <2>5, <2>6, RowTyped, Moving DEF RecordsRows
    <2>8. ASSUME NEW b \in Attempt, Routing(b)
          PROVE  /\ row'[b].state \notin Terminal /\ Exists(b) /\ ~row[b].renamed
                 /\ ident'[row[b].wire] = "PERSISTED"
                 /\ flight'.state = "EXECUTION_PENDING" => flight'.wire \in {NoWire, row[b].wire}
      <3>1. /\ Exists(b) /\ ~OverRow(b) /\ ~row[b].renamed /\ ident[row[b].wire] = "PERSISTED"
            /\ flight.state = "EXECUTION_PENDING" => flight.wire \in {NoWire, row[b].wire}
        BY <2>8, RoutingFacts DEF Routing
      <3>2. row[b].wire # w /\ row[b].wire \in Wire
        BY <2>2, <3>1, RowTyped DEF Unspent
      <3> QED  BY <1>2, <2>3, <2>5, <3>1, <3>2 DEF FlightKept
    <2>9. RecordsCalls
      BY <1>u, <2>8 DEF RecordsCalls, Routing
    <2> QED  BY <1>u, <1>p, <2>4, <2>7, <2>9 DEF Recording
  <1>3. FlightKept
    <2>1. [flight EXCEPT !.state = "SUBMITTED"].state = "SUBMITTED"
      BY RowTyped DEF FlightType
    <2>2. Released(w) \subseteq {flight, NoFlight}
      BY DEF Released
    <2>3. \/ flight' = flight
          \/ flight' = [flight EXCEPT !.state = "SUBMITTED"]
          \/ flight' \in Released(w)
      BY DEF ApplyAnswer
    <2>4. flight' \in {flight, NoFlight} \/ flight' = [flight EXCEPT !.state = "SUBMITTED"]
      BY <2>2, <2>3
    <2>5. NoFlight.state # "EXECUTION_PENDING"
      BY DEF NoFlight, Flight
    <2> HIDE DEF w, s
    <2>6. flight' = flight \/ flight'.state # "EXECUTION_PENDING"
      BY ONLY <2>1, <2>4, <2>5
    <2> QED  BY <2>6 DEF FlightKept
  <1> QED  BY <1>1, <1>2, <1>3 DEF ApplyAnswer, ProvesDead


-----------------------------------------------------------------------------
(* The steps that do more: the dispatch takes a row up, renames it, adds   *)
(* one; an order is sent and worked; a fill is noted.                      *)

\* A step that leaves the rows, the fills and the exchange alone.
LEMMA LookUpKeeps == ASSUME IInv, Typed', LookUp PROVE IInv'
  <1>u. /\ UNCHANGED <<row, ident, credit, flight, open, seen, memory, route, probe, order>>
        /\ disp.step = "emitted"
    BY DEF LookUp, durable
  <1>n. Cardinality(seen) \in Nat /\ disp \in Dispatch
    BY SeenCounts DEF IInv, Typed, TypeOK
  <1> DEFINE d == [disp EXCEPT !.qty = Size - Cardinality(seen)]
             a == CHOOSE a \in Exact(row, Base) : TRUE
  <1>d. d.qty = Size - Cardinality(seen) /\ d.qty > 0
    BY <1>n DEF LookUp, Dispatch
  <1>1. RowsInv' /\ RouteInv' /\ OrderInv' /\ FillInv'
    <2>1. RowsInv'
      BY <1>u DEF IInv, RowsInv, WireOnce, SaltsFollow, Exact, Exists
    <2>2. RouteInv'
      BY <1>u DEF IInv, RouteInv, RoutingOpen, SentInv, OpenRow, Routing, AtWork
    <2>3. OrderInv'
      BY <1>u DEF IInv, OrderInv, OrderHasRow, WorkHasOpenRow, OneAtWork, AnswersTrue,
                  NoRowSettled, OverSettled, Exact, Exists, OpenRow, OverRow, AllSeen,
                  AtWork, Settled
    <2>4. FillInv'
      BY <1>u DEF IInv, FillInv, LateFillsOnly, CreditOnWire, GotCounts, EnoughAsked, Lots,
                  Exists, Tombstone
    <2> QED  BY <2>1, <2>2, <2>3, <2>4
  <1>2. CASE Exact(row, Base) = {}
    <2>1. disp' = [d EXCEPT !.step = "creating", !.wire = Base]
      BY <1>2 DEF LookUp
    <2>2. disp'.step = "creating" /\ disp'.wire = Base /\ disp'.qty = d.qty
      BY <1>n, <2>1 DEF Dispatch
    <2>3. Base \notin Attempt
      BY ObligationConstants DEF Base, Attempt
    <2>4. Exact(row', Base) = {}
      BY <1>2, <1>u DEF Exact
    <2>5. Size <= Cardinality(seen) + disp'.qty
      BY <1>n, <1>d, <2>2, ObligationConstants
    <2>6. DispInv'
      BY <1>u, <2>2, <2>3, <2>4, <2>5
      DEF DispInv, SupersedingInv, CreatingInv, CreatedInv, AsksEnough
    <2> QED  BY <1>1, <2>6 DEF IInv
  <1>3. CASE Exact(row, Base) # {}
    <2>1. disp' = [d EXCEPT !.step = "superseding", !.attempt = a, !.found = row[a].state]
      BY <1>3 DEF LookUp
    <2>2. a \in Exact(row, Base)
      BY <1>3
    <2> HIDE DEF a
    <2>3. a \in Attempt /\ Exists(a) /\ row[a].wire = Base /\ ~row[a].renamed
      BY <2>2 DEF Exact, Exists
    <2>4. /\ disp'.step = "superseding" /\ disp'.attempt = a /\ disp'.found = row[a].state
          /\ disp'.qty = d.qty
      BY <1>n, <2>1 DEF Dispatch
    <2>5. ~AllSeen
      BY <1>n, <1>d, ObligationConstants DEF AllSeen
    <2>6. ASSUME row[a].state \in Terminal
          PROVE  Settled(Base) /\ ~Routing(a)
      <3>1. Settled(Base)
        BY <2>3, <2>5, <2>6 DEF IInv, OrderInv, OverSettled, OverRow
      <3>2. ~Routing(a)
        BY <2>3, <2>6, StatesApart DEF IInv, RouteInv, RoutingOpen, OpenRow
      <3> QED  BY <3>1, <3>2
    <2>7. SupersedingInv'
      BY <1>u, <2>3, <2>4, <2>6 DEF SupersedingInv, Settled, Routing
    <2>8. Size <= Cardinality(seen) + disp'.qty
      BY <1>n, <1>d, <2>4, ObligationConstants
    <2>9. DispInv'
      BY <1>u, <2>4, <2>7, <2>8 DEF DispInv, CreatingInv, CreatedInv, AsksEnough
    <2> QED  BY <1>1, <2>9 DEF IInv
  <1> QED  BY <1>2, <1>3

\* Renaming the attempt found terminal.  Its fills may have opened it since:
\* it keeps the id, its order keeps the row.
LEMMA RenameKeeps ==
    ASSUME IInv, Typed', NEW a \in Attempt,
           disp.step = "superseding", disp.attempt = a, disp.found \in Terminal,
           \A b \in Attempt :
              /\ row'[b].wire = row[b].wire /\ row'[b].qty = row[b].qty /\ row'[b].got = row[b].got
              /\ row'[b].renamed <=> row[b].renamed \/ b = a
              /\ row'[b].state = "none" <=> row[b].state = "none"
              /\ row'[b].state \in Terminal => OverRow(b),
           FlightKept, UNCHANGED <<ident, credit, seen, route, probe, order>>,
           \/ disp'.step = "idle"
           \/ disp'.step = "creating" /\ disp'.wire = a /\ disp'.qty = disp.qty
    PROVE  IInv'
  <1>1. /\ ~row[a].renamed /\ row[a].wire = Base /\ Settled(Base) /\ ~Routing(a)
        /\ Size <= Cardinality(seen) + disp.qty
    BY DEF IInv, DispInv, SupersedingInv, AsksEnough
  <1>r. \A b \in Attempt :
            /\ row'[b].wire = row[b].wire /\ row'[b].qty = row[b].qty /\ row'[b].got = row[b].got
            /\ row'[b].renamed <=> row[b].renamed \/ b = a
            /\ row'[b].state = "none" <=> row[b].state = "none"
            /\ row'[b].state \in Terminal => OverRow(b)
    OBVIOUS
  <1>u. UNCHANGED <<ident, credit, seen, route, probe, order>>
    OBVIOUS
  <1>t. \A b \in Attempt : row'[b].state \in {"none"} \cup Nonterminal \cup Terminal
    BY DEF Typed, TypeOK, Row
  <1>o. \A b \in Attempt : OpenRow(b) => row'[b].state \in Nonterminal
    BY <1>r, <1>t, StatesApart DEF OpenRow, OverRow
  <1>2. RowsInv'
    <2>1. WireOnce'
      BY <1>r DEF IInv, RowsInv, WireOnce, Exact, Exists
    <2>2. SaltsFollow'
      <3> SUFFICES ASSUME NEW b \in Attempt, row'[b].state # "none", row'[b].wire \in Attempt
                   PROVE  row'[row'[b].wire].renamed
        BY DEF SaltsFollow, Exists
      <3>1. row[row[b].wire].renamed /\ row[b].wire \in Attempt /\ row'[b].wire = row[b].wire
        BY <1>r DEF IInv, RowsInv, SaltsFollow, Exists
      <3> QED  BY <1>r, <3>1
    <2> QED  BY <2>1, <2>2 DEF RowsInv
  <1>3. DispInv'
    <2>1. ASSUME disp'.step = "creating", disp'.wire = a, disp'.qty = disp.qty PROVE DispInv'
      <3>1. \A b \in Attempt : ~(row[b].state # "none" /\ row[b].wire = a)
        BY <1>1 DEF IInv, RowsInv, SaltsFollow, Exists
      <3>2. Exact(row', a) = {}
        BY <1>r, <3>1 DEF Exact
      <3>3. CreatingInv'
        BY <1>r, <2>1, <3>2 DEF CreatingInv
      <3> QED  BY <1>1, <1>u, <2>1, <3>3 DEF DispInv, SupersedingInv, CreatedInv, AsksEnough
    <2>2. CASE disp'.step = "idle"
      BY <2>2 DEF DispInv, SupersedingInv, CreatingInv, CreatedInv, AsksEnough
    <2> QED  BY <2>1, <2>2
  <1>4. RouteInv'
    <2>1. RoutingOpen'
      <3> SUFFICES ASSUME NEW b \in Attempt, route[b] = "routing"
                   PROVE  /\ row'[b].state \in Nonterminal /\ ~row'[b].renamed
                          /\ ident[row'[b].wire] = "PERSISTED"
                          /\ flight'.state = "EXECUTION_PENDING" =>
                                flight'.wire \in {NoWire, row'[b].wire}
                          /\ \A c \in Attempt : route[c] = "routing" => c = b
                          /\ \A v \in Wire : ~AtWork(v)
        BY <1>u DEF RoutingOpen, OpenRow, Routing, AtWork
      <3>1. b # a
        BY <1>1 DEF Routing
      <3> QED  BY <1>r, <1>o, <3>1, RoutingFacts DEF FlightKept
    <2>2. SentInv'
      BY <1>r, <1>u DEF IInv, RouteInv, SentInv
    <2> QED  BY <2>1, <2>2 DEF RouteInv
  <1>5. OrderInv'
    <2>1. OrderHasRow'
      BY <1>r, <1>u DEF IInv, OrderInv, OrderHasRow, Exists
    <2>2. WorkHasOpenRow'
      <3> SUFFICES ASSUME NEW v \in Wire, AtWork(v)
                   PROVE  \E b \in Attempt : /\ row'[b].state \in Nonterminal
                                             /\ row'[b].wire = v /\ row'[b].qty = order[v].size
        BY <1>u DEF WorkHasOpenRow, AtWork, OpenRow
      <3>1. PICK b \in Attempt : OpenRow(b) /\ row[b].wire = v /\ row[b].qty = order[v].size
        BY DEF IInv, OrderInv, WorkHasOpenRow
      <3> QED  BY <1>r, <1>o, <3>1
    <2>3. OneAtWork' /\ AnswersTrue'
      BY <1>u DEF IInv, OrderInv, OneAtWork, AtWork, AnswersTrue
    <2>4. NoRowSettled'
      <3> SUFFICES ASSUME NEW v \in Wire, Exact(row', v) = {}, v # Base PROVE Settled(v)
        BY <1>1, <1>u DEF NoRowSettled, Settled
      <3>1. \A b \in Exact(row, v) : b \in Exact(row', v)
        BY <1>1, <1>r DEF Exact
      <3> QED  BY <3>1 DEF IInv, OrderInv, NoRowSettled
    <2>5. OverSettled'
      BY <1>r, <1>u DEF IInv, OrderInv, OverSettled, OverRow, Settled, AllSeen
    <2> QED  BY <2>1, <2>2, <2>3, <2>4, <2>5 DEF OrderInv
  <1>6. FillInv'
    <2>1. LateFillsOnly'
      <3>1. \A v : Tombstone(row, v) \subseteq Tombstone(row', v)
        BY <1>r DEF Tombstone
      <3> QED  BY <1>u, <3>1 DEF IInv, FillInv, LateFillsOnly
    <2>2. CreditOnWire'
      <3>1. \A f \in Fill : credit[f] # 0 => credit[f] \in Attempt
        BY ObligationConstants DEF IInv, Typed, TypeOK, Attempt
      <3> QED  BY <1>r, <1>u, <3>1 DEF IInv, FillInv, CreditOnWire, Exists
    <2>3. GotCounts'
      <3>1. \A b \in Attempt : Lots(b)' = Lots(b)
        BY <1>r, <1>u DEF Lots
      <3> QED  BY <1>r, <3>1 DEF IInv, FillInv, GotCounts
    <2>4. EnoughAsked'
      BY <1>r, <1>u DEF IInv, FillInv, EnoughAsked, Exists
    <2> QED  BY <2>1, <2>2, <2>3, <2>4 DEF FillInv
  <1> QED  BY <1>2, <1>3, <1>4, <1>5, <1>6 DEF IInv

LEMMA AdoptEndsNone ==
    ASSUME NEW r \in [Attempt -> Row], NEW w \in Wire, Adopt(r, w)
    PROVE  NoneEnds(r, row') /\ FlightKept
  <1>1. /\ NoneEnds(r, Move(r, w, "SUBMITTING"))
        /\ Move(r, w, "SUBMITTING") \in [Attempt -> Row]
        /\ Flight("EXECUTION_PENDING", w) \in FlightType
    BY MovesEndNone, Moving, FlightsTyped DEF Recorded
  <1> QED  BY <1>1, MarkEndsNone, NoneEndsTwice DEF Adopt, FlightKept

LEMMA SupersedeKeeps == ASSUME IInv, Typed', Supersede PROVE IInv'
  <1> DEFINE a == disp.attempt
             w == row[a].wire
             r == Renamed(row, a)
  <1>1. disp.step = "superseding" /\ a \in Attempt /\ w \in Wire
    BY RowTyped DEF Supersede, IInv, Typed, Shape, DispShape
  <1>u. UNCHANGED <<ident, credit, open, seen, memory, route, probe, order, restarts>>
    BY DEF Supersede
  <1>2. /\ r \in [Attempt -> Row]
        /\ r[a].renamed
        /\ \A b \in Attempt : /\ r[b].state = row[b].state /\ r[b].wire = row[b].wire
                              /\ r[b].qty = row[b].qty /\ r[b].got = row[b].got
                              /\ b # a => r[b] = row[b]
    BY <1>1, RowTyped, RenamedEffect
  <1>c. \/ /\ disp.found \in Terminal /\ CanSupersede(row[a].state)
           /\ row' = [r EXCEPT ![a].state = "SUPERSEDED"]
           /\ disp' = [disp EXCEPT !.step = "creating", !.wire = a, !.attempt = 0]
           /\ UNCHANGED flight
        \/ disp.found \in Terminal /\ Adopt(r, w)
        \/ Adopt(row, w)
    BY DEF Supersede
  <1>r. \A b \in Attempt : row[b].renamed \in BOOLEAN
    BY RowTyped DEF Row
  <1> HIDE DEF r, w
  <1>3. CASE Adopt(row, w)
    BY <1>1, <1>3, <1>u, AdoptRecords, RecordingKeeps
  <1>4. CASE disp.found \in Terminal /\ Adopt(r, w)
    <2>1. Recorded(r, row') /\ disp'.step = "idle" /\ NoneEnds(r, row') /\ FlightKept
      BY <1>1, <1>2, <1>4, AdoptEffect, AdoptEndsNone, AtRestTyped
    <2>2. ASSUME NEW b \in Attempt
          PROVE  /\ row'[b].wire = row[b].wire /\ row'[b].qty = row[b].qty /\ row'[b].got = row[b].got
                 /\ row'[b].renamed <=> row[b].renamed \/ b = a
                 /\ row'[b].state = "none" <=> row[b].state = "none"
                 /\ row'[b].state \in Terminal => OverRow(b)
      <3>1. Kept(r[b], row'[b]) /\ (row'[b].state \in Terminal => r[b].state \in Terminal)
            /\ (row'[b].state = "none" <=> r[b].state = "none")
        BY <2>1 DEF Recorded, NoneEnds, Kept
      <3> QED  BY <1>2, <1>r, <3>1 DEF Kept, OverRow
    <2> QED  BY <1>1, <1>4, <1>u, <2>1, <2>2, RenameKeeps
  <1>5. CASE /\ disp.found \in Terminal /\ CanSupersede(row[a].state)
             /\ row' = [r EXCEPT ![a].state = "SUPERSEDED"]
             /\ disp' = [disp EXCEPT !.step = "creating", !.wire = a, !.attempt = 0]
             /\ UNCHANGED flight
    <2>1. \A b \in Attempt \ {a} : row'[b] = row[b]
      BY <1>2, <1>5
    <2>2. row'[a] = [r[a] EXCEPT !.state = "SUPERSEDED"] /\ r[a] \in Row
      BY <1>1, <1>2, <1>5
    <2>3. /\ row'[a].state = "SUPERSEDED" /\ row'[a].renamed /\ row'[a].wire = row[a].wire
          /\ row'[a].qty = row[a].qty /\ row'[a].got = row[a].got
      BY <1>1, <1>2, <2>2 DEF Row
    <2>4. OverRow(a)
      <3>1. row[a].state \in {"none"} \cup Nonterminal \cup Terminal
        BY <1>1, RowTyped DEF Row
      <3> QED  BY <1>5, <3>1, EdgeFacts, StatesApart DEF CanSupersede, OverRow
    <2>5. disp'.step = "creating" /\ disp'.wire = a /\ disp'.qty = disp.qty
      BY <1>5 DEF IInv, Typed, TypeOK, Dispatch
    <2>6. \A b \in Attempt :
                 /\ row'[b].wire = row[b].wire /\ row'[b].qty = row[b].qty /\ row'[b].got = row[b].got
                 /\ row'[b].renamed <=> row[b].renamed \/ b = a
                 /\ row'[b].state = "none" <=> row[b].state = "none"
                 /\ row'[b].state \in Terminal => OverRow(b)
      BY <1>r, <2>1, <2>3, <2>4, StatesApart DEF OverRow
    <2>7. FlightKept
      BY <1>5 DEF FlightKept
    <2> QED  BY <1>1, <1>5, <1>u, <2>5, <2>6, <2>7, RenameKeeps
  <1> QED  BY <1>c, <1>3, <1>4, <1>5

\* A row added while none is open, under an id no row has.
LEMMA InsertionKeeps ==
    ASSUME IInv, NEW a \in Fresh, NEW w \in Wire, NEW q \in 0..Size,
           row' = Inserted(row, a, w, q),
           Active(row) = {}, Exact(row, w) = {},
           w \in Attempt => row[w].renamed,
           w = Legacy \/ Size <= Cardinality(seen) + q,
           UNCHANGED <<ident, order, seen, credit>>,
           \A b \in Attempt : /\ route'[b] = "sent" => route[b] = "sent"
                              /\ route'[b] = "routing" => route[b] = "routing",
           \A l \in Lookups : probe'[l].answer = "empty" => order[probe'[l].wire].state = "dead"
    PROVE  /\ RowsInv' /\ RouteInv' /\ OrderInv' /\ FillInv'
           /\ \A b \in Attempt : ~Routing(b)
           /\ \A v \in Wire : ~AtWork(v)
  <1>1. a \in Attempt /\ row[a].state = "none" /\ ~row[a].renamed /\ route[a] = "idle"
    BY DEF Fresh, Exists, IInv, Typed, Shape, RowShape, RouteShape
  <1>2. /\ row'[a] = [state |-> "INTENT_PERSISTED", wire |-> w, renamed |-> FALSE,
                      qty |-> q, got |-> 0]
        /\ \A b \in Attempt \ {a} : row'[b] = row[b]
    BY <1>1, RowTyped, InsertedEffect
  <1>3. /\ row'[a].state = "INTENT_PERSISTED" /\ row'[a].wire = w /\ ~row'[a].renamed
        /\ row'[a].qty = q /\ row'[a].got = 0
    BY <1>2
  <1>4. /\ \A b \in Attempt : ~OpenRow(b) /\ route[b] # "routing"
        /\ \A v \in Wire : ~AtWork(v)
    BY DEF Active, OpenRow, Routing, IInv, RouteInv, RoutingOpen, OrderInv, WorkHasOpenRow
  <1>5. \A f \in Fill : credit[f] # a /\ (credit[f] # 0 => credit[f] \in Attempt)
    BY <1>1, ObligationConstants DEF IInv, Typed, TypeOK, FillInv, CreditOnWire, Exists, Attempt
  <1>s. UNCHANGED <<ident, order, seen, credit>>
    OBVIOUS
  <1>6. RowsInv'
    <2>1. WireOnce'
      BY <1>2, <1>3 DEF IInv, RowsInv, WireOnce, Exact, Exists
    <2>2. SaltsFollow'
      <3> SUFFICES ASSUME NEW b \in Attempt, row'[b].state # "none", row'[b].wire \in Attempt
                   PROVE  row'[row'[b].wire].renamed
        BY DEF SaltsFollow, Exists
      <3>1. CASE b = a
        BY <3>1, <1>1, <1>2, <1>3
      <3>2. CASE b # a
        <4>1. row'[b] = row[b] /\ row[row[b].wire].renamed
          BY <3>2, <1>2 DEF IInv, RowsInv, SaltsFollow, Exists
        <4> QED  BY <4>1, <1>1, <1>2
      <3> QED  BY <3>1, <3>2
    <2> QED  BY <2>1, <2>2 DEF RowsInv
  <1>7. RouteInv'
    <2>1. RoutingOpen'
      BY <1>4 DEF RoutingOpen, Routing
    <2>2. SentInv'
      <3> SUFFICES ASSUME NEW b \in Attempt, route'[b] = "sent"
                   PROVE  order[row'[b].wire].state # "none"
        BY <1>s DEF SentInv
      <3>1. route[b] = "sent" /\ b # a /\ row'[b] = row[b]
        BY <1>1, <1>2
      <3> QED  BY <3>1 DEF IInv, RouteInv, SentInv
    <2> QED  BY <2>1, <2>2 DEF RouteInv
  <1>8. OrderInv'
    <2>1. OrderHasRow'
      <3> SUFFICES ASSUME NEW v \in Wire, order[v].state # "none"
                   PROVE  \E b \in Attempt : row'[b].state # "none" /\ row'[b].wire = v
        BY <1>s DEF OrderHasRow, Exists
      <3>1. PICK b \in Attempt : row[b].state # "none" /\ row[b].wire = v
        BY DEF IInv, OrderInv, OrderHasRow, Exists
      <3>2. row'[b] = row[b]
        BY <3>1, <1>1, <1>2
      <3> QED  BY <3>1, <3>2
    <2>2. WorkHasOpenRow' /\ OneAtWork' /\ AnswersTrue'
      BY <1>4, <1>s DEF WorkHasOpenRow, OneAtWork, AtWork, AnswersTrue
    <2>3. NoRowSettled'
      <3> SUFFICES ASSUME NEW v \in Wire, Exact(row', v) = {} PROVE Settled(v)
        BY <1>s DEF NoRowSettled, Settled
      <3>1. \A b \in Exact(row, v) : b \in Exact(row', v)
        BY <1>1, <1>2 DEF Exact
      <3> QED  BY <3>1 DEF IInv, OrderInv, NoRowSettled
    <2>4. OverSettled'
      BY <1>s, <1>2, <1>3, StatesApart DEF IInv, OrderInv, OverSettled, OverRow, Settled, AllSeen
    <2> QED  BY <2>1, <2>2, <2>3, <2>4 DEF OrderInv
  <1>9. FillInv'
    <2>1. LateFillsOnly'
      <3>1. \A v : Tombstone(row', v) = Tombstone(row, v)
        BY <1>1, <1>2, <1>3 DEF Tombstone
      <3> QED  BY <1>s, <3>1 DEF IInv, FillInv, LateFillsOnly
    <2>2. CreditOnWire'
      BY <1>s, <1>2, <1>5 DEF IInv, FillInv, CreditOnWire, Exists
    <2>3. GotCounts'
      <3>1. ASSUME NEW b \in Attempt \ {a} PROVE row'[b].got = Cardinality(Lots(b)')
        <4>1. Lots(b)' = Lots(b) /\ row'[b].got = row[b].got
          BY <1>s, <1>2 DEF Lots
        <4> QED  BY <4>1 DEF IInv, FillInv, GotCounts
      <3>2. row'[a].got = Cardinality(Lots(a)')
        <4>1. \A n \in 1..Size : <<w, n>> \in Fill
          BY DEF Fill
        <4>2. Lots(a)' = {}
          BY <1>s, <1>3, <1>5, <4>1 DEF Lots
        <4> QED  BY <1>3, <4>2, FS_EmptySet
      <3> QED  BY <3>1, <3>2 DEF GotCounts
    <2>4. EnoughAsked'
      <3>1. Cardinality(seen) \in Nat
        BY SeenCounts DEF IInv, Typed, TypeOK
      <3>2. w # Legacy => Size + 0 <= Cardinality(seen) + q
        BY <3>1, ObligationConstants
      <3> QED  BY <1>s, <1>2, <1>3, <3>2 DEF IInv, FillInv, EnoughAsked, Exists
    <2> QED  BY <2>1, <2>2, <2>3, <2>4 DEF FillInv
  <1> QED  BY <1>4, <1>6, <1>7, <1>8, <1>9 DEF Routing

LEMMA CreateKeeps == ASSUME IInv, Typed', CreateAttempt PROVE IInv'
  <1>u. /\ UNCHANGED <<ident, credit, open, seen, memory, route, probe, order, restarts>>
        /\ disp.step = "creating"
    BY DEF CreateAttempt
  <1>1. CASE Active(row) # {}
    <2>1. PICK a \in Active(row) : Adopt(row, row[a].wire)
      BY <1>1 DEF CreateAttempt
    <2>2. row[a].wire \in Wire
      BY RowTyped DEF Active
    <2> QED  BY <1>u, <2>1, <2>2, AdoptRecords, RecordingKeeps
  <1>2. CASE Active(row) = {}
    <2> DEFINE a == Min(Fresh)
               w == disp.wire
               q == disp.qty
    <2>1. /\ a \in Fresh
          /\ row' = Inserted(row, a, w, q)
          /\ disp' = [disp EXCEPT !.step = "created", !.attempt = a]
      BY <1>2, FreshMin DEF CreateAttempt
    <2> HIDE DEF a
    <2>2. w \in Wire /\ q \in 0..Size /\ disp \in Dispatch
      BY <1>u DEF IInv, Typed, TypeOK, Shape, DispShape, Dispatch
    <2>3. Exact(row, w) = {} /\ (w \in Attempt => row[w].renamed) /\ Size <= Cardinality(seen) + q
      BY <1>u DEF IInv, DispInv, CreatingInv, AsksEnough
    <2>4. /\ RowsInv' /\ RouteInv' /\ OrderInv' /\ FillInv'
          /\ \A b \in Attempt : ~Routing(b)
          /\ \A v \in Wire : ~AtWork(v)
      BY <1>2, <1>u, <2>1, <2>2, <2>3, SameAnswers, InsertionKeeps
    <2>5. disp'.step = "created" /\ disp'.attempt = a /\ disp'.qty = q
      BY <2>1, <2>2 DEF Dispatch
    <2>6. a \in Attempt
      BY <2>1 DEF Fresh
    <2>7. row'[a].state \in Nonterminal /\ row'[a].wire = w
      <3>1. row'[a] = [state |-> "INTENT_PERSISTED", wire |-> w, renamed |-> FALSE,
                       qty |-> q, got |-> 0]
        BY <2>1, <2>2, <2>6, RowTyped, InsertedEffect
      <3> QED  BY <3>1, StatesApart
    <2>8. Settled(w)
      BY <2>2, <2>3 DEF IInv, OrderInv, NoRowSettled
    <2>9. CreatedInv'
      BY <1>u, <2>4, <2>5, <2>7, <2>8 DEF CreatedInv, Settled, OpenRow, Routing, AtWork
    <2>10. DispInv'
      BY <1>u, <2>3, <2>5, <2>9 DEF DispInv, SupersedingInv, CreatingInv, AsksEnough
    <2> QED  BY <2>4, <2>10 DEF IInv
  <1> QED  BY <1>1, <1>2

LEMMA RestartKeeps == ASSUME IInv, Typed', Restart PROVE IInv'
  <1>1. CASE row' = row
    BY <1>1, RestartRecords, RecordingKeeps
  <1>2. ASSUME NEW a \in Fresh, row' = Inserted(row, a, Legacy, 0),
               Active(row) = {}, Exact(row, Legacy) = {}
        PROVE  IInv'
    <2>1. /\ UNCHANGED <<ident, order, seen, credit>>
          /\ \A b \in Attempt : route'[b] # "sent" /\ route'[b] # "routing"
          /\ \A l \in Lookups : probe'[l].answer # "empty"
          /\ disp' = AtRest
      BY DEF Restart, NoProbe
    <2>2. Legacy \in Wire /\ Legacy \notin Attempt /\ 0 \in 0..Size
      BY ObligationConstants DEF Legacy, Wire, Attempt
    <2>3. RowsInv' /\ RouteInv' /\ OrderInv' /\ FillInv'
      BY <1>2, <2>1, <2>2, InsertionKeeps
    <2>4. DispInv'
      BY <2>1, AtRestTyped DEF DispInv, SupersedingInv, CreatingInv, CreatedInv, AsksEnough
    <2> QED  BY <2>3, <2>4 DEF IInv
  <1>3. Rehydrate /\ Typed
    BY DEF Restart, IInv
  <1> QED  BY <1>1, <1>2, <1>3, RehydrateEffect

\* The exchange works an order: none comes to be, and while one is at work no
\* other is on its way.
LEMMA ExchangeKeeps ==
    ASSUME IInv, Typed', NEW w \in Wire, NEW o, Exchange(w, o), AtWork(w),
           o.size = order[w].size, o.filled >= order[w].filled, o.state # "none"
    PROVE  IInv'
  <1>u. /\ UNCHANGED <<row, ident, credit, seen, flight, memory, route, disp, probe>>
        /\ order' = [order EXCEPT ![w] = o]
    BY DEF Exchange, durable, process
  <1>1. /\ order \in [Wire -> Order] /\ order' \in [Wire -> Order]
        /\ order'[w] = o /\ \A v \in Wire \ {w} : order'[v] = order[v]
    BY <1>u DEF IInv, Typed, TypeOK
  <1>2. \A v \in Wire : /\ order'[v].size = order[v].size
                        /\ order'[v].filled >= order[v].filled
                        /\ order'[v].state = "none" <=> order[v].state = "none"
    BY <1>1 DEF Order, AtWork
  <1>3. \A v \in Wire : /\ order'[v].state \in {"sent", "resting"} => AtWork(v)
                        /\ order[v].state = "dead" => order'[v].state = "dead"
    BY <1>1 DEF AtWork
  <1>4. \A a \in Attempt : row[a].wire \in Wire /\ ~Routing(a)
    BY RowTyped, RoutingFacts DEF Routing
  <1>5. RowsInv'
    BY <1>u DEF IInv, RowsInv, WireOnce, SaltsFollow, Exact, Exists
  <1>6. DispInv'
    <2>1. disp.step # "created"
      BY DEF IInv, DispInv, CreatedInv
    <2> QED  BY <1>u, <2>1 DEF IInv, DispInv, SupersedingInv, CreatingInv, CreatedInv, AsksEnough,
                               Exact, Settled, Routing
  <1>7. RouteInv'
    BY <1>u, <1>2, <1>4 DEF IInv, RouteInv, RoutingOpen, SentInv, Routing
  <1>8. OrderInv'
    <2>1. OrderHasRow'
      BY <1>u, <1>2 DEF IInv, OrderInv, OrderHasRow, Exists
    <2>2. WorkHasOpenRow'
      BY <1>u, <1>2, <1>3 DEF IInv, OrderInv, WorkHasOpenRow, AtWork, OpenRow
    <2>3. OneAtWork'
      BY <1>3 DEF IInv, OrderInv, OneAtWork, AtWork
    <2>4. AnswersTrue'
      <3>1. \A l \in Lookups : probe[l].answer = "empty" => probe[l].wire \in Wire
        BY DEF IInv, Typed, Shape, ProbeShape
      <3> QED  BY <1>u, <1>3, <3>1 DEF IInv, OrderInv, AnswersTrue
    <2>5. NoRowSettled' /\ OverSettled'
      BY <1>u DEF IInv, OrderInv, NoRowSettled, OverSettled, Exact, OverRow, Settled, AllSeen
    <2> QED  BY <2>1, <2>2, <2>3, <2>4, <2>5 DEF OrderInv
  <1>9. FillInv'
    <2>1. LateFillsOnly' /\ EnoughAsked'
      BY <1>u DEF IInv, FillInv, LateFillsOnly, EnoughAsked, Exists, Tombstone
    <2>2. CreditOnWire'
      <3> SUFFICES ASSUME NEW f \in Fill, credit[f] # 0
                   PROVE  Exists(credit[f]) /\ row[credit[f]].wire = f[1]
                             /\ f[2] <= order'[f[1]].filled
        BY <1>u DEF CreditOnWire, Exists
      <3>1. Exists(credit[f]) /\ row[credit[f]].wire = f[1] /\ f[2] <= order[f[1]].filled
        BY DEF IInv, FillInv, CreditOnWire
      <3>2. f[1] \in Wire /\ f[2] \in Nat
        BY ObligationConstants DEF Fill
      <3>3. order[f[1]].filled \in Nat /\ order'[f[1]].filled \in Nat
        BY <1>1, <3>2, ObligationConstants DEF Order
      <3> QED  BY <1>2, <3>1, <3>2, <3>3
    <2>3. GotCounts'
      <3>1. \A a \in Attempt : Lots(a)' = Lots(a)
        BY <1>u DEF Lots
      <3> QED  BY <1>u, <3>1 DEF IInv, FillInv, GotCounts
    <2> QED  BY <2>1, <2>2, <2>3 DEF FillInv
  <1> QED  BY <1>5, <1>6, <1>7, <1>8, <1>9 DEF IInv

LEMMA TradesKeep ==
    ASSUME IInv, Typed', NEW w \in Wire, Accept(w) \/ Decline(w) \/ Trade(w) \/ Cancel(w)
    PROVE  IInv'
  <1>1. order[w] \in Order /\ order[w].filled \in Nat
    BY ObligationConstants DEF IInv, Typed, TypeOK, Order
  <1> DEFINE r == [order[w] EXCEPT !.state = "resting"]
             j == [order[w] EXCEPT !.state = "rejected"]
             d == [order[w] EXCEPT !.state = "dead"]
             t == [order[w] EXCEPT !.filled = @ + 1,
                      !.state = IF order[w].filled + 1 = order[w].size THEN "dead" ELSE @]
  <1>2. AtWork(w)
    BY DEF Accept, Decline, Trade, Cancel, AtWork
  <1>3. \/ Exchange(w, r)
        \/ Exchange(w, j)
        \/ Exchange(w, d)
        \/ Exchange(w, t)
    BY DEF Accept, Decline, Trade, Cancel
  <1>4. /\ r.size = order[w].size /\ r.filled = order[w].filled /\ r.state # "none"
        /\ j.size = order[w].size /\ j.filled = order[w].filled /\ j.state # "none"
        /\ d.size = order[w].size /\ d.filled = order[w].filled /\ d.state # "none"
    BY <1>1 DEF Order
  <1>5. t.size = order[w].size /\ t.filled = order[w].filled + 1 /\ t.state # "none"
    BY <1>1, <1>2 DEF Order, AtWork
  <1> HIDE DEF r, j, d, t
  <1>6. r.filled >= order[w].filled /\ j.filled >= order[w].filled
        /\ d.filled >= order[w].filled /\ t.filled >= order[w].filled
    BY <1>1, <1>4, <1>5
  <1> QED  BY <1>2, <1>3, <1>4, <1>5, <1>6, ExchangeKeeps

\* The order sent is its open row's; nothing of it was known before, and no
\* other is at work.
LEMMA ClaimKeeps == ASSUME IInv, Typed', NEW a \in Attempt, Claim(a) PROVE IInv'
  <1> DEFINE w == row[a].wire
  <1>1. /\ OpenRow(a) /\ Exists(a) /\ ~row[a].renamed /\ Routing(a)
        /\ ident[w] = "PERSISTED"
        /\ order[w].state = "none" /\ order[w].filled = 0
        /\ \A v \in Wire : ~AtWork(v)
        /\ \A b \in Attempt : route[b] = "routing" => b = a
        /\ disp.step # "created"
    BY RoutingFacts DEF Claim, Routing
  <1>2. w \in Wire /\ \A b \in Attempt : row[b].wire \in Wire
    BY RowTyped
  <1>u. /\ ident' = [ident EXCEPT ![w] = "SUBMITTING"]
        /\ order' = [order EXCEPT ![w].state = "sent", ![w].size = row[a].qty]
        /\ route' = [route EXCEPT ![a] = "sent"]
        /\ UNCHANGED <<row, credit, seen, memory, disp, probe>>
    BY <1>1 DEF Claim
  <1>w. row[a].wire = w
    OBVIOUS
  <1> HIDE DEF w
  <1>3. /\ ident'[w] = "SUBMITTING" /\ \A v \in Wire \ {w} : ident'[v] = ident[v]
        /\ route'[a] = "sent" /\ \A b \in Attempt \ {a} : route'[b] = route[b]
    BY <1>u, <1>2, RowTyped
  <1>4. /\ order'[w].state = "sent" /\ order'[w].size = row[a].qty /\ order'[w].filled = 0
        /\ \A v \in Wire \ {w} : order'[v] = order[v]
    BY <1>u, <1>1, <1>2 DEF IInv, Typed, TypeOK, Order
  <1>5. \A b \in Attempt : b # a /\ Exists(b) /\ ~row[b].renamed => row[b].wire # w
    BY <1>1, <1>w, RoutingOwnsId
  <1>6. \A b \in Attempt : route'[b] # "routing"
    BY <1>1, <1>3
  <1>7. \A v \in Wire : ident[v] \in IdentDead => ident'[v] \in IdentDead
    BY <1>1, <1>3 DEF IdentDead
  <1>8. RowsInv'
    BY <1>u DEF IInv, RowsInv, WireOnce, SaltsFollow, Exact, Exists
  <1>9. DispInv'
    <2>1. SupersedingInv'
      <3> DEFINE b == disp.attempt
      <3> SUFFICES ASSUME disp.step = "superseding"
                   PROVE  /\ ~row[b].renamed /\ row[b].wire = Base
                          /\ disp.found \in Terminal => ident'[Base] \in Unspent \cup IdentDead
        BY <1>u, <1>6 DEF SupersedingInv, Settled, Routing, IInv, Typed, Shape, DispShape
      <3>1. b \in Attempt /\ Exists(b)
        BY DEF IInv, Typed, Shape, DispShape
      <3>2. /\ ~row[b].renamed /\ row[b].wire = Base
            /\ disp.found \in Terminal => Settled(Base) /\ ~Routing(b)
        BY DEF IInv, DispInv, SupersedingInv
      <3> HIDE DEF b
      <3>3. disp.found \in Terminal => Base # w /\ Base \in Wire
        BY <1>1, <1>2, <1>5, <3>1, <3>2
      <3> QED  BY <1>3, <3>2, <3>3 DEF Settled
    <2>2. CreatingInv' /\ AsksEnough'
      BY <1>u DEF IInv, DispInv, CreatingInv, AsksEnough, Exact
    <2>3. CreatedInv'
      BY <1>1, <1>u DEF CreatedInv
    <2> QED  BY <2>1, <2>2, <2>3 DEF DispInv
  <1>10. RouteInv'
    <2>1. RoutingOpen'
      BY <1>6 DEF RoutingOpen, Routing
    <2>2. SentInv'
      <3> SUFFICES ASSUME NEW b \in Attempt, route'[b] = "sent"
                   PROVE  order'[row[b].wire].state # "none"
        BY <1>u DEF SentInv
      <3>1. CASE row[b].wire = w
        BY <3>1, <1>4
      <3>2. CASE row[b].wire # w
        BY <3>2, <1>2, <1>3, <1>4, <1>w DEF IInv, RouteInv, SentInv
      <3> QED  BY <3>1, <3>2
    <2> QED  BY <2>1, <2>2 DEF RouteInv
  <1>11. OrderInv'
    <2>1. OrderHasRow'
      BY <1>u, <1>1, <1>4, <1>w DEF IInv, OrderInv, OrderHasRow, Exists
    <2>2. \A v \in Wire : order'[v].state \in {"sent", "resting"} => v = w
      BY <1>1, <1>4 DEF AtWork
    <2>3. WorkHasOpenRow' /\ OneAtWork'
      BY <1>u, <1>1, <1>4, <1>w, <2>2 DEF WorkHasOpenRow, OneAtWork, AtWork, OpenRow
    <2>4. AnswersTrue'
      <3>1. \A l \in Lookups : probe[l].answer = "empty" => probe[l].wire \in Wire
        BY DEF IInv, Typed, Shape, ProbeShape
      <3> QED  BY <1>u, <1>1, <1>4, <3>1 DEF IInv, OrderInv, AnswersTrue
    <2>5. NoRowSettled'
      <3> SUFFICES ASSUME NEW v \in Wire, Exact(row, v) = {}
                   PROVE  ident'[v] \in Unspent \cup IdentDead
        BY <1>u DEF NoRowSettled, Settled, Exact
      <3>1. a \in Exact(row, w)
        BY <1>1, <1>w DEF Exact, Exists
      <3> QED  BY <1>3, <3>1 DEF IInv, OrderInv, NoRowSettled, Settled
    <2>6. OverSettled'
      <3> SUFFICES ASSUME NEW b \in Attempt, OverRow(b), ~row[b].renamed
                   PROVE  ident'[row[b].wire] \in Unspent \cup IdentDead \/ AllSeen
        BY <1>u DEF OverSettled, Settled, OverRow, AllSeen
      <3>1. b # a /\ Exists(b)
        BY <1>1, StatesApart DEF OverRow, OpenRow, Exists
      <3>2. row[b].wire # w /\ row[b].wire \in Wire
        BY <1>2, <1>5, <3>1
      <3> QED  BY <1>3, <3>2 DEF IInv, OrderInv, OverSettled, Settled
    <2> QED  BY <2>1, <2>3, <2>4, <2>5, <2>6 DEF OrderInv
  <1>12. FillInv'
    <2>0. \A f \in Fill : f[1] \in Wire
      BY DEF Fill
    <2>1. LateFillsOnly'
      <3>1. seen \in SUBSET Fill
        BY DEF IInv, Typed, TypeOK
      <3> QED  BY <1>u, <1>7, <2>0, <3>1 DEF IInv, FillInv, LateFillsOnly, Tombstone
    <2>2. EnoughAsked'
      BY <1>u, <1>2, <1>7 DEF IInv, FillInv, EnoughAsked, Exists
    <2>3. CreditOnWire'
      <3>1. \A v \in Wire : order'[v].filled = order[v].filled
        BY <1>1, <1>4
      <3> QED  BY <1>u, <2>0, <3>1 DEF IInv, FillInv, CreditOnWire, Exists
    <2>4. GotCounts'
      <3>1. \A b \in Attempt : Lots(b)' = Lots(b)
        BY <1>u DEF Lots
      <3> QED  BY <1>u, <3>1 DEF IInv, FillInv, GotCounts
    <2> QED  BY <2>1, <2>2, <2>3, <2>4 DEF FillInv
  <1> QED  BY <1>8, <1>9, <1>10, <1>11, <1>12 DEF IInv

-----------------------------------------------------------------------------
(* A fill.                                                                 *)

LEMMA FillFacts ==
    ASSUME IInv, NEW f \in Fill, f[2] <= order[f[1]].filled
    PROVE  /\ f[1] \in Wire /\ f[2] \in 1..Size /\ f = <<f[1], f[2]>>
           /\ f[1] # Legacy
           /\ order[f[1]].filled \in Nat /\ order[f[1]].filled > 0
           /\ order[f[1]].state # "none"
           /\ ident[f[1]] \notin Unspent
  <1>1. f[1] \in Wire /\ f[2] \in 1..Size /\ f = <<f[1], f[2]>>
    BY DEF Fill
  <1>2. order[f[1]].filled \in Nat /\ order[f[1]].filled > 0
    BY <1>1, ObligationConstants DEF IInv, Typed, TypeOK, Order
  <1>3. order[f[1]].state # "none"
    BY <1>1, <1>2 DEF IInv, Typed, Shape, OrderShape
  <1>4. f[1] # Legacy /\ ident[f[1]] \notin Unspent
    BY <1>1, <1>3 DEF IInv, Typed, Shape, OrderShape, Unspent
  <1> QED  BY <1>1, <1>2, <1>3, <1>4

\* What has been seen only grows, by one for a fill not seen before.
LEMMA SeenGrows ==
    ASSUME IInv, NEW f \in Fill, seen' = seen \cup {f}
    PROVE  /\ Cardinality(seen) \in Nat /\ Cardinality(seen') \in Nat
           /\ Cardinality(seen') >= Cardinality(seen)
           /\ f \notin seen => Cardinality(seen') = Cardinality(seen) + 1
           /\ AllSeen => AllSeen'
  <1>1. seen \in SUBSET Fill
    BY DEF IInv, Typed, TypeOK
  <1>2. IsFiniteSet(seen) /\ Cardinality(seen) \in Nat
    BY <1>1, SeenCounts
  <1>3. Cardinality(seen') = IF f \in seen THEN Cardinality(seen) ELSE Cardinality(seen) + 1
    BY <1>2, FS_AddElement
  <1> QED  BY <1>2, <1>3, ObligationConstants DEF AllSeen

LEMMA LotsFinite ==
    ASSUME NEW a \in Attempt
    PROVE  IsFiniteSet(Lots(a)) /\ Cardinality(Lots(a)) \in Nat
  <1>1. IsFiniteSet(1..Size) /\ Lots(a) \subseteq 1..Size
    BY ObligationConstants, FS_Interval DEF Lots
  <1> QED  BY <1>1, FS_Subset, FS_CardinalityType

\* An attempt that takes an uncounted fill has not counted all its order's.
LEMMA CountsBelow ==
    ASSUME IInv, NEW f \in Fill, f[2] <= order[f[1]].filled, credit[f] = 0,
           NEW a \in Attempt, row[a].wire = f[1]
    PROVE  row[a].got + 1 <= order[f[1]].filled
  <1> DEFINE w == f[1]
             n == f[2]
             k == order[w].filled
             S == Lots(a) \cup {n}
  <1>1. w \in Wire /\ n \in 1..Size /\ f = <<w, n>> /\ k \in Nat
    BY FillFacts
  <1>2. n \notin Lots(a)
    BY <1>1, ObligationConstants DEF Lots, Attempt
  <1>3. \A m \in Lots(a) : m \in 1..k
    <2> SUFFICES ASSUME NEW m \in Lots(a) PROVE m \in 1..k
      OBVIOUS
    <2>1. m \in 1..Size /\ credit[<<w, m>>] = a
      BY DEF Lots
    <2>2. <<w, m>> \in Fill /\ credit[<<w, m>>] # 0
      BY <1>1, <2>1, ObligationConstants DEF Fill, Attempt
    <2>3. m <= k
      BY <2>2 DEF IInv, FillInv, CreditOnWire
    <2> QED  BY <1>1, <2>1, <2>3, ObligationConstants
  <1>4. n \in 1..k
    BY <1>1, ObligationConstants
  <1> HIDE DEF n, k
  <1>5. S \subseteq 1..k
    BY <1>3, <1>4
  <1>6. Cardinality(S) = Cardinality(Lots(a)) + 1
    BY <1>2, LotsFinite, FS_AddElement
  <1>7. IsFiniteSet(1..k) /\ Cardinality(1..k) = k
    <2>1. 1 \in Int /\ k \in Int
      BY <1>1
    <2>2. Cardinality(1..k) = IF 1 > k THEN 0 ELSE k - 1 + 1
      BY <2>1, FS_Interval
    <2>3. Cardinality(1..k) = k
      BY <1>1, <2>2
    <2> QED  BY <2>1, <2>3, FS_Interval
  <1>8. Cardinality(S) <= k
    <2>1. Cardinality(S) <= Cardinality(1..k)
      BY <1>5, <1>7, FS_Subset
    <2> QED  BY <1>7, <2>1
  <1>9. row[a].got = Cardinality(Lots(a))
    BY DEF IInv, FillInv, GotCounts
  <1> QED  BY <1>6, <1>8, <1>9 DEF k

\* A fill is credited to a row, unless it is on one already or its order was
\* ruled dead and its attempt renamed while the resolver still held it open.
LEMMA FillFindsRow ==
    ASSUME IInv, NEW f \in Fill, NoteFill(f)
    PROVE  /\ seen' = seen \cup {f}
           /\ UNCHANGED <<ident, flight, route, disp, probe, order>>
           /\ \/ credit[f] # 0 /\ UNCHANGED <<row, credit>>
              \/ /\ ident[f[1]] \in IdentDead /\ Tombstone(row, f[1]) # {}
                 /\ UNCHANGED <<row, credit>>
              \/ \E a \in Attempt : /\ Exists(a) /\ row[a].wire = f[1] /\ credit[f] = 0
                                    /\ row' = [row EXCEPT ![a] = Filled(row[a])]
                                    /\ credit' = [credit EXCEPT ![f] = a]
  <1> DEFINE w == f[1]
             holders == {a \in Attempt : memory[a] = "open" /\ row[a].wire = w}
             owners  == IF holders # {} THEN Exact(row, w) ELSE OnWire(row, w)
  <1>1. w \in Wire /\ order[w].state # "none" /\ ident[w] \notin Unspent
    BY FillFacts DEF NoteFill
  <1>2. owners = {} => ident[w] \in IdentDead /\ Tombstone(row, w) # {}
    <2> SUFFICES ASSUME owners = {} PROVE ident[w] \in IdentDead /\ Tombstone(row, w) # {}
      OBVIOUS
    <2>1. Exact(row, w) = {}
      BY DEF OnWire
    <2>2. PICK b \in Attempt : Exists(b) /\ row[b].wire = w
      BY <1>1 DEF IInv, OrderInv, OrderHasRow
    <2>3. b \in Tombstone(row, w)
      BY <2>1, <2>2, RowTyped DEF Exact, Tombstone, Exists, Row
    <2>4. ident[w] \in IdentDead
      BY <1>1, <2>1 DEF IInv, OrderInv, NoRowSettled, Settled
    <2> QED  BY <2>3, <2>4
  <1>3. \A a \in owners : a \in Attempt /\ Exists(a) /\ row[a].wire = w
    BY DEF Exact, OnWire, Tombstone, Exists, IInv, Typed, Shape, RowShape
  <1>4. \/ credit[f] # 0 /\ UNCHANGED <<row, credit>>
        \/ owners = {} /\ UNCHANGED <<row, credit>>
        \/ \E a \in owners : /\ credit[f] = 0
                             /\ row' = [row EXCEPT ![a] = Filled(row[a])]
                             /\ credit' = [credit EXCEPT ![f] = a]
    BY DEF NoteFill
  <1>5. seen' = seen \cup {f} /\ UNCHANGED <<ident, flight, route, disp, probe, order>>
    BY DEF NoteFill
  <1> HIDE DEF owners, holders
  <1> QED  BY <1>2, <1>3, <1>4, <1>5

\* What a fill does to the rows: it may end an open row of its order, with
\* nothing left of the order, or of the position unless the order is dead.
EndedByFill(f, b) ==
    /\ OpenRow(b) /\ row[b].wire = f[1]
    /\ ident[f[1]] \in IdentDead \/ AllSeen'
    /\ ~(AtWork(f[1]) /\ row[b].qty = order[f[1]].size)

LEMMA FilledRow ==
    ASSUME IInv, NEW f \in Fill, NoteFill(f), NEW b \in Attempt
    PROVE  /\ row'[b].wire = row[b].wire /\ row'[b].renamed = row[b].renamed
           /\ row'[b].qty = row[b].qty /\ row[b].wire \in Wire
           /\ row'[b].state = "none" <=> row[b].state = "none"
           /\ row'[b].state \in {"none"} \cup Nonterminal \cup Terminal
           /\ row'[b].state \in Terminal => OverRow(b) \/ EndedByFill(f, b)
  <1>0. f[2] <= order[f[1]].filled
    BY DEF NoteFill
  <1>t. row[b] \in Row
    BY RowTyped
  <1>1. CASE row'[b] = row[b]
    BY <1>1, <1>t DEF OverRow, Row
  <1>2. ASSUME Exists(b), row[b].wire = f[1], credit[f] = 0,
               row' = [row EXCEPT ![b] = Filled(row[b])]
        PROVE  /\ row'[b].wire = row[b].wire /\ row'[b].renamed = row[b].renamed
               /\ row'[b].qty = row[b].qty /\ row[b].wire \in Wire
               /\ row'[b].state = "none" <=> row[b].state = "none"
               /\ row'[b].state \in {"none"} \cup Nonterminal \cup Terminal
               /\ row'[b].state \in Terminal => OverRow(b) \/ EndedByFill(f, b)
    <2> DEFINE x == row[b]
               y == Filled(row[b])
    <2>1. /\ y \in Row /\ y.wire = x.wire /\ y.renamed = x.renamed /\ y.qty = x.qty
          /\ \/ y.state = x.state
             \/ y.state = FillTarget(x) /\ FillTarget(x) \in Edges(x.state)
          /\ FillTarget(x) \in {"FILLED", "PARTIALLY_FILLED"} \/ FillTarget(x) = x.state
      BY <1>t, FilledEffect
    <2>2. row'[b] = y
      BY <1>2, RowTyped
    <2>3. f[1] # Legacy /\ f[1] \in Wire /\ order[f[1]].filled \in Nat
      BY <1>0, FillFacts
    <2>4. x.got + 1 <= order[f[1]].filled
      BY <1>0, <1>2, CountsBelow
    <2>5. x.state \in Nonterminal \cup Terminal /\ x.got \in Nat /\ x.qty \in Nat
      BY <1>2, <1>t, ObligationConstants DEF Row, Exists
    <2>6. ASSUME y.state \in Terminal, ~OverRow(b) PROVE EndedByFill(f, b)
      <3>1. OpenRow(b) /\ x.state \notin Terminal
        BY <2>5, <2>6 DEF OpenRow, OverRow
      <3>2. y.state = "FILLED" /\ FillTarget(x) = "FILLED"
        BY <2>1, <2>6, <3>1, StatesApart
      <3>3. x.got + 1 >= x.qty
        BY <3>1, <3>2 DEF FillTarget
      <3>4. ~(AtWork(f[1]) /\ x.qty = order[f[1]].size)
        <4> SUFFICES ASSUME AtWork(f[1]), x.qty = order[f[1]].size PROVE FALSE
          OBVIOUS
        <4>1. order[f[1]].filled < order[f[1]].size
          BY <2>3 DEF IInv, Typed, Shape, OrderShape, AtWork
        <4> QED  BY <2>3, <2>4, <2>5, <3>3, <4>1
      <3>5. ident[f[1]] \in IdentDead \/ AllSeen'
        <4> SUFFICES ASSUME ident[f[1]] \notin IdentDead PROVE Cardinality(seen') >= Size
          BY DEF AllSeen
        <4>1. f \notin seen
          BY <1>2 DEF IInv, FillInv, LateFillsOnly
        <4>2. Cardinality(seen') = Cardinality(seen) + 1 /\ Cardinality(seen) \in Nat
          BY <4>1, FillFindsRow, SeenGrows
        <4>3. Size + x.got <= Cardinality(seen) + x.qty
          BY <1>2, <2>3 DEF IInv, FillInv, EnoughAsked
        <4> QED  BY <2>5, <3>3, <4>2, <4>3, ObligationConstants
      <3> QED  BY <1>2, <3>1, <3>4, <3>5 DEF EndedByFill
    <2>7. y.state # "none"
      BY <2>1, <2>5, StatesApart
    <2> HIDE DEF y
    <2> QED  BY <1>2, <2>1, <2>2, <2>3, <2>6, <2>7 DEF Exists, Row
  <1>3. \/ row'[b] = row[b]
        \/ /\ Exists(b) /\ row[b].wire = f[1] /\ credit[f] = 0
           /\ row' = [row EXCEPT ![b] = Filled(row[b])]
    BY FillFindsRow, RowTyped
  <1> QED  BY <1>1, <1>2, <1>3

LEMMA FillAside ==
    ASSUME IInv, NEW f \in Fill, NoteFill(f)
    PROVE  /\ UNCHANGED <<ident, flight, route, disp, probe, order>>
           /\ f[1] \in Wire /\ ident[f[1]] \notin Unspent
           /\ Cardinality(seen) \in Nat /\ Cardinality(seen') \in Nat
           /\ Cardinality(seen') >= Cardinality(seen)
           /\ AllSeen => AllSeen'
  <1>1. f[2] <= order[f[1]].filled
    BY DEF NoteFill
  <1>2. seen' = seen \cup {f} /\ UNCHANGED <<ident, flight, route, disp, probe, order>>
    BY FillFindsRow
  <1> QED  BY <1>1, <1>2, FillFacts, SeenGrows

\* An id that has not been spent has no fills: its open row stays open.
LEMMA UnspentStaysOpen ==
    ASSUME IInv, NEW f \in Fill, NoteFill(f), NEW b \in Attempt,
           OpenRow(b), ident[row[b].wire] \in Unspent
    PROVE  row'[b].state \in Nonterminal
  <1>1. row[b].wire # f[1]
    BY FillAside
  <1> QED  BY <1>1, FilledRow, StatesApart DEF EndedByFill, OpenRow, OverRow

LEMMA FillKeepsRows == ASSUME IInv, NEW f \in Fill, NoteFill(f) PROVE RowsInv'
  <1>1. WireOnce'
    BY FilledRow DEF IInv, RowsInv, WireOnce, Exists, Exact
  <1>2. SaltsFollow'
    <2> SUFFICES ASSUME NEW b \in Attempt, row'[b].state # "none", row'[b].wire \in Attempt
                 PROVE  row'[row'[b].wire].renamed
      BY DEF SaltsFollow, Exists
    <2>1. row'[b].wire = row[b].wire /\ row[b].state # "none"
      BY FilledRow
    <2>2. row[b].wire \in Attempt /\ row[row[b].wire].renamed
      BY <2>1 DEF IInv, RowsInv, SaltsFollow, Exists
    <2> QED  BY <2>1, <2>2, FilledRow
  <1> QED  BY <1>1, <1>2 DEF RowsInv

LEMMA FillKeepsDisp == ASSUME IInv, NEW f \in Fill, NoteFill(f) PROVE DispInv'
  <1> DEFINE a == disp.attempt
  <1>u. /\ UNCHANGED <<ident, route, disp, probe, order>>
        /\ Cardinality(seen) \in Nat /\ Cardinality(seen') \in Nat
        /\ Cardinality(seen') >= Cardinality(seen)
    BY FillAside
  <1>1. AsksEnough'
    <2> SUFFICES ASSUME disp.step \in {"superseding", "creating", "created"}
                 PROVE  Size <= Cardinality(seen') + disp.qty
      BY <1>u DEF AsksEnough
    <2>1. Size <= Cardinality(seen) + disp.qty
      BY DEF IInv, DispInv, AsksEnough
    <2>2. disp.qty \in Nat
      BY ObligationConstants DEF IInv, Typed, TypeOK, Dispatch
    <2> QED  BY <1>u, <2>1, <2>2, ObligationConstants
  <1>2. CreatingInv'
    <2>1. ASSUME disp.step = "creating"
          PROVE  /\ Exact(row', disp.wire) = {}
                 /\ disp.wire \in Attempt => row'[disp.wire].renamed
      <3>1. Exact(row', disp.wire) = Exact(row, disp.wire)
        BY FilledRow DEF Exact
      <3> QED  BY <2>1, <3>1, FilledRow DEF IInv, DispInv, CreatingInv
    <2> QED  BY <1>u, <2>1 DEF CreatingInv
  <1>3. SupersedingInv'
    <2>1. disp.step = "superseding" => /\ row'[a].renamed = row[a].renamed
                                       /\ row'[a].wire = row[a].wire
      BY FilledRow DEF IInv, Typed, Shape, DispShape
    <2> QED  BY <1>u, <2>1 DEF IInv, DispInv, SupersedingInv, Settled, Routing
  <1>4. CreatedInv'
    <2> SUFFICES ASSUME disp.step = "created"
                 PROVE  /\ Settled(row'[a].wire)
                        /\ ident[row'[a].wire] \in Unspent => row'[a].state \in Nonterminal
                        /\ \A b \in Attempt : ~Routing(b)
                        /\ \A v \in Wire : ~AtWork(v)
      BY <1>u DEF CreatedInv, Settled, OpenRow, Routing, AtWork
    <2>1. a \in Attempt
      BY DEF IInv, Typed, Shape, DispShape
    <2>2. /\ Settled(row[a].wire) /\ (ident[row[a].wire] \in Unspent => OpenRow(a))
          /\ \A b \in Attempt : ~Routing(b)
          /\ \A v \in Wire : ~AtWork(v)
      BY DEF IInv, DispInv, CreatedInv
    <2>3. row'[a].wire = row[a].wire
      BY <2>1, FilledRow
    <2> QED  BY <2>1, <2>2, <2>3, UnspentStaysOpen
  <1> QED  BY <1>1, <1>2, <1>3, <1>4 DEF DispInv

LEMMA FillKeepsRoutes == ASSUME IInv, NEW f \in Fill, NoteFill(f) PROVE RouteInv'
  <1>u. UNCHANGED <<ident, flight, route, disp, probe, order>>
    BY FillAside
  <1>1. RoutingOpen'
    <2> SUFFICES ASSUME NEW a \in Attempt, route[a] = "routing"
                 PROVE  /\ row'[a].state \in Nonterminal /\ ~row'[a].renamed
                        /\ ident[row'[a].wire] = "PERSISTED"
                        /\ flight.state = "EXECUTION_PENDING" =>
                              flight.wire \in {NoWire, row'[a].wire}
                        /\ \A b \in Attempt : route[b] = "routing" => b = a
                        /\ \A v \in Wire : ~AtWork(v)
      BY <1>u DEF RoutingOpen, OpenRow, Routing, AtWork
    <2>1. row'[a].state \in Nonterminal
      BY RoutingFacts, UnspentStaysOpen DEF Unspent
    <2> QED  BY <2>1, RoutingFacts, FilledRow
  <1>2. SentInv'
    BY <1>u, FilledRow DEF IInv, RouteInv, SentInv
  <1> QED  BY <1>1, <1>2 DEF RouteInv

LEMMA FillKeepsOrders == ASSUME IInv, NEW f \in Fill, NoteFill(f) PROVE OrderInv'
  <1>u. /\ UNCHANGED <<ident, route, disp, probe, order>>
        /\ AllSeen => AllSeen'
    BY FillAside
  <1>1. OrderHasRow'
    BY <1>u, FilledRow DEF IInv, OrderInv, OrderHasRow, Exists
  <1>2. WorkHasOpenRow'
    <2> SUFFICES ASSUME NEW w \in Wire, AtWork(w)
                 PROVE  \E a \in Attempt : /\ row'[a].state \in Nonterminal
                                           /\ row'[a].wire = w /\ row'[a].qty = order[w].size
      BY <1>u DEF WorkHasOpenRow, AtWork, OpenRow
    <2>1. PICK a \in Attempt : OpenRow(a) /\ row[a].wire = w /\ row[a].qty = order[w].size
      BY DEF IInv, OrderInv, WorkHasOpenRow
    <2>2. ~EndedByFill(f, a) /\ ~OverRow(a) /\ row[a].state # "none"
      BY <2>1, StatesApart DEF EndedByFill, OpenRow, OverRow
    <2> QED  BY <2>1, <2>2, FilledRow
  <1>3. OneAtWork' /\ AnswersTrue'
    BY <1>u DEF IInv, OrderInv, OneAtWork, AtWork, AnswersTrue
  <1>4. NoRowSettled'
    <2> SUFFICES ASSUME NEW w \in Wire, Exact(row', w) = {} PROVE Settled(w)
      BY <1>u DEF NoRowSettled, Settled
    <2>1. Exact(row, w) = {}
      BY FilledRow DEF Exact
    <2> QED  BY <2>1 DEF IInv, OrderInv, NoRowSettled
  <1>5. OverSettled'
    <2> SUFFICES ASSUME NEW a \in Attempt, row'[a].state \in Terminal, ~row'[a].renamed
                 PROVE  Settled(row[a].wire) \/ AllSeen'
      BY <1>u, FilledRow DEF OverSettled, OverRow, Settled
    <2>1. ~row[a].renamed /\ (OverRow(a) \/ EndedByFill(f, a))
      BY FilledRow
    <2> QED  BY <1>u, <2>1 DEF IInv, OrderInv, OverSettled, EndedByFill, Settled
  <1> QED  BY <1>1, <1>2, <1>3, <1>4, <1>5 DEF OrderInv

\* A fill that is on a row already, or finds none, is not counted.
LEMMA UncountedKeeps ==
    ASSUME IInv, NEW f \in Fill, NoteFill(f), UNCHANGED <<row, credit>>,
           credit[f] # 0 \/ (ident[f[1]] \in IdentDead /\ Tombstone(row, f[1]) # {})
    PROVE  FillInv'
  <1>1. seen' = seen \cup {f} /\ UNCHANGED <<ident, order>>
    BY FillFindsRow
  <1>2. Cardinality(seen) \in Nat /\ Cardinality(seen') \in Nat /\ Cardinality(seen') >= Cardinality(seen)
    BY FillAside
  <1>3. LateFillsOnly'
    BY <1>1 DEF IInv, FillInv, LateFillsOnly, Tombstone
  <1>4. CreditOnWire'
    BY <1>1 DEF IInv, FillInv, CreditOnWire, Exists
  <1>5. GotCounts'
    BY DEF IInv, FillInv, GotCounts, Lots
  <1>6. EnoughAsked'
    <2> SUFFICES ASSUME NEW a \in Attempt, Exists(a), row[a].wire # Legacy,
                        ident[row[a].wire] \notin IdentDead
                 PROVE  Size + row[a].got <= Cardinality(seen') + row[a].qty
      BY <1>1 DEF EnoughAsked, Exists
    <2>1. Size + row[a].got <= Cardinality(seen) + row[a].qty
      BY DEF IInv, FillInv, EnoughAsked
    <2>2. row[a].got \in Nat /\ row[a].qty \in Nat
      BY RowTyped, ObligationConstants DEF Row
    <2> QED  BY <1>2, <2>1, <2>2, ObligationConstants
  <1> QED  BY <1>3, <1>4, <1>5, <1>6 DEF FillInv

\* A fill credited to attempt a counts there and nowhere else.
LEMMA CreditKeeps ==
    ASSUME IInv, NEW f \in Fill, NoteFill(f), NEW a \in Attempt,
           Exists(a), row[a].wire = f[1], credit[f] = 0,
           row' = [row EXCEPT ![a] = Filled(row[a])],
           credit' = [credit EXCEPT ![f] = a]
    PROVE  FillInv'
  <1> DEFINE w == f[1]
             n == f[2]
  <1>0. f[2] <= order[f[1]].filled /\ seen' = seen \cup {f} /\ UNCHANGED <<ident, order>>
    BY FillFindsRow DEF NoteFill
  <1>1. w \in Wire /\ n \in 1..Size /\ f = <<w, n>> /\ w # Legacy
    BY <1>0, FillFacts
  <1>2. f \notin seen \/ ident[w] \in IdentDead
    BY DEF IInv, FillInv, LateFillsOnly
  <1>3. /\ Cardinality(seen) \in Nat /\ Cardinality(seen') \in Nat
        /\ Cardinality(seen') >= Cardinality(seen)
        /\ f \notin seen => Cardinality(seen') = Cardinality(seen) + 1
    BY <1>0, SeenGrows
  <1>4. /\ credit'[f] = a /\ a # 0
        /\ \A g \in Fill : g # f => credit'[g] = credit[g]
    BY ObligationConstants DEF IInv, Typed, TypeOK, Attempt
  <1>5. /\ row'[a].wire = row[a].wire /\ row'[a].qty = row[a].qty /\ row'[a].got = row[a].got + 1
        /\ \A b \in Attempt \ {a} : row'[b] = row[b]
        /\ \A b \in Attempt : row'[b].wire = row[b].wire
        /\ \A b \in Attempt : row'[b].state = "none" <=> row[b].state = "none"
    <2>1. row[a] \in Row /\ row'[a] = Filled(row[a]) /\ \A b \in Attempt \ {a} : row'[b] = row[b]
      BY RowTyped
    <2> QED  BY <2>1, FilledEffect, FilledRow
  <1>6. LateFillsOnly'
    <2>1. seen \in SUBSET Fill
      BY DEF IInv, Typed, TypeOK
    <2>2. \A v : Tombstone(row', v) = Tombstone(row, v)
      BY FilledRow DEF Tombstone
    <2> QED  BY <1>0, <1>4, <2>1, <2>2 DEF IInv, FillInv, LateFillsOnly
  <1>7. CreditOnWire'
    <2> SUFFICES ASSUME NEW g \in Fill, credit'[g] # 0
                 PROVE  /\ row'[credit'[g]].state # "none" /\ row'[credit'[g]].wire = g[1]
                        /\ g[2] <= order[g[1]].filled
      BY <1>0 DEF CreditOnWire, Exists
    <2>1. CASE g = f
      BY <2>1, <1>0, <1>4, <1>5 DEF Exists
    <2>2. CASE g # f
      <3>1. credit'[g] = credit[g] /\ credit[g] # 0
        BY <2>2, <1>4
      <3>2. credit[g] \in Attempt
        BY <3>1, ObligationConstants DEF IInv, Typed, TypeOK, Attempt
      <3>3. Exists(credit[g]) /\ row[credit[g]].wire = g[1] /\ g[2] <= order[g[1]].filled
        BY <3>1 DEF IInv, FillInv, CreditOnWire
      <3> QED  BY <3>1, <3>2, <3>3, <1>5 DEF Exists
    <2> QED  BY <2>1, <2>2
  <1>8. GotCounts'
    <2> SUFFICES ASSUME NEW b \in Attempt PROVE row'[b].got = Cardinality(Lots(b)')
      BY DEF GotCounts
    <2>0. row[b].got = Cardinality(Lots(b)) /\ row[a].got = Cardinality(Lots(a))
      BY DEF IInv, FillInv, GotCounts
    <2>1. Lots(b)' = {m \in 1..Size : credit'[<<row[b].wire, m>>] = b}
      BY <1>5 DEF Lots
    <2>2. ASSUME NEW m \in 1..Size
          PROVE  /\ <<row[b].wire, m>> \in Fill
                 /\ <<row[b].wire, m>> = f <=> row[b].wire = w /\ m = n
      BY <1>1, RowTyped DEF Fill
    <2>3. CASE b = a
      <3>1. Lots(a)' = Lots(a) \cup {n}
        BY <2>1, <2>2, <2>3, <1>1, <1>4 DEF Lots
      <3>2. n \notin Lots(a)
        BY <1>1, <1>4 DEF Lots
      <3>3. Cardinality(Lots(a)') = Cardinality(Lots(a)) + 1
        BY <3>1, <3>2, LotsFinite, FS_AddElement
      <3> QED  BY <2>0, <2>3, <3>3, <1>5
    <2>4. CASE b # a
      <3>1. Lots(b)' = Lots(b)
        <4>1. \A m \in 1..Size : credit'[<<row[b].wire, m>>] = b <=> credit[<<row[b].wire, m>>] = b
          <5> SUFFICES ASSUME NEW m \in 1..Size
                       PROVE  credit'[<<row[b].wire, m>>] = b <=> credit[<<row[b].wire, m>>] = b
            OBVIOUS
          <5>1. <<row[b].wire, m>> \in Fill
            BY <2>2
          <5>2. CASE <<row[b].wire, m>> = f
            <6>1. b # 0
              BY ObligationConstants DEF Attempt
            <6> QED  BY <5>2, <6>1, <2>4, <1>4
          <5>3. CASE <<row[b].wire, m>> # f
            BY <5>1, <5>3, <1>4
          <5> QED  BY <5>2, <5>3
        <4> QED  BY <2>1, <4>1 DEF Lots
      <3> QED  BY <2>0, <2>4, <3>1, <1>5
    <2> QED  BY <2>3, <2>4
  <1>9. EnoughAsked'
    <2> SUFFICES ASSUME NEW b \in Attempt, Exists(b), row[b].wire # Legacy,
                        ident[row[b].wire] \notin IdentDead
                 PROVE  Size + row'[b].got <= Cardinality(seen') + row'[b].qty
      BY <1>0, <1>5 DEF EnoughAsked, Exists
    <2>1. Size + row[b].got <= Cardinality(seen) + row[b].qty
      BY DEF IInv, FillInv, EnoughAsked
    <2>2. row[b].got \in Nat /\ row[b].qty \in Nat
      BY RowTyped, ObligationConstants DEF Row
    <2>3. CASE b = a
      <3>1. Cardinality(seen') = Cardinality(seen) + 1
        BY <1>2, <1>3, <2>3
      <3> QED  BY <1>3, <1>5, <2>1, <2>2, <2>3, <3>1, ObligationConstants
    <2>4. CASE b # a
      BY <1>3, <1>5, <2>1, <2>2, <2>4, ObligationConstants
    <2> QED  BY <2>3, <2>4
  <1> QED  BY <1>6, <1>7, <1>8, <1>9 DEF FillInv

LEMMA NoteFillKeeps == ASSUME IInv, Typed', NEW f \in Fill, NoteFill(f) PROVE IInv'
  <1>1. FillInv'
    BY FillFindsRow, UncountedKeeps, CreditKeeps
  <1> QED  BY <1>1, FillKeepsRows, FillKeepsDisp, FillKeepsRoutes, FillKeepsOrders DEF IInv

-----------------------------------------------------------------------------
(* The invariant holds.                                                    *)

LEMMA InitIInv == Init => IInv
  <1> SUFFICES ASSUME Init PROVE IInv
    OBVIOUS
  <1>1. Typed
    BY InitTypes
  <1>2. /\ \A a \in Attempt : /\ row[a] = NoRow /\ row[a].state = "none" /\ row[a].got = 0
                              /\ ~row[a].renamed /\ route[a] = "idle"
        /\ \A w \in Wire : ident[w] = "none" /\ order[w] = NoOrder /\ order[w].state = "none"
        /\ \A f \in Fill : credit[f] = 0
        /\ \A l \in Lookups : probe[l].answer = "none"
        /\ disp.step = "idle" /\ seen = {}
    BY DEF Init, NoRow, NoOrder, AtRest, NoProbe
  <1>3. RowsInv
    BY <1>2 DEF RowsInv, WireOnce, SaltsFollow, Exists
  <1>4. DispInv
    BY <1>2 DEF DispInv, SupersedingInv, CreatingInv, CreatedInv, AsksEnough
  <1>5. RouteInv
    BY <1>2 DEF RouteInv, RoutingOpen, SentInv, Routing
  <1>6. OrderInv
    BY <1>2, StatesApart DEF OrderInv, OrderHasRow, WorkHasOpenRow, OneAtWork, AnswersTrue,
        NoRowSettled, OverSettled, AtWork, OverRow, Settled, Unspent
  <1>7. FillInv
    <2>1. \A a \in Attempt : Lots(a) = {}
      <3> SUFFICES ASSUME NEW a \in Attempt, NEW m \in 1..Size
                   PROVE  credit[<<row[a].wire, m>>] # a
        BY DEF Lots
      <3>1. <<row[a].wire, m>> \in Fill
        BY <1>1 DEF Typed, TypeOK, Row, Fill
      <3>2. a # 0
        BY ObligationConstants DEF Attempt
      <3> QED  BY <1>2, <3>1, <3>2
    <2>2. GotCounts
      BY <1>2, <2>1, FS_EmptySet DEF GotCounts
    <2> QED  BY <1>2, <2>2 DEF FillInv, LateFillsOnly, CreditOnWire, EnoughAsked, Exists
  <1> QED  BY <1>1, <1>3, <1>4, <1>5, <1>6, <1>7 DEF IInv

LEMMA StepIInv == IInv /\ [Next]_vars => IInv'
  <1> SUFFICES ASSUME IInv, [Next]_vars PROVE IInv'
    OBVIOUS
  <1>t. Typed'
    BY StepTypes DEF IInv
  <1>1. CASE \/ EmitExitIntent \/ Suppress \/ (\E w \in Wire : ConfirmLate(w))
             \/ RemovePosition \/ FlightTimeout \/ UNCHANGED vars
    BY <1>t, <1>1, MonitorRecords, RecordingKeeps
  <1>2. CASE LookUp
    BY <1>t, <1>2, LookUpKeeps
  <1>3. CASE Supersede
    BY <1>t, <1>3, SupersedeKeeps
  <1>4. CASE CreateAttempt
    BY <1>t, <1>4, CreateKeeps
  <1>5. CASE StartRoute
    BY <1>t, <1>5, StartRecords, RecordingKeeps
  <1>6. ASSUME NEW a \in Attempt, Claim(a) PROVE IInv'
    BY <1>t, <1>6, ClaimKeeps
  <1>7. ASSUME NEW a \in Attempt, \/ Deny(a) \/ Hold(a) \/ Refuse(a)
                                  \/ RouteTimeout(a) \/ ReplyRejected(a) \/ Reply(a)
        PROVE  IInv'
    <2>1. Recording
      BY <1>7, DenyRecords, HoldRecords, RefuseRecords, TimeoutRecords, RejectedRecords, ReplyRecording
    <2> QED  BY <1>t, <2>1, RecordingKeeps
  <1>8. ASSUME NEW w \in Wire, Accept(w) \/ Decline(w) \/ Trade(w) \/ Cancel(w) PROVE IInv'
    BY <1>t, <1>8, TradesKeep
  <1>9. ASSUME NEW f \in Fill, NoteFill(f) PROVE IInv'
    BY <1>t, <1>9, NoteFillKeeps
  <1>10. ASSUME NEW l \in Lookups, NEW w \in Wire, BeginReconcile(l, w) PROVE IInv'
    BY <1>t, <1>10, BeginRecords, RecordingKeeps
  <1>11. ASSUME NEW l \in Lookups, NEW s \in Said, Answer(l, s) PROVE IInv'
    BY <1>t, <1>11, AnswerRecords, RecordingKeeps
  <1>12. ASSUME NEW l \in Lookups, ApplyAnswer(l) PROVE IInv'
    BY <1>t, <1>12, ApplyRecords, RecordingKeeps
  <1>13. CASE Restart
    BY <1>t, <1>13, RestartKeeps
  <1> QED  BY <1>1, <1>2, <1>3, <1>4, <1>5, <1>6, <1>7, <1>8, <1>9, <1>10, <1>11, <1>12, <1>13
           DEF Next

\* The inductive invariant, for any number of lookups and of what they count.
THEOREM Holds == Spec => []IInv
  BY InitIInv, StepIInv, PTL DEF Spec

\* A fill handed over is on an attempt, unless its order was ruled dead and its
\* attempt renamed while the resolver held it open (note_fill).
THEOREM FillsFound == Spec => []LateFillsOnly
  <1>1. IInv => LateFillsOnly
    BY DEF IInv, FillInv
  <1> QED  BY <1>1, Holds, PTL

\* An order that can still trade has an open row under its own id, from which
\* rehydration finds it again.
THEOREM OrdersOwned == Spec => []RowsOwnOrders
  <1>1. IInv => RowsOwnOrders
    BY DEF IInv, OrderInv, WorkHasOpenRow, RowsOwnOrders, WorkingWires, OpenRow
  <1> QED  BY <1>1, Holds, PTL

\* At most one order of the position can still trade: a successor is not sent
\* while its predecessor's order may fill.
THEOREM OneOrder == Spec => []OneWorkingOrder
  <1>1. ASSUME IInv PROVE OneWorkingOrder
    <2>1. \A v, w \in WorkingWires : v = w
      BY <1>1 DEF IInv, OrderInv, OneAtWork, WorkingWires
    <2>2. CASE WorkingWires = {}
      BY <2>2, FS_EmptySet DEF OneWorkingOrder
    <2>3. ASSUME NEW w \in WorkingWires PROVE OneWorkingOrder
      <3>1. WorkingWires = {w}
        BY <2>1, <2>3
      <3>2. Cardinality({w}) = 1
        BY FS_Singleton
      <3> QED  BY <3>1, <3>2 DEF OneWorkingOrder
    <2> QED  BY <2>2, <2>3
  <1>2. IInv => OneWorkingOrder
    BY <1>1
  <1> QED  BY <1>2, Holds, PTL

-----------------------------------------------------------------------------
(* What opens a row.  No move does, but to PARTIALLY_FILLED, which only a  *)
(* reply that has executed makes: of two open attempts one's order has     *)
(* traded.                                                                 *)

OpensNone(r, q) == \A a \in Attempt : q[a].state \in Nonterminal => r[a].state \in Nonterminal

LEMMA MovesOpenNone ==
    ASSUME NEW r \in [Attempt -> Row], NEW w,
           NEW s \in {"SUBMITTING", "SUBMISSION_UNKNOWN", "RESOLVING_ON_EXCHANGE", "ACKNOWLEDGED",
                      "ACKNOWLEDGED_LATE", "RESTING", "CANCELED", "TERMINAL_UNFILLED", "FILLED"}
    PROVE  Move(r, w, s) \in [Attempt -> Row] /\ OpensNone(r, Move(r, w, s))
  <1>1. s \in States \ {"none"} /\ s # "PARTIALLY_FILLED"
    BY StatesApart DEF States
  <1>2. \A a \in Attempt : r[a].state \in {"none"} \cup Nonterminal \cup Terminal
    BY DEF Row
  <1>3. \A t \in {"none"} \cup Terminal : s \in Edges(t) => s \notin Nonterminal
    BY <1>1, EdgeFacts, StatesApart
  <1>4. /\ Move(r, w, s) \in [Attempt -> Row]
        /\ \A a \in Attempt : \/ Move(r, w, s)[a].state = r[a].state
                              \/ Move(r, w, s)[a].state = s /\ s \in Edges(r[a].state)
    BY <1>1, MoveEffect
  <1>5. ASSUME NEW a \in Attempt, Move(r, w, s)[a].state \in Nonterminal
        PROVE  r[a].state \in Nonterminal
    BY <1>2, <1>3, <1>4, <1>5
  <1> QED  BY <1>4, <1>5 DEF OpensNone

LEMMA OpensNoneTwice ==
    ASSUME NEW r, NEW q, NEW p, OpensNone(r, q), OpensNone(q, p)
    PROVE  OpensNone(r, p)
  BY DEF OpensNone

LEMMA MarkOpensNone ==
    ASSUME NEW r \in [Attempt -> Row], NEW fl, MarkUnknown(r, fl)
    PROVE  OpensNone(r, row')
  <1>1. OpensNone(r, r)
    BY DEF OpensNone
  <1> QED  BY <1>1, MovesOpenNone DEF MarkUnknown

LEMMA AdoptOpensNone ==
    ASSUME NEW r \in [Attempt -> Row], NEW w, Adopt(r, w)
    PROVE  OpensNone(r, row')
  <1>1. Move(r, w, "SUBMITTING") \in [Attempt -> Row] /\ OpensNone(r, Move(r, w, "SUBMITTING"))
    BY MovesOpenNone
  <1> QED  BY <1>1, MarkOpensNone, OpensNoneTwice DEF Adopt

\* Every row keeps its id, and one that opens had an execution.
OpensTraded ==
    \A a \in Attempt : row'[a].state \in Nonterminal =>
        /\ row'[a].wire = row[a].wire
        /\ OpenRow(a) \/ order[row[a].wire].filled > 0

LEMMA OpensTradedIf ==
    ASSUME IInv, OpensNone(row, row'), \A a \in Attempt : row'[a].wire = row[a].wire
    PROVE  OpensTraded
  BY DEF OpensTraded, OpensNone, OpenRow

LEMMA OpensTradedKeeps ==
    ASSUME IInv, Typed', OneAwaited, OpensTraded,
           \A w \in Wire : order'[w].filled >= order[w].filled
    PROVE  OneAwaited'
  <1> SUFFICES ASSUME NEW a \in Attempt, NEW b \in Attempt,
                      row'[a].state \in Nonterminal, order'[row'[a].wire].filled = 0,
                      row'[b].state \in Nonterminal, order'[row'[b].wire].filled = 0
               PROVE  a = b
    BY DEF OneAwaited, Awaiting, Active
  <1>1. \A w \in Wire : order[w].filled \in Nat /\ order'[w].filled \in Nat
    BY ObligationConstants DEF IInv, Typed, TypeOK, Order
  <1>2. /\ row'[a].wire = row[a].wire /\ row'[b].wire = row[b].wire
        /\ row[a].wire \in Wire /\ row[b].wire \in Wire
    BY RowTyped DEF OpensTraded
  <1>3. order[row[a].wire].filled = 0 /\ order[row[b].wire].filled = 0
    BY <1>1, <1>2
  <1>4. OpenRow(a) /\ OpenRow(b)
    BY <1>3 DEF OpensTraded
  <1> QED  BY <1>3, <1>4 DEF OneAwaited, Awaiting, Active, OpenRow

\* A row inserted is the only one open.
LEMMA InsertedAlone ==
    ASSUME IInv, NEW a \in Fresh, NEW w \in Wire, NEW q \in 0..Size,
           row' = Inserted(row, a, w, q), Active(row) = {}
    PROVE  OneAwaited'
  <1>0. a \in Attempt /\ row \in [Attempt -> Row]
    BY RowTyped DEF Fresh
  <1>1. \A b \in Attempt \ {a} : Inserted(row, a, w, q)[b] = row[b]
    BY <1>0 DEF Inserted
  <1>2. \A b \in Attempt : row[b].state \notin Nonterminal
    BY DEF Active
  <1>3. \A b \in Attempt : row'[b].state \in Nonterminal => b = a
    BY <1>0, <1>1, <1>2
  <1> QED  BY <1>3 DEF OneAwaited, Awaiting, Active

LEMMA DispatchAwaits ==
    ASSUME IInv, OneAwaited, Typed', LookUp \/ Supersede \/ CreateAttempt \/ StartRoute
    PROVE  OneAwaited'
  <1>t. row \in [Attempt -> Row] /\ flight \in FlightType /\ \A a \in Attempt : row[a].wire \in Wire
    BY RowTyped
  <1>o. UNCHANGED order /\ \A w \in Wire : order[w].filled \in Nat
    BY ObligationConstants
       DEF LookUp, Supersede, CreateAttempt, StartRoute, IInv, Typed, TypeOK, Order
  <1>g. \A w \in Wire : order'[w].filled >= order[w].filled
    BY <1>o
  <1>1. CASE LookUp
    <2>1. OpensTraded
      BY <1>1 DEF LookUp, durable, OpensTraded, OpenRow
    <2> QED  BY <1>g, <2>1, OpensTradedKeeps
  <1>2. CASE Supersede
    <2> DEFINE a == disp.attempt
               r == Renamed(row, a)
    <2>1. a \in Attempt
      BY <1>2 DEF Supersede, IInv, Typed, Shape, DispShape
    <2>2. /\ r \in [Attempt -> Row]
          /\ \A b \in Attempt : r[b].state = row[b].state /\ r[b].wire = row[b].wire
      BY <1>t, <2>1, RenamedEffect
    <2>3. \/ row' = [r EXCEPT ![a].state = "SUPERSEDED"]
          \/ Adopt(r, row[a].wire)
          \/ Adopt(row, row[a].wire)
      BY <1>2 DEF Supersede
    <2> HIDE DEF r, a
    <2>4. CASE row' = [r EXCEPT ![a].state = "SUPERSEDED"]
      <3>1. row'[a] = [r[a] EXCEPT !.state = "SUPERSEDED"] /\ \A b \in Attempt \ {a} : row'[b] = r[b]
        BY <2>1, <2>2, <2>4
      <3>2. row'[a].state = "SUPERSEDED"
        BY <2>1, <2>2, <3>1 DEF Row
      <3>3. OpensTraded
        BY <2>2, <3>1, <3>2, StatesApart DEF OpensTraded, OpenRow
      <3> QED  BY <1>g, <3>3, OpensTradedKeeps
    <2>5. ASSUME NEW q \in [Attempt -> Row], Adopt(q, row[a].wire),
                 \A b \in Attempt : q[b].state = row[b].state /\ q[b].wire = row[b].wire
          PROVE  OneAwaited'
      <3>1. Recorded(q, row') /\ OpensNone(q, row')
        BY <1>t, <2>1, <2>5, AdoptEffect, AdoptOpensNone
      <3>2. OpensNone(row, row') /\ \A b \in Attempt : row'[b].wire = row[b].wire
        BY <2>5, <3>1 DEF OpensNone, Recorded, Kept
      <3> QED  BY <1>g, <3>2, OpensTradedIf, OpensTradedKeeps
    <2> QED  BY <1>t, <2>2, <2>3, <2>4, <2>5
  <1>3. CASE CreateAttempt
    <2>1. CASE Active(row) # {}
      <3>1. PICK a \in Active(row) : Adopt(row, row[a].wire)
        BY <1>3, <2>1 DEF CreateAttempt
      <3>2. OpensNone(row, row') /\ Recorded(row, row')
        BY <1>t, <3>1, AdoptEffect, AdoptOpensNone DEF Active
      <3>3. \A b \in Attempt : row'[b].wire = row[b].wire
        BY <3>2 DEF Recorded, Kept
      <3> QED  BY <1>g, <3>2, <3>3, OpensTradedIf, OpensTradedKeeps
    <2>2. CASE Active(row) = {}
      <3>1. Min(Fresh) \in Fresh /\ row' = Inserted(row, Min(Fresh), disp.wire, disp.qty)
        BY <1>3, <2>2, FreshMin DEF CreateAttempt
      <3>2. disp.wire \in Wire /\ disp.qty \in 0..Size
        BY <1>3 DEF CreateAttempt, IInv, Typed, TypeOK, Shape, DispShape, Dispatch
      <3> QED  BY <2>2, <3>1, <3>2, InsertedAlone
    <2> QED  BY <2>1, <2>2
  <1>4. CASE StartRoute
    <2>1. row' = Move(row, row[disp.attempt].wire, "SUBMITTING")
      BY <1>4 DEF StartRoute
    <2>2. OpensNone(row, row') /\ \A b \in Attempt : row'[b].wire = row[b].wire
      BY <1>t, <2>1, MovesOpenNone, Moving DEF Recorded, Kept
    <2> QED  BY <1>g, <2>2, OpensTradedIf, OpensTradedKeeps
  <1> QED  BY <1>1, <1>2, <1>3, <1>4

\* A step that moves rows or fills them, and leaves the exchange alone.
LEMMA MovesAwait ==
    ASSUME IInv, Typed', OneAwaited, Recorded(row, row'), OpensNone(row, row'), UNCHANGED order
    PROVE  OneAwaited'
  <1>1. \A w \in Wire : order'[w].filled >= order[w].filled
    BY ObligationConstants DEF IInv, Typed, TypeOK, Order
  <1>2. \A a \in Attempt : row'[a].wire = row[a].wire
    BY DEF Recorded, Kept
  <1> QED  BY <1>1, <1>2, OpensTradedIf, OpensTradedKeeps

LEMMA MonitorAwaits ==
    ASSUME IInv, Typed', OneAwaited,
           \/ EmitExitIntent \/ Suppress \/ (\E w \in Wire : ConfirmLate(w))
           \/ RemovePosition \/ FlightTimeout \/ UNCHANGED vars
    PROVE  OneAwaited'
  <1>1. Recorded(row, row') /\ UNCHANGED order
    BY MonitorRecords DEF Recording, RecordsRows
  <1>2. OpensNone(row, row')
    <2>1. OpensNone(row, row)
      BY DEF OpensNone
    <2> QED  BY <2>1, RowTyped, MovesOpenNone, MarkOpensNone
             DEF EmitExitIntent, Suppress, ConfirmLate, RemovePosition, FlightTimeout, vars, durable
  <1> QED  BY <1>1, <1>2, MovesAwait

LEMMA CallsAwait ==
    ASSUME IInv, Typed', OneAwaited, NEW a \in Attempt,
           Deny(a) \/ Hold(a) \/ Refuse(a) \/ RouteTimeout(a) \/ ReplyRejected(a)
    PROVE  OneAwaited'
  <1> DEFINE w == row[a].wire
  <1>1. Recorded(row, row') /\ UNCHANGED order
    BY DenyRecords, HoldRecords, RefuseRecords, TimeoutRecords, RejectedRecords
       DEF Recording, RecordsRows
  <1>2. row \in [Attempt -> Row] /\ OpensNone(row, row)
    BY RowTyped DEF OpensNone
  <1>3. OpensNone(row, row')
    <2>1. CASE Deny(a)
      BY <1>2, <2>1 DEF Deny, durable
    <2>2. CASE Hold(a)
      BY <1>2, <2>2, MovesOpenNone, MarkOpensNone DEF Hold
    <2>3. CASE Refuse(a)
      <3>1. /\ Move(row, w, "TERMINAL_UNFILLED") \in [Attempt -> Row]
            /\ OpensNone(row, Move(row, w, "TERMINAL_UNFILLED"))
        BY <1>2, MovesOpenNone
      <3> QED  BY <2>3, <3>1, MarkOpensNone, OpensNoneTwice DEF Refuse
    <2>4. CASE RouteTimeout(a) \/ ReplyRejected(a)
      BY <1>2, <2>4, MarkOpensNone DEF RouteTimeout, ReplyRejected
    <2> QED  BY <2>1, <2>2, <2>3, <2>4
  <1> QED  BY <1>1, <1>3, MovesAwait

LEMMA ReplyAwaits == ASSUME IInv, Typed', OneAwaited, NEW a \in Attempt, Reply(a) PROVE OneAwaited'
  <1> DEFINE w == row[a].wire
             r == Submitted(NoteAck(a), w)
  <1>1. Recorded(row, row') /\ UNCHANGED order
    BY ReplyRecording DEF Recording, RecordsRows
  <1>2. NoteAck(a) \in [Attempt -> Row] /\ OpensNone(row, NoteAck(a))
    BY RowTyped, MovesOpenNone DEF NoteAck, OpensNone
  <1>3. r \in [Attempt -> Row] /\ OpensNone(NoteAck(a), r)
    BY <1>2, MovesOpenNone DEF Submitted, OpensNone
  <1>4. OpensNone(row, r)
    BY <1>2, <1>3, OpensNoneTwice
  <1>5. \/ row' = Move(r, w, "FILLED")
        \/ row' = r
        \/ /\ Executed(w) > 0
           /\ row' = MoveAttempt(r, a, IF Final(w) THEN "PARTIALLY_FILLED" ELSE "RESTING")
        \/ MarkUnknown(r, SubmittedFlight(w))
    BY DEF Reply
  <1>6. w = row[a].wire
    OBVIOUS
  <1> HIDE DEF r, w
  <1>7. CASE row' = r
    BY <1>1, <1>4, <1>7, MovesAwait
  <1>8. CASE row' = Move(r, w, "FILLED") \/ MarkUnknown(r, SubmittedFlight(w))
    <2>1. OpensNone(r, row')
      BY <1>3, <1>8, MovesOpenNone, MarkOpensNone
    <2> QED  BY <1>1, <1>4, <2>1, OpensNoneTwice, MovesAwait
  <1>9. CASE /\ Executed(w) > 0
             /\ row' = MoveAttempt(r, a, IF Final(w) THEN "PARTIALLY_FILLED" ELSE "RESTING")
    <2>1. \A b \in Attempt \ {a} : row'[b] = r[b]
      BY <1>3, <1>9 DEF MoveAttempt
    <2>2. \A b \in Attempt : row'[b].wire = row[b].wire
      BY <1>1 DEF Recorded, Kept
    <2>3. OpensTraded
      BY <1>4, <1>6, <1>9, <2>1, <2>2 DEF OpensTraded, OpensNone, OpenRow, Executed
    <2>4. \A v \in Wire : order'[v].filled >= order[v].filled
      BY <1>1, ObligationConstants DEF IInv, Typed, TypeOK, Order
    <2> QED  BY <2>3, <2>4, OpensTradedKeeps
  <1> QED  BY <1>5, <1>7, <1>8, <1>9

LEMMA ExchangeAwaits ==
    ASSUME IInv, Typed', OneAwaited,
           \/ \E w \in Wire : Accept(w) \/ Decline(w) \/ Trade(w) \/ Cancel(w)
           \/ \E a \in Attempt : Claim(a)
    PROVE  OneAwaited'
  <1>o. order \in [Wire -> Order] /\ \A w \in Wire : order[w].filled \in Nat
    BY ObligationConstants DEF IInv, Typed, TypeOK, Order
  <1>1. ASSUME NEW w \in Wire, Accept(w) \/ Decline(w) \/ Trade(w) \/ Cancel(w) PROVE OneAwaited'
    <2> DEFINE r == [order[w] EXCEPT !.state = "resting"]
               j == [order[w] EXCEPT !.state = "rejected"]
               d == [order[w] EXCEPT !.state = "dead"]
               t == [order[w] EXCEPT !.filled = @ + 1,
                        !.state = IF order[w].filled + 1 = order[w].size THEN "dead" ELSE @]
    <2>1. UNCHANGED row /\ \E o \in {r, j, d, t} : order' = [order EXCEPT ![w] = o]
      BY <1>1 DEF Accept, Decline, Trade, Cancel, Exchange, durable
    <2>a. order[w] \in Order /\ order[w].filled \in Nat
      BY <1>o
    <2>b. /\ r.filled = order[w].filled /\ j.filled = order[w].filled
          /\ d.filled = order[w].filled
      BY <2>a DEF Order
    <2>c. t.filled = order[w].filled + 1
      BY <2>a DEF Order
    <2> HIDE DEF r, j, d, t
    <2>2. \A o \in {r, j, d, t} : o.filled >= order[w].filled
      BY <2>a, <2>b, <2>c
    <2>3. \A v \in Wire : order'[v].filled >= order[v].filled
      BY <1>o, <2>1, <2>2
    <2>4. OpensTraded
      BY <2>1 DEF OpensTraded, OpenRow
    <2> QED  BY <2>3, <2>4, OpensTradedKeeps
  <1>2. ASSUME NEW a \in Attempt, Claim(a) PROVE OneAwaited'
    <2>1. /\ UNCHANGED row
          /\ order' = [order EXCEPT ![row[a].wire].state = "sent", ![row[a].wire].size = row[a].qty]
      BY <1>2, RoutingFacts DEF Claim
    <2>2. \A v \in Wire : order'[v].filled = order[v].filled
      BY <1>o, <2>1, RowTyped DEF Order
    <2>3. OpensTraded
      BY <2>1 DEF OpensTraded, OpenRow
    <2> QED  BY <1>o, <2>2, <2>3, OpensTradedKeeps
  <1> QED  BY <1>1, <1>2

LEMMA FillAwaits ==
    ASSUME IInv, Typed', OneAwaited, NEW f \in Fill, NoteFill(f)
    PROVE  OneAwaited'
  <1>1. UNCHANGED order /\ \A w \in Wire : order[w].filled \in Nat
    BY ObligationConstants, FillAside DEF IInv, Typed, TypeOK, Order
  <1>2. \A b \in Attempt : row'[b].wire = row[b].wire
    BY FilledRow
  <1>3. \A b \in Attempt : row'[b] = row[b] \/ order[row[b].wire].filled > 0
    <2>1. order[f[1]].filled > 0
      BY FillFacts DEF NoteFill
    <2>2. ASSUME NEW a \in Attempt, row[a].wire = f[1], row' = [row EXCEPT ![a] = Filled(row[a])]
          PROVE  \A b \in Attempt : row'[b] = row[b] \/ order[row[b].wire].filled > 0
      BY <2>1, <2>2, RowTyped
    <2> QED  BY <2>2, FillFindsRow
  <1>4. OpensTraded
    BY <1>2, <1>3 DEF OpensTraded, OpenRow
  <1> QED  BY <1>1, <1>4, OpensTradedKeeps

LEMMA LookupsAwait ==
    ASSUME IInv, Typed', OneAwaited,
           \/ \E l \in Lookups, w \in Wire : BeginReconcile(l, w)
           \/ \E l \in Lookups, s \in Said : Answer(l, s)
           \/ \E l \in Lookups : ApplyAnswer(l)
    PROVE  OneAwaited'
  <1>1. Recorded(row, row') /\ UNCHANGED order
    BY BeginRecords, AnswerRecords, ApplyRecords DEF Recording, RecordsRows
  <1>2. OpensNone(row, row')
    <2>1. OpensNone(row, row)
      BY DEF OpensNone
    <2> QED  BY <2>1, RowTyped, MovesOpenNone DEF BeginReconcile, Answer, ApplyAnswer, durable
  <1> QED  BY <1>1, <1>2, MovesAwait

LEMMA RestartAwaits == ASSUME IInv, Typed', OneAwaited, Restart PROVE OneAwaited'
  <1>1. CASE row' = row
    <2>1. OpensNone(row, row') /\ Recorded(row, row') /\ UNCHANGED order
      BY <1>1, RowTyped, Moving DEF OpensNone, Restart
    <2> QED  BY <2>1, MovesAwait
  <1>2. ASSUME NEW a \in Fresh, row' = Inserted(row, a, Legacy, 0), Active(row) = {}
        PROVE  OneAwaited'
    <2>1. Legacy \in Wire /\ 0 \in 0..Size
      BY ObligationConstants DEF Legacy, Wire
    <2> QED  BY <1>2, <2>1, InsertedAlone
  <1>3. Rehydrate /\ Typed
    BY DEF Restart, IInv
  <1> QED  BY <1>1, <1>2, <1>3, RehydrateEffect

\* Two attempts are never open with both their orders untraded, however
\* dispatches overlap and whatever a reply or a late fill opens again.
THEOREM AwaitsOne == Spec => []OneAwaited
  <1>1. Init => OneAwaited
    BY StatesApart DEF Init, NoRow, OneAwaited, Awaiting, Active
  <1>2. IInv /\ OneAwaited /\ [Next]_vars => OneAwaited'
    <2> SUFFICES ASSUME IInv, OneAwaited, [Next]_vars PROVE OneAwaited'
      OBVIOUS
    <2>1. Typed'
      BY StepTypes DEF IInv
    <2> QED  BY <2>1, MonitorAwaits, DispatchAwaits, CallsAwait, ReplyAwaits, ExchangeAwaits,
                FillAwaits, LookupsAwait, RestartAwaits DEF Next
  <1> QED  BY <1>1, <1>2, Holds, PTL DEF Spec
=============================================================================
