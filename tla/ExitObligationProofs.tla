------------------------ MODULE ExitObligationProofs ------------------------
(***************************************************************************)
(* The types of ExitObligation, and that no wire id is sent twice.         *)
(*                                                                         *)
(* A request is sent by the claim of a PERSISTED identity row only, and no *)
(* step makes a row PERSISTED whose order exists; so the identity rows and *)
(* the exchange's orders are enough for the invariant.                     *)
(***************************************************************************)
EXTENDS ExitObligation, FiniteSetTheorems, TLAPS

\* A nonempty set of attempts has a least element: the one with the fewest
\* below it.
LEMMA MinIsIn == ASSUME NEW S \in SUBSET Attempt, S # {} PROVE Min(S) \in S
  <1> DEFINE Below(x) == {y \in S : y < x}
             Belows   == {Below(x) : x \in S}
             Smaller  == StrictSubsetOrdering(S)
  <1>1. S \subseteq Nat /\ IsFiniteSet(S)
    <2>1. IsFiniteSet(Attempt)
      BY ObligationConstants, FS_Interval DEF Attempt
    <2>2. IsFiniteSet(S)
      BY <2>1, FS_Subset
    <2>3. S \subseteq Nat
      BY ObligationConstants DEF Attempt
    <2> QED  BY <2>2, <2>3
  <1>2. IsWellFoundedOn(Smaller, SUBSET S)
    BY <1>1, FS_StrictSubsetOrderingWellFounded, FS_FiniteSubsetsOfFinite
  <1>3. \E A \in Belows : \A B \in Belows : ~(<<B, A>> \in Smaller)
    <2>1. Belows \subseteq SUBSET S /\ Belows # {}
      OBVIOUS
    <2> HIDE DEF Belows, Smaller
    <2> QED  BY <1>2, <2>1, WFMin
  <1>4. PICK x \in S : \A y \in S : ~(<<Below(y), Below(x)>> \in Smaller)
    BY <1>3
  <1>5. ASSUME NEW y \in S, y < x PROVE FALSE
    <2>a. y \in Nat /\ x \in Nat /\ \A z \in S : z \in Nat
      BY <1>1
    <2>b. \A z \in S : z < y => z < x
      BY <2>a, <1>5
    <2>1. Below(y) \subseteq Below(x)
      BY <2>b
    <2>2. y \in Below(x) /\ y \notin Below(y)
      BY <2>a, <1>5
    <2>3. <<Below(y), Below(x)>> \in Smaller
      BY <2>1, <2>2 DEF StrictSubsetOrdering
    <2> QED  BY <2>3, <1>4
  <1>6. \A y \in S : x <= y
    BY <1>1, <1>5
  <1> QED  BY <1>6 DEF Min

-----------------------------------------------------------------------------
(* The attempt store.                                                      *)

States == {"none"} \cup Nonterminal \cup Terminal

LEMMA EdgeFacts ==
    /\ \A s \in Terminal : Edges(s) \subseteq {"SUPERSEDED", "FILLED", "PARTIALLY_FILLED"}
    /\ \A s \in Nonterminal :
          Edges(s) \subseteq (Nonterminal \ {"INTENT_PERSISTED"})
                                \cup {"FILLED", "CANCELED", "TERMINAL_UNFILLED"}
    /\ Edges("none") = {}
    /\ Edges("FILLED") = {"SUPERSEDED"}
    /\ "SUBMITTING" \in Edges("INTENT_PERSISTED")
    /\ \A s \in Nonterminal : "TERMINAL_UNFILLED" \in Edges(s)
  BY DEF Edges, Terminal, Nonterminal, Working, Unproven

\* What a move leaves alone, and where it can end.
Kept(x, y) == /\ y.wire = x.wire /\ y.renamed = x.renamed
              /\ y.qty = x.qty /\ y.got = x.got

LEMMA MoveEffect ==
    ASSUME NEW r \in [Attempt -> Row], NEW w, NEW s \in States \ {"none"}
    PROVE  /\ Move(r, w, s) \in [Attempt -> Row]
           /\ \A a \in Attempt :
                 /\ Kept(r[a], Move(r, w, s)[a])
                 /\ \/ Move(r, w, s)[a].state = r[a].state
                    \/ /\ Move(r, w, s)[a].state = s /\ s \in Edges(r[a].state)
                       /\ a \in Exact(r, w)
                 /\ a \in Exact(r, w) /\ MayMove(r, a, s) => Move(r, w, s)[a].state = s
  <1>1. \A a \in Attempt : [r[a] EXCEPT !.state = s] \in Row
    BY DEF Row, States
  <1>2. \A a \in Attempt : Move(r, w, s)[a] = IF a \in Exact(r, w) /\ MayMove(r, a, s)
                                              THEN [r[a] EXCEPT !.state = s] ELSE r[a]
    BY DEF Move
  <1>3. \A a \in Attempt : [r[a] EXCEPT !.state = s].state = s
    BY DEF Row
  <1>4. \A a \in Attempt : Kept(r[a], [r[a] EXCEPT !.state = s])
    BY DEF Row, Kept
  <1>5. Move(r, w, s) \in [Attempt -> Row]
    BY <1>1 DEF Move
  <1> QED  BY <1>2, <1>3, <1>4, <1>5 DEF MayMove, Kept

\* Rows are only moved: none appears, none is renamed, none begins again.
Recorded(r, q) ==
    /\ q \in [Attempt -> Row]
    /\ \A a \in Attempt : /\ Kept(r[a], q[a])
                          /\ q[a].state = "none" <=> r[a].state = "none"
                          /\ q[a].state = "INTENT_PERSISTED" => r[a].state = "INTENT_PERSISTED"

LEMMA MoveRecords ==
    ASSUME NEW r \in [Attempt -> Row], NEW w, NEW s \in States \ {"none", "INTENT_PERSISTED"}
    PROVE  Recorded(r, Move(r, w, s))
  <1>1. \A a \in Attempt : r[a].state = "none" => s \notin Edges(r[a].state)
    BY EdgeFacts
  <1> QED  BY <1>1, MoveEffect DEF Recorded, States

LEMMA MoveAttemptRecords ==
    ASSUME NEW r \in [Attempt -> Row], NEW a \in Attempt,
           NEW s \in States \ {"none", "INTENT_PERSISTED"}
    PROVE  Recorded(r, MoveAttempt(r, a, s))
  <1>1. CASE MayMove(r, a, s)
    <2>1. [r[a] EXCEPT !.state = s] \in Row
      BY DEF Row, States
    <2>2. MoveAttempt(r, a, s) = [r EXCEPT ![a] = [r[a] EXCEPT !.state = s]]
      BY <1>1 DEF MoveAttempt
    <2>3. r[a].state # "none"
      BY <1>1, EdgeFacts DEF MayMove
    <2> QED  BY <2>1, <2>2, <2>3 DEF Recorded, Kept, Row
  <1>2. CASE ~MayMove(r, a, s)
    BY <1>2 DEF MoveAttempt, Recorded, Kept
  <1> QED  BY <1>1, <1>2

LEMMA RecordedTwice ==
    ASSUME NEW r, NEW q, NEW p, Recorded(r, q), Recorded(q, p)
    PROVE  Recorded(r, p)
  BY DEF Recorded, Kept

FlightType == [state : FlightState, wire : Wire \cup {NoWire}]

LEMMA MarkUnknownRecords ==
    ASSUME NEW r \in [Attempt -> Row], NEW fl \in FlightType, MarkUnknown(r, fl)
    PROVE  Recorded(r, row') /\ flight' \in FlightType
  <1>1. Recorded(r, r) /\ Recorded(r, Move(r, fl.wire, "SUBMISSION_UNKNOWN"))
    BY MoveRecords DEF Recorded, Kept, States, Nonterminal, Unproven
  <1>2. [fl EXCEPT !.state = "SUBMISSION_UNKNOWN"] \in FlightType
    BY DEF FlightType, FlightState
  <1> QED  BY <1>1, <1>2 DEF MarkUnknown

-----------------------------------------------------------------------------
(* Types.  What they rest on: whatever is dispatched, routed or looked up  *)
(* names a row or an id, and an order is sent for at least one lot, once.  *)

RowShape == \A a \in Attempt : ~Exists(a) => ~row[a].renamed /\ row[a].got = 0

RouteShape ==
    \A a \in Attempt : route[a] # "idle" \/ memory[a] # "none" =>
        /\ Exists(a) /\ row[a].state # "INTENT_PERSISTED"
        /\ row[a].wire # Legacy /\ row[a].qty > 0

DispShape ==
    /\ disp.step \in {"superseding", "created"} =>
          disp.attempt \in Attempt /\ Exists(disp.attempt)
    /\ disp.step = "creating" => disp.wire \in Wire \ {Legacy}
    /\ disp.step \in {"superseding", "creating", "created"} => disp.qty > 0
    /\ disp.step = "created" => LET r == row[disp.attempt] IN
                                ~r.renamed /\ r.wire # Legacy /\ r.qty > 0

ProbeShape == \A l \in Lookups : probe[l].answer # "none" => probe[l].wire \in Wire

OrderShape ==
    /\ order[Legacy].state = "none"
    /\ \A w \in Wire :
          LET o == order[w] IN
          /\ o.state # "none" => ident[w] \notin {"none", "PERSISTED"} /\ o.size > 0
          /\ o.state \in {"none", "sent", "rejected"} => o.filled = 0
          /\ o.state \in {"sent", "resting"} => o.filled < o.size

Shape == RowShape /\ RouteShape /\ DispShape /\ ProbeShape /\ OrderShape

\* A step that only moves rows, ends calls and forgets.
Passive ==
    /\ Recorded(row, row')
    /\ order' = order
    /\ \A w \in Wire : ident'[w] \in {"none", "PERSISTED"} => ident[w] \in {"none", "PERSISTED"}
    /\ \A a \in Attempt : route'[a] # "idle" \/ memory'[a] # "none"
                             => route[a] # "idle" \/ memory[a] # "none"
    /\ disp' = disp \/ disp'.step \in {"idle", "emitted"}
    /\ \A l \in Lookups : probe'[l].answer # "none" => probe'[l].wire \in Wire

LEMMA PassiveKeepsShape == ASSUME TypeOK, Shape, Passive PROVE Shape'
  <1> USE DEF Passive, Recorded, Kept, Exists
  <1>1. RowShape'
    BY DEF Shape, RowShape
  <1>2. RouteShape'
    BY DEF Shape, RouteShape
  <1>3. DispShape'
    BY DEF Shape, DispShape
  <1>4. ProbeShape'
    BY DEF Shape, ProbeShape
  <1>5. OrderShape'
    BY DEF Shape, OrderShape
  <1> QED  BY <1>1, <1>2, <1>3, <1>4, <1>5 DEF Shape

LEMMA Moving ==
    ASSUME NEW r \in [Attempt -> Row], NEW w
    PROVE  /\ Recorded(r, r)
           /\ Recorded(r, Move(r, w, "SUBMITTING"))
           /\ Recorded(r, Move(r, w, "SUBMISSION_UNKNOWN"))
           /\ Recorded(r, Move(r, w, "RESOLVING_ON_EXCHANGE"))
           /\ Recorded(r, Move(r, w, "ACKNOWLEDGED"))
           /\ Recorded(r, Move(r, w, "ACKNOWLEDGED_LATE"))
           /\ Recorded(r, Move(r, w, "RESTING"))
           /\ Recorded(r, Move(r, w, "FILLED"))
           /\ Recorded(r, Move(r, w, "CANCELED"))
           /\ Recorded(r, Move(r, w, "TERMINAL_UNFILLED"))
  <1>1. {"SUBMITTING", "SUBMISSION_UNKNOWN", "RESOLVING_ON_EXCHANGE", "ACKNOWLEDGED",
         "ACKNOWLEDGED_LATE", "RESTING", "FILLED", "CANCELED", "TERMINAL_UNFILLED"}
           \subseteq States \ {"none", "INTENT_PERSISTED"}
    BY DEF States, Nonterminal, Terminal, Working, Unproven
  <1>2. Recorded(r, r)
    BY DEF Recorded, Kept
  <1> QED  BY <1>1, <1>2, MoveRecords

LEMMA FlightsTyped ==
    /\ NoFlight \in FlightType
    /\ \A w \in Wire \cup {NoWire} : /\ Flight("EXECUTION_PENDING", w) \in FlightType
                                     /\ Flight("SUBMITTED", w) \in FlightType
                                     /\ Flight("RECONCILIATION_REQUIRED", w) \in FlightType
                                     /\ Flight("SUBMISSION_UNKNOWN", w) \in FlightType
  BY DEF NoFlight, Flight, FlightType, FlightState

\* The typing of everything but the rows, which Recorded types.
RestTyped ==
    /\ ident \in [Wire -> IdentState]
    /\ credit \in [Fill -> 0..MaxAttempts]
    /\ flight \in FlightType
    /\ open \in BOOLEAN
    /\ seen \in SUBSET Fill
    /\ memory \in [Attempt -> {"none", "open", "closed"}]
    /\ route \in [Attempt -> {"idle", "routing", "sent", "done"}]
    /\ disp \in Dispatch
    /\ probe \in [Lookups -> [wire : Wire \cup {NoWire},
                              answer : {"none", "awaited", "nothing", "working",
                                        "executed", "empty"}]]
    /\ order \in [Wire -> Order]
    /\ restarts \in 0..MaxRestarts

LEMMA TypesSplit == TypeOK <=> row \in [Attempt -> Row] /\ RestTyped
  BY DEF TypeOK, RestTyped, FlightType

Typed == TypeOK /\ Shape

\* One pattern for every passive step: its rows are Recorded, the rest typed.
LEMMA PassiveTypes == ASSUME Typed, RestTyped', Passive PROVE Typed'
  <1>1. row' \in [Attempt -> Row]
    BY DEF Passive, Recorded
  <1>2. TypeOK'
    BY <1>1, TypesSplit DEF TypeOK, RestTyped, FlightType
  <1> QED  BY <1>2, PassiveKeepsShape DEF Typed

-----------------------------------------------------------------------------
(* The dispatch.                                                           *)

LEMMA AtRestTyped == AtRest \in Dispatch /\ AtRest.step = "idle"
  BY ObligationConstants DEF AtRest, Dispatch

LEMMA EmitTypes == ASSUME Typed, EmitExitIntent \/ Suppress PROVE Typed'
  <1>1. Recorded(row, row')
    BY TypesSplit, Moving DEF Typed, EmitExitIntent, Suppress, durable
  <1>2. disp' \in Dispatch /\ disp'.step \in {"idle", "emitted"}
    BY ObligationConstants DEF EmitExitIntent, Suppress, AtRest, Dispatch
  <1>3. flight' \in FlightType
    BY FlightsTyped DEF EmitExitIntent, Suppress
  <1>4. RestTyped'
    BY <1>2, <1>3, TypesSplit DEF Typed, RestTyped, EmitExitIntent, Suppress, durable
  <1>5. Passive
    BY <1>1, <1>2 DEF Typed, Shape, ProbeShape, Passive, EmitExitIntent, Suppress, durable
  <1> QED  BY <1>4, <1>5, PassiveTypes

LEMMA SeenCounts ==
    ASSUME seen \in SUBSET Fill
    PROVE  IsFiniteSet(seen) /\ IsFiniteSet(Fill) /\ Cardinality(seen) \in Nat
  <1>1. IsFiniteSet(Wire) /\ IsFiniteSet(1..Size)
    BY ObligationConstants, FS_Interval DEF Wire, Legacy
  <1>2. IsFiniteSet(Fill)
    BY <1>1, FS_Product DEF Fill
  <1> QED  BY <1>2, FS_Subset, FS_CardinalityType

LEMMA LookUpTypes == ASSUME Typed, LookUp PROVE Typed'
  <1> DEFINE d == [disp EXCEPT !.qty = Size - Cardinality(seen)]
             a == CHOOSE a \in Exact(row, Base) : TRUE
  <1>1. disp \in Dispatch /\ row \in [Attempt -> Row] /\ Cardinality(seen) \in Nat
    BY SeenCounts DEF Typed, TypeOK
  <1>2. d \in Dispatch /\ d.qty > 0 /\ d.step = disp.step
    BY <1>1, ObligationConstants DEF Dispatch, LookUp
  <1>3. Base \in Wire \ {Legacy}
    BY ObligationConstants DEF Base, Wire, Legacy
  <1>4. CASE Exact(row, Base) = {}
    <2>1. disp' = [d EXCEPT !.step = "creating", !.wire = Base]
      BY <1>4 DEF LookUp
    <2>2. disp' \in Dispatch /\ disp'.step = "creating" /\ disp'.wire = Base /\ disp'.qty > 0
      BY <1>2, <1>3, <2>1 DEF Dispatch
    <2>3. TypeOK'
      BY <2>2 DEF Typed, TypeOK, LookUp, durable
    <2>4. Shape'
      BY <2>2, <1>3 DEF Typed, Shape, RowShape, RouteShape, DispShape, ProbeShape, OrderShape,
                        LookUp, durable, Exists
    <2> QED  BY <2>3, <2>4 DEF Typed
  <1>5. CASE Exact(row, Base) # {}
    <2>1. disp' = [d EXCEPT !.step = "superseding", !.attempt = a, !.found = row[a].state]
      BY <1>5 DEF LookUp
    <2>2. a \in Exact(row, Base)
      BY <1>5
    <2>3. a \in Attempt /\ Exists(a)
      BY <2>2 DEF Exact, Exists
    <2> HIDE DEF a
    <2>4. row[a].state \in {"none"} \cup Nonterminal \cup Terminal
      BY <2>3, <1>1 DEF Row
    <2>5. a \in 0..MaxAttempts
      BY <2>3, ObligationConstants DEF Attempt
    <2>6. disp' \in Dispatch /\ disp'.step = "superseding" /\ disp'.attempt = a /\ disp'.qty > 0
      BY <1>2, <2>1, <2>4, <2>5 DEF Dispatch
    <2>7. TypeOK'
      BY <2>6 DEF Typed, TypeOK, LookUp, durable
    <2>8. Shape'
      BY <2>6, <2>3 DEF Typed, Shape, RowShape, RouteShape, DispShape, ProbeShape, OrderShape,
                        LookUp, durable, Exists
    <2> QED  BY <2>7, <2>8 DEF Typed
  <1> QED  BY <1>4, <1>5

LEMMA AdoptEffect ==
    ASSUME NEW r \in [Attempt -> Row], NEW w \in Wire, Adopt(r, w)
    PROVE  /\ Recorded(r, row')
           /\ flight' \in FlightType
           /\ disp' = AtRest
  <1>1. Recorded(r, Move(r, w, "SUBMITTING"))
    BY Moving
  <1>2. Recorded(Move(r, w, "SUBMITTING"), row') /\ flight' \in FlightType
    BY <1>1, FlightsTyped, MarkUnknownRecords DEF Adopt, Recorded
  <1> QED  BY <1>1, <1>2, RecordedTwice DEF Adopt

\* An adoption ends the dispatch, so the shape is that of its rows.
LEMMA AdoptTypes ==
    ASSUME Typed, NEW w \in Wire, Adopt(row, w),
           UNCHANGED <<ident, credit, open, seen, memory, route, probe, order, restarts>>
    PROVE  Typed'
  <1>1. Recorded(row, row') /\ flight' \in FlightType /\ disp' = AtRest
    BY AdoptEffect DEF Typed, TypeOK
  <1>2. RestTyped'
    BY <1>1, AtRestTyped, TypesSplit DEF Typed, RestTyped
  <1>3. Passive
    BY <1>1, AtRestTyped DEF Typed, Shape, ProbeShape, Passive
  <1> QED  BY <1>2, <1>3, PassiveTypes

LEMMA RenamedEffect ==
    ASSUME NEW r \in [Attempt -> Row], NEW a \in Attempt
    PROVE  /\ Renamed(r, a) \in [Attempt -> Row]
           /\ Renamed(r, a)[a].renamed
           /\ \A b \in Attempt :
                 /\ Renamed(r, a)[b].state = r[b].state
                 /\ Renamed(r, a)[b].wire = r[b].wire
                 /\ Renamed(r, a)[b].qty = r[b].qty
                 /\ Renamed(r, a)[b].got = r[b].got
                 /\ b # a => Renamed(r, a)[b] = r[b]
  <1>1. [r[a] EXCEPT !.renamed = TRUE] \in Row
    BY DEF Row
  <1> QED  BY <1>1 DEF Renamed, Row

LEMMA SupersedeTypes == ASSUME Typed, Supersede PROVE Typed'
  <1> DEFINE a == disp.attempt
             r == Renamed(row, a)
  <1>1. row \in [Attempt -> Row] /\ disp \in Dispatch /\ disp.step = "superseding"
    BY DEF Typed, TypeOK, Supersede
  <1>2. a \in Attempt /\ Exists(a) /\ disp.qty > 0
    BY <1>1 DEF Typed, Shape, DispShape
  <1>3. row[a].wire \in Wire
    BY <1>1, <1>2 DEF Row
  <1>4. /\ r \in [Attempt -> Row]
        /\ \A b \in Attempt : /\ r[b].state = row[b].state
                              /\ r[b].wire = row[b].wire
                              /\ r[b].qty = row[b].qty
                              /\ r[b].got = row[b].got
                              /\ b # a => r[b] = row[b]
    BY <1>1, <1>2, RenamedEffect
  <1>c. \/ /\ row' = [r EXCEPT ![a].state = "SUPERSEDED"]
           /\ disp' = [disp EXCEPT !.step = "creating", !.wire = a, !.attempt = 0]
           /\ UNCHANGED flight
        \/ Adopt(r, row[a].wire)
        \/ Adopt(row, row[a].wire)
    BY DEF Supersede
  <1>u. UNCHANGED <<ident, credit, open, seen, memory, route, probe, order, restarts>>
    BY DEF Supersede
  <1> HIDE DEF r, a
  <1>5. CASE /\ row' = [r EXCEPT ![a].state = "SUPERSEDED"]
             /\ disp' = [disp EXCEPT !.step = "creating", !.wire = a, !.attempt = 0]
             /\ UNCHANGED flight
    <2>1. a \in Wire \ {Legacy} /\ 0 \in 0..MaxAttempts
      BY <1>2, ObligationConstants DEF Attempt, Wire, Legacy
    <2>2. disp' \in Dispatch /\ disp'.step = "creating" /\ disp'.wire = a /\ disp'.qty = disp.qty
      BY <1>1, <1>5, <2>1 DEF Dispatch
    <2>3. [r[a] EXCEPT !.state = "SUPERSEDED"] \in Row
      BY <1>2, <1>4 DEF Row, Terminal
    <2>4. row' = [r EXCEPT ![a] = [r[a] EXCEPT !.state = "SUPERSEDED"]]
      BY <1>5
    <2>5. row' \in [Attempt -> Row]
      BY <1>4, <2>3, <2>4
    <2>a. row'[a] = [r[a] EXCEPT !.state = "SUPERSEDED"] /\ r[a] \in Row
      BY <1>4, <1>2, <2>4
    <2>b. row'[a].state = "SUPERSEDED" /\ row'[a].wire = r[a].wire /\ row'[a].qty = r[a].qty
      BY <2>a DEF Row
    <2>c. \A b \in Attempt \ {a} : row'[b] = row[b]
      BY <1>4, <2>4
    <2>6. /\ row'[a].state = "SUPERSEDED" /\ row'[a].wire = row[a].wire
          /\ row'[a].qty = row[a].qty
          /\ \A b \in Attempt \ {a} : row'[b] = row[b]
      BY <1>4, <1>2, <2>b, <2>c
    <2>7. TypeOK'
      BY <2>2, <2>5, <1>5, <1>u DEF Typed, TypeOK
    <2>8. RowShape' /\ RouteShape'
      BY <2>6, <1>2, <1>u DEF Typed, Shape, RowShape, RouteShape, Exists
    <2>9. DispShape'
      BY <2>2, <2>1, <1>2 DEF DispShape
    <2>10. ProbeShape' /\ OrderShape'
      BY <1>u DEF Typed, Shape, ProbeShape, OrderShape
    <2> QED  BY <2>7, <2>8, <2>9, <2>10 DEF Typed, Shape
  <1>6. CASE Adopt(r, row[a].wire)
    <2>1. Recorded(r, row') /\ flight' \in FlightType /\ disp' = AtRest
      BY <1>3, <1>4, <1>6, AdoptEffect
    <2>2. RestTyped'
      BY <2>1, <1>u, AtRestTyped, TypesSplit DEF Typed, RestTyped
    <2>3. TypeOK'
      BY <2>1, <2>2 DEF Recorded, TypeOK, RestTyped, FlightType
    <2>a. \A b \in Attempt :
             /\ row'[b].state = "none" <=> row[b].state = "none"
             /\ row'[b].state = "INTENT_PERSISTED" => row[b].state = "INTENT_PERSISTED"
             /\ row'[b].wire = row[b].wire
             /\ row'[b].qty = row[b].qty
             /\ row'[b].got = row[b].got
             /\ b # a => row'[b].renamed = row[b].renamed
      BY <2>1, <1>4 DEF Recorded, Kept
    <2>b. RowShape'
      BY <2>a, <1>2 DEF Typed, Shape, RowShape, Exists
    <2>c. RouteShape'
      BY <2>a, <1>u DEF Typed, Shape, RouteShape, Exists
    <2>4. RowShape' /\ RouteShape'
      BY <2>b, <2>c
    <2>5. DispShape'
      BY <2>1, AtRestTyped DEF DispShape
    <2>6. ProbeShape' /\ OrderShape'
      BY <1>u DEF Typed, Shape, ProbeShape, OrderShape
    <2> QED  BY <2>3, <2>4, <2>5, <2>6 DEF Typed, Shape
  <1>7. CASE Adopt(row, row[a].wire)
    BY <1>3, <1>7, <1>u, AdoptTypes
  <1> QED  BY <1>c, <1>5, <1>6, <1>7

LEMMA InsertedEffect ==
    ASSUME NEW r \in [Attempt -> Row], NEW a \in Attempt, NEW w \in Wire, NEW q \in 0..Size
    PROVE  /\ Inserted(r, a, w, q) \in [Attempt -> Row]
           /\ Inserted(r, a, w, q)[a] =
                 [state |-> "INTENT_PERSISTED", wire |-> w, renamed |-> FALSE, qty |-> q, got |-> 0]
           /\ \A b \in Attempt \ {a} : Inserted(r, a, w, q)[b] = r[b]
  BY DEF Inserted, Row, Nonterminal

\* A new row takes an unused slot, which nothing refers to.
LEMMA InsertionKeepsShape ==
    ASSUME Typed, NEW a \in Fresh, NEW w \in Wire, NEW q \in 0..Size,
           row' = Inserted(row, a, w, q)
    PROVE  /\ row' \in [Attempt -> Row]
           /\ RowShape'
           /\ UNCHANGED <<route, memory>> => RouteShape'
  <1>1. a \in Attempt /\ ~Exists(a) /\ row \in [Attempt -> Row]
    BY DEF Fresh, Typed, TypeOK
  <1>a. /\ row' \in [Attempt -> Row]
        /\ row'[a] = [state |-> "INTENT_PERSISTED", wire |-> w, renamed |-> FALSE, qty |-> q, got |-> 0]
        /\ \A b \in Attempt \ {a} : row'[b] = row[b]
    BY <1>1, InsertedEffect
  <1>2. /\ row' \in [Attempt -> Row] /\ ~row'[a].renamed /\ row'[a].got = 0
        /\ \A b \in Attempt \ {a} : row'[b] = row[b]
    BY <1>a
  <1>3. RowShape'
    BY <1>1, <1>2 DEF Typed, Shape, RowShape, Exists
  <1>4. UNCHANGED <<route, memory>> => RouteShape'
    BY <1>1, <1>2 DEF Typed, Shape, RouteShape, Exists
  <1> QED  BY <1>2, <1>3, <1>4

LEMMA FreshMin == Fresh # {} => Min(Fresh) \in Fresh
  BY MinIsIn DEF Fresh

LEMMA CreateTypes == ASSUME Typed, CreateAttempt PROVE Typed'
  <1>1. CASE Active(row) # {}
    <2>1. PICK a \in Active(row) : Adopt(row, row[a].wire)
      BY <1>1 DEF CreateAttempt
    <2>2. row[a].wire \in Wire
      BY DEF Typed, TypeOK, Active, Row
    <2> QED  BY <2>1, <2>2, AdoptTypes DEF CreateAttempt
  <1>2. CASE Active(row) = {}
    <2> DEFINE a == Min(Fresh)
    <2>1. a \in Fresh
      BY <1>2, FreshMin DEF CreateAttempt
    <2>2. row' = Inserted(row, a, disp.wire, disp.qty) /\ UNCHANGED flight
      BY <1>2 DEF CreateAttempt
    <2>3. disp' = [disp EXCEPT !.step = "created", !.attempt = a]
      BY <1>2 DEF CreateAttempt
    <2> HIDE DEF a
    <2>4. a \in Attempt /\ a \in 0..MaxAttempts
      BY <2>1, ObligationConstants DEF Fresh, Attempt
    <2>5. disp.wire \in Wire \ {Legacy} /\ disp.qty > 0 /\ disp.qty \in 0..Size /\ disp \in Dispatch
      BY DEF Typed, TypeOK, Shape, DispShape, CreateAttempt, Dispatch
    <2>6. disp' \in Dispatch /\ disp'.step = "created" /\ disp'.attempt = a /\ disp'.qty = disp.qty
      BY <2>3, <2>4, <2>5 DEF Dispatch
    <2>7. row'[a] = [state |-> "INTENT_PERSISTED", wire |-> disp.wire, renamed |-> FALSE,
                     qty |-> disp.qty, got |-> 0]
      BY <2>2, <2>4, <2>5, InsertedEffect DEF Typed, TypeOK
    <2>8. row' \in [Attempt -> Row] /\ RowShape' /\ RouteShape'
      BY <2>1, <2>2, <2>5, InsertionKeepsShape DEF CreateAttempt
    <2>9. TypeOK'
      BY <2>2, <2>6, <2>8 DEF Typed, TypeOK, CreateAttempt
    <2>10. DispShape'
      BY <2>4, <2>5, <2>6, <2>7 DEF DispShape, Exists
    <2>11. ProbeShape' /\ OrderShape'
      BY DEF Typed, Shape, ProbeShape, OrderShape, CreateAttempt
    <2> QED  BY <2>8, <2>9, <2>10, <2>11 DEF Typed, Shape
  <1> QED  BY <1>1, <1>2

LEMMA StartTypes == ASSUME Typed, StartRoute PROVE Typed'
  <1> DEFINE a == disp.attempt
             w == row[a].wire
  <1>1. row \in [Attempt -> Row] /\ disp.step = "created"
    BY DEF Typed, TypeOK, StartRoute
  <1>2. a \in Attempt /\ Exists(a) /\ row[a].wire # Legacy /\ row[a].qty > 0
    BY <1>1 DEF Typed, Shape, DispShape
  <1>3. w \in Wire /\ ~row[a].renamed
    BY <1>1, <1>2 DEF Row, Typed, Shape, DispShape
  <1>4. Recorded(row, row') /\ row' = Move(row, w, "SUBMITTING")
    BY <1>1, Moving DEF StartRoute
  <1>d. disp' = AtRest
    BY DEF StartRoute
  <1>u. UNCHANGED <<credit, open, seen, probe, order, restarts>>
    BY DEF StartRoute
  <1>c. \/ /\ flight' = Flight("RECONCILIATION_REQUIRED", w)
           /\ UNCHANGED <<ident, memory, route>>
        \/ /\ flight' = Flight("EXECUTION_PENDING", w)
           /\ IdentityOf(w) # "replaced"
           /\ ident' = [ident EXCEPT ![w] = IdentityOf(w)]
           /\ memory' = [memory EXCEPT ![a] = "open"]
           /\ route' = [route EXCEPT ![a] = "routing"]
    BY DEF StartRoute
  <1>5. row'[a].state # "INTENT_PERSISTED"
    <2>1. a \in Exact(row, w)
      BY <1>2, <1>3 DEF Exact, Exists
    <2>2. CASE row[a].state = "INTENT_PERSISTED"
      <3>1. MayMove(row, a, "SUBMITTING")
        BY <2>2, EdgeFacts DEF MayMove
      <3>2. "SUBMITTING" \in States \ {"none"}
        BY DEF States, Nonterminal, Unproven
      <3>3. Move(row, w, "SUBMITTING")[a].state = "SUBMITTING"
        BY <2>1, <3>1, <3>2, <1>1, <1>2, MoveEffect
      <3> QED  BY <3>3, <1>4
    <2>3. CASE row[a].state # "INTENT_PERSISTED"
      BY <2>3, <1>2, <1>4 DEF Recorded
    <2> QED  BY <2>2, <2>3
  <1> HIDE DEF a, w
  <1>6. CASE /\ flight' = Flight("RECONCILIATION_REQUIRED", w)
             /\ UNCHANGED <<ident, memory, route>>
    <2>1. RestTyped'
      BY <1>3, <1>d, <1>u, <1>6, AtRestTyped, FlightsTyped, TypesSplit DEF Typed, RestTyped
    <2>2. Passive
      BY <1>4, <1>d, <1>u, <1>6, AtRestTyped DEF Typed, Shape, ProbeShape, Passive
    <2> QED  BY <2>1, <2>2, PassiveTypes
  <1>7. CASE /\ flight' = Flight("EXECUTION_PENDING", w)
             /\ IdentityOf(w) # "replaced"
             /\ ident' = [ident EXCEPT ![w] = IdentityOf(w)]
             /\ memory' = [memory EXCEPT ![a] = "open"]
             /\ route' = [route EXCEPT ![a] = "routing"]
    <2>1. ident \in [Wire -> IdentState]
      BY DEF Typed, TypeOK
    <2>2. IdentityOf(w) \in IdentState /\ (IdentityOf(w) = "PERSISTED" \/ IdentityOf(w) = ident[w])
      BY <1>3, <1>7, <2>1 DEF IdentityOf, IdentState
    <2>3. ident' \in [Wire -> IdentState] /\ flight' \in FlightType /\ disp' \in Dispatch
      BY <2>1, <2>2, <1>7, <1>3, <1>d, AtRestTyped, FlightsTyped
    <2>4. RestTyped'
      BY <2>3, <1>u, <1>7, TypesSplit DEF Typed, RestTyped
    <2>5. TypeOK'
      BY <1>4, <2>4 DEF Recorded, TypeOK, RestTyped, FlightType
    <2>6. RowShape'
      BY <1>4 DEF Typed, Shape, RowShape, Recorded, Kept, Exists
    <2>7. RouteShape'
      <3> SUFFICES ASSUME NEW b \in Attempt, route'[b] # "idle" \/ memory'[b] # "none"
                   PROVE  /\ row'[b].state \notin {"none", "INTENT_PERSISTED"}
                          /\ row'[b].wire # Legacy /\ row'[b].qty > 0
        BY DEF RouteShape, Exists
      <3>1. CASE b = a
        BY <3>1, <1>2, <1>4, <1>5 DEF Recorded, Kept, Exists
      <3>2. CASE b # a
        <4>1. route[b] # "idle" \/ memory[b] # "none"
          BY <3>2, <1>7 DEF Typed, TypeOK
        <4> QED  BY <4>1, <1>4 DEF Typed, Shape, RouteShape, Recorded, Kept, Exists
      <3> QED  BY <3>1, <3>2
    <2>8. DispShape'
      BY <1>d, AtRestTyped DEF DispShape
    <2>9. ProbeShape'
      BY <1>u DEF Typed, Shape, ProbeShape
    <2>10. OrderShape'
      <3>1. \A v \in Wire : order[v].state # "none" => ident'[v] \notin {"none", "PERSISTED"}
        <4> SUFFICES ASSUME NEW v \in Wire, order[v].state # "none"
                     PROVE  ident'[v] \notin {"none", "PERSISTED"}
          OBVIOUS
        <4>1. ident[v] \notin {"none", "PERSISTED"}
          BY DEF Typed, Shape, OrderShape
        <4>2. CASE v = w
          BY <4>1, <4>2, <1>7, <1>3, <2>1 DEF IdentityOf
        <4>3. CASE v # w
          BY <4>1, <4>3, <1>7, <2>1
        <4> QED  BY <4>2, <4>3
      <3> QED  BY <3>1, <1>u DEF Typed, Shape, OrderShape
    <2> QED  BY <2>5, <2>6, <2>7, <2>8, <2>9, <2>10 DEF Typed, Shape
  <1> QED  BY <1>c, <1>6, <1>7

-----------------------------------------------------------------------------
(* The route.                                                              *)

Unspent == {"none", "PERSISTED"}

LEMMA IdentSet ==
    ASSUME Typed, NEW w \in Wire, NEW s \in IdentState, s \in Unspent => ident[w] \in Unspent,
           ident' = [ident EXCEPT ![w] = s]
    PROVE  /\ ident' \in [Wire -> IdentState]
           /\ \A v \in Wire : ident'[v] \in Unspent => ident[v] \in Unspent
  BY DEF Typed, TypeOK

\* The call of an attempt ends, and its memory may be closed.
LEMMA EndTypes ==
    ASSUME Typed, NEW a \in Attempt, route[a] # "idle", EndRoute(a),
           \/ UNCHANGED memory
           \/ Close(a)
           \/ \E s \in {"none", "open", "closed"} : memory' = [memory EXCEPT ![a] = s]
    PROVE  /\ route' \in [Attempt -> {"idle", "routing", "sent", "done"}]
           /\ memory' \in [Attempt -> {"none", "open", "closed"}]
           /\ \A b \in Attempt : route'[b] # "idle" \/ memory'[b] # "none"
                                    => route[b] # "idle" \/ memory[b] # "none"
  BY DEF Typed, TypeOK, EndRoute, Close

\* What the actions of a call have in common.
LEMMA CallTypes ==
    ASSUME Typed, NEW a \in Attempt, route[a] # "idle", EndRoute(a),
           \/ UNCHANGED memory
           \/ Close(a)
           \/ \E s \in {"none", "open", "closed"} : memory' = [memory EXCEPT ![a] = s],
           Recorded(row, row'), flight' \in FlightType, open' \in BOOLEAN,
           \/ UNCHANGED ident
           \/ \E s \in IdentState : /\ s \in Unspent => ident[row[a].wire] \in Unspent
                                    /\ ident' = [ident EXCEPT ![row[a].wire] = s],
           UNCHANGED <<credit, seen, disp, probe, order, restarts>>
    PROVE  Typed'
  <1>1. row[a].wire \in Wire /\ ident \in [Wire -> IdentState]
    BY DEF Typed, TypeOK, Row
  <1>2. /\ ident' \in [Wire -> IdentState]
        /\ \A v \in Wire : ident'[v] \in Unspent => ident[v] \in Unspent
    BY <1>1, IdentSet
  <1>3. /\ route' \in [Attempt -> {"idle", "routing", "sent", "done"}]
        /\ memory' \in [Attempt -> {"none", "open", "closed"}]
        /\ \A b \in Attempt : route'[b] # "idle" \/ memory'[b] # "none"
                                 => route[b] # "idle" \/ memory[b] # "none"
    BY EndTypes
  <1>4. RestTyped'
    BY <1>2, <1>3, TypesSplit DEF Typed, RestTyped
  <1>5. Passive
    BY <1>2, <1>3 DEF Typed, Shape, ProbeShape, Passive, Unspent
  <1> QED  BY <1>4, <1>5, PassiveTypes

LEMMA FlightIsTyped == ASSUME Typed PROVE flight \in FlightType /\ row \in [Attempt -> Row]
  BY TypesSplit DEF Typed, RestTyped

LEMMA DenyTypes == ASSUME Typed, NEW a \in Attempt, Deny(a) PROVE Typed'
  <1>1. Recorded(row, row') /\ flight' \in FlightType
    BY FlightIsTyped, FlightsTyped, Moving DEF Deny, durable
  <1>2. open' \in BOOLEAN
    BY DEF Typed, TypeOK, Deny
  <1> QED  BY <1>1, <1>2, CallTypes DEF Deny, durable

LEMMA HoldTypes == ASSUME Typed, NEW a \in Attempt, Hold(a) PROVE Typed'
  <1>1. Recorded(row, row') /\ flight' \in FlightType
    BY FlightIsTyped, FlightsTyped, Moving, MarkUnknownRecords DEF Hold
  <1>2. open' \in BOOLEAN
    BY DEF Typed, TypeOK, Hold
  <1> QED  BY <1>1, <1>2, CallTypes DEF Hold

LEMMA ClaimTypes == ASSUME Typed, NEW a \in Attempt, Claim(a) PROVE Typed'
  <1> DEFINE w == row[a].wire
  <1>1. /\ row \in [Attempt -> Row] /\ flight \in FlightType /\ w \in Wire
        /\ ident \in [Wire -> IdentState] /\ order \in [Wire -> Order]
        /\ route \in [Attempt -> {"idle", "routing", "sent", "done"}]
    BY DEF Typed, TypeOK, FlightType, Row
  <1>2. CASE ident[w] = "PERSISTED"
    <2>1. /\ ident' = [ident EXCEPT ![w] = "SUBMITTING"]
          /\ order' = [order EXCEPT ![w].state = "sent", ![w].size = row[a].qty]
          /\ route' = [route EXCEPT ![a] = "sent"]
          /\ UNCHANGED <<row, flight, credit, open, seen, memory, disp, probe, restarts>>
      BY <1>2 DEF Claim
    <2>2. row[a].qty > 0 /\ w # Legacy /\ row[a].qty \in 0..Size /\ route[a] = "routing"
      BY <1>1 DEF Typed, Shape, RouteShape, Claim, Row
    <2>3. order[w].state = "none" /\ order[w].filled = 0 /\ order[w] \in Order
      BY <1>1, <1>2 DEF Typed, Shape, OrderShape, Order
    <2> HIDE DEF w
    <2>4. /\ order'[w] = [state |-> "sent", size |-> row[a].qty, filled |-> 0]
          /\ \A v \in Wire \ {w} : order'[v] = order[v]
      BY <1>1, <2>1, <2>3 DEF Order
    <2>5. order'[w] \in Order
      BY <2>2, <2>4, ObligationConstants DEF Order
    <2>5a. order' = [order EXCEPT ![w] = order'[w]]
      BY <1>1, <2>1, <2>3 DEF Order
    <2>6. order' \in [Wire -> Order]
      BY <1>1, <2>5, <2>5a
    <2>7. ident' \in [Wire -> IdentState] /\ route' \in [Attempt -> {"idle", "routing", "sent", "done"}]
      BY <1>1, <2>1 DEF IdentState
    <2>8. TypeOK'
      BY <2>1, <2>6, <2>7 DEF Typed, TypeOK
    <2>9. RowShape' /\ DispShape' /\ ProbeShape'
      BY <2>1 DEF Typed, Shape, RowShape, DispShape, ProbeShape, Exists
    <2>10. RouteShape'
      BY <2>1, <2>2, <1>1 DEF Typed, Shape, RouteShape, Exists
    <2>11. OrderShape'
      <3>1. order'[Legacy] = order[Legacy] /\ Legacy \in Wire
        BY <2>2, <2>4, ObligationConstants DEF Wire, Legacy
      <3>2. ASSUME NEW v \in Wire
            PROVE  LET o == order'[v] IN
                   /\ o.state # "none" => ident'[v] \notin {"none", "PERSISTED"} /\ o.size > 0
                   /\ o.state \in {"none", "sent", "rejected"} => o.filled = 0
                   /\ o.state \in {"sent", "resting"} => o.filled < o.size
        <4>1. CASE v = w
          <5>1. /\ order'[w].state = "sent" /\ order'[w].size = row[a].qty
                /\ order'[w].filled = 0 /\ ident'[w] = "SUBMITTING"
            BY <1>1, <2>1, <2>4
          <5>2. row[a].qty > 0 /\ 0 < row[a].qty
            BY <2>2, ObligationConstants
          <5> QED  BY <4>1, <5>1, <5>2
        <4>2. CASE v # w
          <5>1. order'[v] = order[v] /\ ident'[v] = ident[v]
            BY <4>2, <1>1, <2>1, <2>4
          <5> QED  BY <5>1 DEF Typed, Shape, OrderShape
        <4> QED  BY <4>1, <4>2
      <3> QED  BY <3>1, <3>2 DEF Typed, Shape, OrderShape
    <2> QED  BY <2>8, <2>9, <2>10, <2>11 DEF Typed, Shape
  <1>3. CASE ident[w] # "PERSISTED"
    <2>1. Recorded(row, row') /\ flight' \in FlightType
      BY <1>1, <1>3, MarkUnknownRecords DEF Claim
    <2>2. open' \in BOOLEAN
      BY DEF Typed, TypeOK, Claim
    <2> QED  BY <1>3, <2>1, <2>2, CallTypes DEF Claim
  <1> QED  BY <1>2, <1>3

LEMMA RefuseTypes == ASSUME Typed, NEW a \in Attempt, Refuse(a) PROVE Typed'
  <1> DEFINE w == row[a].wire
             s == IF ident[w] = "PERSISTED" THEN "REJECTED" ELSE ident[w]
             m == Move(row, w, "TERMINAL_UNFILLED")
  <1>1. w \in Wire /\ ident \in [Wire -> IdentState] /\ row \in [Attempt -> Row]
        /\ flight \in FlightType
    BY DEF Typed, TypeOK, Row, FlightType
  <1>2. s \in IdentState /\ (s \in Unspent => ident[w] \in Unspent)
    BY <1>1 DEF IdentState, IdentDead, Unspent
  <1>3. ident' = [ident EXCEPT ![w] = s]
    BY <1>1 DEF Refuse
  <1>4. Recorded(row, row') /\ flight' \in FlightType
    <2>1. Recorded(row, m)
      BY <1>1, Moving
    <2>2. (row' = m /\ flight' = NoFlight) \/ MarkUnknown(m, flight)
      BY DEF Refuse
    <2>3. m \in [Attempt -> Row]
      BY <2>1 DEF Recorded
    <2> HIDE DEF m
    <2> QED  BY <1>1, <2>1, <2>2, <2>3, MarkUnknownRecords, RecordedTwice, FlightsTyped
  <1>5. open' \in BOOLEAN
    BY DEF Typed, TypeOK, Refuse
  <1> HIDE DEF s
  <1> QED  BY <1>2, <1>3, <1>4, <1>5, CallTypes DEF Refuse

LEMMA TimeoutTypes == ASSUME Typed, NEW a \in Attempt, RouteTimeout(a) PROVE Typed'
  <1> DEFINE w == row[a].wire
             s == IF ident[w] \in {"PERSISTED", "SUBMITTING"} THEN "SUBMISSION_UNKNOWN"
                  ELSE ident[w]
  <1>1. w \in Wire /\ ident \in [Wire -> IdentState]
    BY DEF Typed, TypeOK, Row
  <1>2. s \in IdentState /\ (s \in Unspent => ident[w] \in Unspent)
    BY <1>1 DEF IdentState, Unspent
  <1>3. ident' = [ident EXCEPT ![w] = s]
    BY <1>1 DEF RouteTimeout
  <1>4. Recorded(row, row') /\ flight' \in FlightType
    BY FlightIsTyped, MarkUnknownRecords DEF RouteTimeout
  <1>5. open' \in BOOLEAN
    BY DEF Typed, TypeOK, RouteTimeout
  <1>6. route[a] # "idle"
    BY DEF RouteTimeout
  <1> HIDE DEF s
  <1> QED  BY <1>2, <1>3, <1>4, <1>5, <1>6, CallTypes DEF RouteTimeout

LEMMA RejectedTypes == ASSUME Typed, NEW a \in Attempt, ReplyRejected(a) PROVE Typed'
  <1> DEFINE w == row[a].wire
             s == IF ident[w] \in IdentDead THEN ident[w] ELSE "REJECTED"
  <1>1. w \in Wire /\ ident \in [Wire -> IdentState]
    BY DEF Typed, TypeOK, Row
  <1>2. s \in IdentState /\ (s \in Unspent => ident[w] \in Unspent)
    BY <1>1 DEF IdentState, Unspent, IdentDead
  <1>3. ident' = [ident EXCEPT ![w] = s]
    BY <1>1 DEF ReplyRejected
  <1>4. Recorded(row, row') /\ flight' \in FlightType
    BY FlightIsTyped, MarkUnknownRecords DEF ReplyRejected
  <1>5. open' \in BOOLEAN
    BY DEF Typed, TypeOK, ReplyRejected
  <1> HIDE DEF s
  <1> QED  BY <1>2, <1>3, <1>4, <1>5, CallTypes DEF ReplyRejected

LEMMA ReplyRecords ==
    ASSUME Typed, NEW a \in Attempt
    PROVE  LET r == Submitted(NoteAck(a), row[a].wire)
           IN  r \in [Attempt -> Row] /\ Recorded(row, r)
  <1>1. row \in [Attempt -> Row]
    BY FlightIsTyped
  <1>2. Recorded(row, NoteAck(a)) /\ NoteAck(a) \in [Attempt -> Row]
    BY <1>1, Moving DEF NoteAck, Recorded
  <1>3. Recorded(NoteAck(a), Submitted(NoteAck(a), row[a].wire))
    BY <1>2, Moving DEF Submitted
  <1>4. Recorded(row, Submitted(NoteAck(a), row[a].wire))
    BY <1>2, <1>3, RecordedTwice
  <1> QED  BY <1>4 DEF Recorded

LEMMA ReplyTypes == ASSUME Typed, NEW a \in Attempt, Reply(a) PROVE Typed'
  <1> DEFINE w == row[a].wire
             r == Submitted(NoteAck(a), w)
             s == IF ident[w] \in IdentDead THEN ident[w]
                  ELSE IF Final(w) /\ Executed(w) > 0 THEN "FILLED" ELSE "ACKNOWLEDGED"
             m == IF Final(w) /\ Executed(w) > 0 THEN "closed" ELSE memory[a]
  <1>1. w \in Wire /\ ident \in [Wire -> IdentState] /\ memory \in [Attempt -> {"none", "open", "closed"}]
    BY DEF Typed, TypeOK, Row
  <1>2. {s, "FILLED"} \subseteq IdentState \ Unspent
    BY <1>1 DEF IdentState, Unspent, IdentDead
  <1>3. ident' = [ident EXCEPT ![w] = s] \/ ident' = [ident EXCEPT ![w] = "FILLED"]
    BY <1>1 DEF Reply, AckedIdent
  <1>4. r \in [Attempt -> Row] /\ Recorded(row, r)
    BY ReplyRecords
  <1>5. NoFlight \in FlightType /\ SubmittedFlight(w) \in FlightType
    BY <1>1, FlightsTyped DEF SubmittedFlight
  <1>6. Recorded(row, row') /\ flight' \in FlightType /\ open' \in BOOLEAN
    <2>1. open' \in BOOLEAN
      BY DEF Typed, TypeOK, Reply
    <2>2. \/ row' = Move(r, w, "FILLED") /\ flight' = NoFlight
          \/ row' = r /\ flight' = SubmittedFlight(w)
          \/ row' = MoveAttempt(r, a, "PARTIALLY_FILLED") /\ flight' = SubmittedFlight(w)
          \/ row' = MoveAttempt(r, a, "RESTING") /\ flight' = SubmittedFlight(w)
          \/ MarkUnknown(r, SubmittedFlight(w))
      BY DEF Reply
    <2> HIDE DEF r
    <2>3. {"PARTIALLY_FILLED", "RESTING"} \subseteq States \ {"none", "INTENT_PERSISTED"}
      BY DEF States, Nonterminal, Working
    <2>4. /\ Recorded(r, Move(r, w, "FILLED"))
          /\ Recorded(r, MoveAttempt(r, a, "PARTIALLY_FILLED"))
          /\ Recorded(r, MoveAttempt(r, a, "RESTING"))
      BY <1>4, <2>3, Moving, MoveAttemptRecords
    <2>5. Recorded(r, row') \/ row' = r
      BY <2>2, <2>4, <1>4, <1>5, MarkUnknownRecords
    <2>6. flight' \in FlightType
      BY <2>2, <1>4, <1>5, MarkUnknownRecords
    <2> QED  BY <2>1, <2>5, <2>6, <1>4, RecordedTwice
  <1>7. memory' = [memory EXCEPT ![a] = m] /\ m \in {"none", "open", "closed"}
    BY <1>1 DEF Reply
  <1>8. /\ route[a] # "idle" /\ EndRoute(a)
        /\ UNCHANGED <<credit, seen, disp, probe, order, restarts>>
    BY DEF Reply
  <1> HIDE DEF s, m, w
  <1>9. \E t \in IdentState : /\ t \in Unspent => ident[row[a].wire] \in Unspent
                              /\ ident' = [ident EXCEPT ![row[a].wire] = t]
    BY <1>2, <1>3 DEF w
  <1> QED  BY <1>6, <1>7, <1>8, <1>9, CallTypes

-----------------------------------------------------------------------------
(* The exchange and its fills.                                             *)

LEMMA ExchangeTypes ==
    ASSUME Typed, NEW w \in Wire, NEW o \in Order, Exchange(w, o),
           order[w].state # "none", o.state # "none", o.size = order[w].size,
           o.state \in {"sent", "rejected"} => o.filled = 0,
           o.state \in {"sent", "resting"} => o.filled < o.size
    PROVE  Typed'
  <1>1. order \in [Wire -> Order] /\ order' = [order EXCEPT ![w] = o]
    BY DEF Typed, TypeOK, Exchange
  <1>2. TypeOK'
    BY <1>1 DEF Typed, TypeOK, Exchange, durable, process
  <1>3. RowShape' /\ RouteShape' /\ DispShape' /\ ProbeShape'
    BY DEF Typed, Shape, RowShape, RouteShape, DispShape, ProbeShape, Exists,
           Exchange, durable, process
  <1>4. OrderShape'
    <2>1. order'[Legacy] = order[Legacy]
      BY <1>1 DEF Typed, Shape, OrderShape
    <2>2. ASSUME NEW v \in Wire
          PROVE  LET p == order'[v] IN
                 /\ p.state # "none" => ident'[v] \notin {"none", "PERSISTED"} /\ p.size > 0
                 /\ p.state \in {"none", "sent", "rejected"} => p.filled = 0
                 /\ p.state \in {"sent", "resting"} => p.filled < p.size
      <3>1. ident' = ident
        BY DEF Exchange, durable
      <3>2. CASE v = w
        BY <3>1, <3>2, <1>1 DEF Typed, Shape, OrderShape
      <3>3. CASE v # w
        BY <3>1, <3>3, <1>1 DEF Typed, Shape, OrderShape
      <3> QED  BY <3>2, <3>3
    <2> QED  BY <2>1, <2>2 DEF Typed, Shape, OrderShape
  <1> QED  BY <1>2, <1>3, <1>4 DEF Typed, Shape

LEMMA TradesTypes ==
    ASSUME Typed, NEW w \in Wire, Accept(w) \/ Decline(w) \/ Trade(w) \/ Cancel(w)
    PROVE  Typed'
  <1>1. /\ order[w] \in Order
        /\ order[w].state \in {"none", "sent", "rejected"} => order[w].filled = 0
        /\ order[w].state \in {"sent", "resting"} => order[w].filled < order[w].size
    BY DEF Typed, TypeOK, Shape, OrderShape
  <1>2. CASE Accept(w)
    <2> DEFINE o == [order[w] EXCEPT !.state = "resting"]
    <2>1. o \in Order /\ o.state = "resting" /\ o.size = order[w].size /\ o.filled = order[w].filled
      BY <1>1 DEF Order
    <2>2. Exchange(w, o) /\ order[w].state = "sent"
      BY <1>2 DEF Accept
    <2> HIDE DEF o
    <2> QED  BY <1>1, <2>1, <2>2, ExchangeTypes
  <1>3. CASE Decline(w)
    <2> DEFINE o == [order[w] EXCEPT !.state = "rejected"]
    <2>1. o \in Order /\ o.state = "rejected" /\ o.size = order[w].size /\ o.filled = order[w].filled
      BY <1>1 DEF Order
    <2>2. Exchange(w, o) /\ order[w].state = "sent"
      BY <1>3 DEF Decline
    <2>3. o.filled = 0
      BY <1>1, <2>1, <2>2
    <2> HIDE DEF o
    <2> QED  BY <2>1, <2>2, <2>3, ExchangeTypes
  <1>4. CASE Trade(w)
    <2> DEFINE o == [order[w] EXCEPT !.filled = @ + 1,
                        !.state = IF order[w].filled + 1 = order[w].size THEN "dead" ELSE @]
    <2>1. Exchange(w, o) /\ order[w].state = "resting"
      BY <1>4 DEF Trade
    <2>2. o.state = (IF order[w].filled + 1 = order[w].size THEN "dead" ELSE "resting")
          /\ o.filled = order[w].filled + 1 /\ o.size = order[w].size
      BY <1>1, <2>1 DEF Order
    <2>3. order[w].filled + 1 \in 0..Size
      BY <1>1, <2>1, ObligationConstants DEF Order
    <2>4. o \in Order
      BY <1>1, <2>1, <2>3 DEF Order
    <2>5. o.state = "resting" => o.filled < o.size
      BY <1>1, <2>1, <2>2, ObligationConstants DEF Order
    <2>6. o.state \in {"dead", "resting"}
      BY <2>2
    <2> HIDE DEF o
    <2> QED  BY <2>1, <2>2, <2>4, <2>5, <2>6, ExchangeTypes
  <1>5. CASE Cancel(w)
    <2> DEFINE o == [order[w] EXCEPT !.state = "dead"]
    <2>1. o \in Order /\ o.state = "dead" /\ o.size = order[w].size
      BY <1>1 DEF Order
    <2>2. Exchange(w, o) /\ order[w].state = "resting"
      BY <1>5 DEF Cancel
    <2> HIDE DEF o
    <2> QED  BY <2>1, <2>2, ExchangeTypes
  <1> QED  BY <1>2, <1>3, <1>4, <1>5

LEMMA FilledEffect ==
    ASSUME NEW x \in Row
    PROVE  /\ Filled(x) \in Row
           /\ Filled(x).wire = x.wire /\ Filled(x).renamed = x.renamed
           /\ Filled(x).qty = x.qty /\ Filled(x).got = x.got + 1
           /\ \/ Filled(x).state = x.state
              \/ Filled(x).state = FillTarget(x) /\ FillTarget(x) \in Edges(x.state)
           /\ FillTarget(x) \in {"FILLED", "PARTIALLY_FILLED"} \/ FillTarget(x) = x.state
           /\ FillTarget(x) \in Edges(x.state) => Filled(x).state = FillTarget(x)
  <1> DEFINE s == IF FillTarget(x) \in Edges(x.state) THEN FillTarget(x) ELSE x.state
  <1>1. Filled(x) = [x EXCEPT !.got = x.got + 1, !.state = s]
    BY DEF Filled, Row
  <1>2. FillTarget(x) \in {"FILLED", "PARTIALLY_FILLED"} \/ FillTarget(x) = x.state
    BY DEF FillTarget
  <1>3. s \in {"none"} \cup Nonterminal \cup Terminal
    BY <1>2 DEF Row, Nonterminal, Terminal, Working
  <1>4. x.got + 1 \in Nat
    BY DEF Row
  <1> HIDE DEF s
  <1>5. /\ Filled(x) \in Row
        /\ Filled(x).wire = x.wire /\ Filled(x).renamed = x.renamed
        /\ Filled(x).qty = x.qty /\ Filled(x).got = x.got + 1
        /\ Filled(x).state = s
    BY <1>1, <1>3, <1>4 DEF Row
  <1> USE DEF s
  <1> QED  BY <1>2, <1>5

LEMMA NoteFillTypes == ASSUME Typed, NEW f \in Fill, NoteFill(f) PROVE Typed'
  <1> DEFINE w == f[1]
             holders == {a \in Attempt : memory[a] = "open" /\ row[a].wire = w}
             owners  == IF holders # {} THEN Exact(row, w) ELSE OnWire(row, w)
  <1>1. row \in [Attempt -> Row] /\ memory \in [Attempt -> {"none", "open", "closed"}]
        /\ credit \in [Fill -> 0..MaxAttempts]
    BY DEF Typed, TypeOK
  <1>2. /\ memory' \in [Attempt -> {"none", "open", "closed"}]
        /\ \A a \in Attempt : memory'[a] # "none" => memory[a] # "none"
    <2>1. CASE holders = {}
      BY <1>1, <2>1 DEF NoteFill
    <2>2. CASE holders # {}
      <3>1. Min(holders) \in holders
        BY <2>2, MinIsIn
      <3>2. memory' = [memory EXCEPT ![Min(holders)] = "closed"]
        BY <2>2 DEF NoteFill
      <3> QED  BY <1>1, <3>1, <3>2
    <2> QED  BY <2>1, <2>2
  <1>3. \A a \in owners : a \in Attempt /\ Exists(a)
    BY DEF Exact, OnWire, Tombstone, Exists, Typed, Shape, RowShape
  <1>4. \/ UNCHANGED <<row, credit>>
        \/ \E a \in owners : /\ row' = [row EXCEPT ![a] = Filled(row[a])]
                             /\ credit' = [credit EXCEPT ![f] = a]
    BY DEF NoteFill
  <1> HIDE DEF owners, holders
  <1>5. /\ row' \in [Attempt -> Row] /\ credit' \in [Fill -> 0..MaxAttempts]
        /\ \A b \in Attempt :
              /\ row'[b].state = "none" <=> row[b].state = "none"
              /\ row'[b].state = "INTENT_PERSISTED" => row[b].state = "INTENT_PERSISTED"
              /\ row'[b].wire = row[b].wire /\ row'[b].renamed = row[b].renamed
              /\ row'[b].qty = row[b].qty
              /\ row[b].state = "none" => row'[b].got = row[b].got
    <2>1. CASE UNCHANGED <<row, credit>>
      BY <1>1, <2>1
    <2>2. ASSUME NEW a \in owners, row' = [row EXCEPT ![a] = Filled(row[a])],
                 credit' = [credit EXCEPT ![f] = a]
          PROVE  <1>5!:
      <3>1. a \in Attempt /\ Exists(a) /\ a \in 0..MaxAttempts /\ row[a] \in Row
        BY <1>1, <1>3, ObligationConstants DEF Attempt
      <3> DEFINE y == Filled(row[a])
      <3>2. /\ y \in Row /\ y.wire = row[a].wire /\ y.renamed = row[a].renamed
            /\ y.qty = row[a].qty
            /\ y.state = row[a].state \/ y.state \in {"FILLED", "PARTIALLY_FILLED"}
        BY <3>1, FilledEffect
      <3> HIDE DEF y
      <3>3. row' = [row EXCEPT ![a] = y]
        BY <2>2 DEF y
      <3>4. row' \in [Attempt -> Row] /\ credit' \in [Fill -> 0..MaxAttempts]
        BY <1>1, <2>2, <3>1, <3>2, <3>3
      <3>5. row'[a] = y /\ \A b \in Attempt \ {a} : row'[b] = row[b]
        BY <1>1, <3>1, <3>3
      <3>6. y.state # "none" /\ (y.state = "INTENT_PERSISTED" => row[a].state = "INTENT_PERSISTED")
        BY <3>1, <3>2 DEF Exists
      <3> QED  BY <3>1, <3>2, <3>4, <3>5, <3>6 DEF Exists
    <2> QED  BY <1>4, <2>1, <2>2
  <1>6. seen' \in SUBSET Fill
    BY DEF Typed, TypeOK, NoteFill
  <1>7. TypeOK'
    BY <1>2, <1>5, <1>6 DEF Typed, TypeOK, NoteFill
  <1>u. UNCHANGED <<ident, flight, open, route, disp, probe, order, restarts>>
    BY DEF NoteFill
  <1>8. RowShape'
    BY <1>5 DEF Typed, Shape, RowShape, Exists
  <1>9. RouteShape'
    BY <1>2, <1>5, <1>u DEF Typed, Shape, RouteShape, Exists
  <1>10. DispShape'
    BY <1>5, <1>u DEF Typed, Shape, DispShape, Exists
  <1>11. ProbeShape' /\ OrderShape'
    BY <1>u DEF Typed, Shape, ProbeShape, OrderShape
  <1> QED  BY <1>7, <1>8, <1>9, <1>10, <1>11 DEF Typed, Shape

-----------------------------------------------------------------------------
(* Reconciliation and restart.                                             *)

\* A step that moves rows and the in-flight entry, and nothing else.
LEMMA MovesTypes ==
    ASSUME Typed, Recorded(row, row'), flight' \in FlightType, open' \in BOOLEAN,
           UNCHANGED <<ident, credit, seen, process, order, restarts>>
    PROVE  Typed'
  <1>1. RestTyped'
    BY TypesSplit DEF Typed, RestTyped, process
  <1>2. Passive
    BY DEF Typed, Shape, ProbeShape, Passive, process
  <1> QED  BY <1>1, <1>2, PassiveTypes

LEMMA MonitorTypes ==
    ASSUME Typed, \/ \E w \in Wire : ConfirmLate(w)
                  \/ RemovePosition
                  \/ FlightTimeout
    PROVE  Typed'
  <1>1. open \in BOOLEAN
    BY DEF Typed, TypeOK
  <1>2. Recorded(row, row') /\ flight' \in FlightType
    BY FlightIsTyped, FlightsTyped, Moving, MarkUnknownRecords
    DEF ConfirmLate, RemovePosition, FlightTimeout, durable
  <1>3. open' \in BOOLEAN /\ UNCHANGED <<ident, credit, seen, process, order, restarts>>
    BY <1>1 DEF ConfirmLate, RemovePosition, FlightTimeout, durable
  <1> QED  BY <1>2, <1>3, MovesTypes

\* A step of one reconciliation, its probe set to p.
LEMMA ProbeTypes ==
    ASSUME Typed, Recorded(row, row'), flight' \in FlightType,
           NEW l \in Lookups,
           NEW p \in [wire : Wire \cup {NoWire},
                      answer : {"none", "awaited", "nothing", "working", "executed", "empty"}],
           p.answer # "none" => p.wire \in Wire,
           probe' = [probe EXCEPT ![l] = p],
           ident' \in [Wire -> IdentState],
           \A v \in Wire : ident'[v] \in Unspent => ident[v] \in Unspent,
           UNCHANGED <<credit, open, seen, memory, route, disp, order, restarts>>
    PROVE  Typed'
  <1>1. probe \in [Lookups -> [wire : Wire \cup {NoWire},
                               answer : {"none", "awaited", "nothing", "working",
                                         "executed", "empty"}]]
    BY DEF Typed, TypeOK
  <1>2. RestTyped'
    BY <1>1, TypesSplit DEF Typed, RestTyped
  <1>3. \A k \in Lookups : probe'[k].answer # "none" => probe'[k].wire \in Wire
    BY <1>1 DEF Typed, Shape, ProbeShape
  <1>4. Passive
    BY <1>3 DEF Passive, Unspent
  <1> QED  BY <1>2, <1>4, PassiveTypes

LEMMA BeginTypes ==
    ASSUME Typed, NEW l \in Lookups, NEW w \in Wire, BeginReconcile(l, w)
    PROVE  Typed'
  <1>1. Recorded(row, row') /\ flight' \in FlightType
    BY FlightIsTyped, FlightsTyped, Moving DEF BeginReconcile, Released
  <1>2. UNCHANGED <<ident, credit, open, seen, memory, route, disp, order, restarts>>
    BY DEF BeginReconcile
  <1>3. CASE UNCHANGED probe
    <2>1. UNCHANGED <<ident, credit, seen, process, order, restarts>>
      BY <1>2, <1>3 DEF process
    <2>2. open' \in BOOLEAN
      BY <1>2 DEF Typed, TypeOK
    <2> QED  BY <1>1, <2>1, <2>2, MovesTypes
  <1>4. CASE probe' = [probe EXCEPT ![l] = [wire |-> w, answer |-> "awaited"]]
    <2>1. ident \in [Wire -> IdentState]
      BY DEF Typed, TypeOK
    <2> QED  BY <1>1, <1>2, <1>4, <2>1, ProbeTypes
  <1> QED  BY <1>3, <1>4 DEF BeginReconcile

LEMMA AnswerTypes ==
    ASSUME Typed, NEW l \in Lookups, NEW s \in Said, Answer(l, s)
    PROVE  Typed'
  <1> DEFINE p == [probe[l] EXCEPT !.answer = s]
  <1>1. /\ probe[l] \in [wire : Wire \cup {NoWire},
                         answer : {"none", "awaited", "nothing", "working", "executed", "empty"}]
        /\ probe[l].wire \in Wire
    BY DEF Typed, TypeOK, Shape, ProbeShape, Answer
  <1>2. /\ p \in [wire : Wire \cup {NoWire},
                  answer : {"none", "awaited", "nothing", "working", "executed", "empty"}]
        /\ p.wire \in Wire
    BY <1>1 DEF Said
  <1>3. probe' = [probe EXCEPT ![l] = p] /\ Recorded(row, row') /\ flight' \in FlightType
    BY FlightIsTyped, Moving DEF Typed, TypeOK, Answer, durable
  <1>4. ident \in [Wire -> IdentState]
    BY DEF Typed, TypeOK
  <1> HIDE DEF p
  <1> QED  BY <1>2, <1>3, <1>4, ProbeTypes DEF Answer, durable

LEMMA ApplyTypes == ASSUME Typed, NEW l \in Lookups, ApplyAnswer(l) PROVE Typed'
  <1> DEFINE w == probe[l].wire
  <1>1. w \in Wire /\ ident \in [Wire -> IdentState]
    BY DEF Typed, TypeOK, Shape, ProbeShape, ApplyAnswer
  <1>2. /\ NoProbe \in [wire : Wire \cup {NoWire},
                        answer : {"none", "awaited", "nothing", "working", "executed", "empty"}]
        /\ NoProbe.answer = "none"
    BY DEF NoProbe
  <1>3. flight' \in FlightType
    BY FlightIsTyped, FlightsTyped DEF ApplyAnswer, Released, FlightType, FlightState
  <1>4. Recorded(row, row')
    BY FlightIsTyped, Moving DEF ApplyAnswer
  <1>5. UNCHANGED ident \/ ident' = [ident EXCEPT ![w] = "CANCELED"]
    BY DEF ApplyAnswer
  <1>6. ident' \in [Wire -> IdentState] /\ \A v \in Wire : ident'[v] \in Unspent => ident[v] \in Unspent
    BY <1>1, <1>5 DEF IdentState, IdentDead, Unspent
  <1>7. /\ probe' = [probe EXCEPT ![l] = NoProbe]
        /\ UNCHANGED <<credit, open, seen, memory, route, disp, order, restarts>>
    BY DEF ApplyAnswer
  <1> QED  BY <1>2, <1>3, <1>4, <1>6, <1>7, ProbeTypes

\* A rehydrated row is one of the store, or a new one that nothing refers to.
LEMMA RehydrateEffect ==
    ASSUME Typed, Rehydrate
    PROVE  /\ flight' \in FlightType
           /\ row' = row \/ \E a \in Fresh : /\ row' = Inserted(row, a, Legacy, 0)
                                             /\ Active(row) = {} /\ Exact(row, Legacy) = {}
  <1>1. flight \in FlightType /\ row \in [Attempt -> Row]
    BY FlightIsTyped
  <1>2. \A a \in Attempt : Flight(FlightOf(row[a].state), row[a].wire) \in FlightType
    BY <1>1 DEF Flight, FlightOf, FlightType, FlightState, Row
  <1>3. Legacy \in Wire /\ [flight EXCEPT !.wire = Legacy] \in FlightType
    BY <1>1, ObligationConstants DEF FlightType, Legacy, Wire
  <1>4. flight' \in FlightType
    BY <1>1, <1>2, <1>3 DEF Rehydrate, Active
  <1>5. row' = row \/ \E a \in Fresh : /\ row' = Inserted(row, a, Legacy, 0)
                                       /\ Active(row) = {} /\ Exact(row, Legacy) = {}
    BY FreshMin DEF Rehydrate
  <1> QED  BY <1>4, <1>5

LEMMA RestartTypes == ASSUME Typed, Restart PROVE Typed'
  <1>1. /\ memory' = [a \in Attempt |-> "none"]
        /\ route' = [a \in Attempt |-> IF route[a] = "idle" THEN "idle" ELSE "done"]
        /\ disp' = AtRest
        /\ probe' = [l \in Lookups |-> NoProbe]
        /\ restarts < MaxRestarts /\ restarts' = restarts + 1
        /\ UNCHANGED <<ident, credit, open, seen, order>>
    BY DEF Restart
  <1>2. /\ memory' \in [Attempt -> {"none", "open", "closed"}]
        /\ route' \in [Attempt -> {"idle", "routing", "sent", "done"}]
        /\ \A a \in Attempt : memory'[a] = "none" /\ (route'[a] # "idle" => route[a] # "idle")
    BY <1>1
  <1>3. /\ probe' \in [Lookups -> [wire : Wire \cup {NoWire},
                              answer : {"none", "awaited", "nothing", "working",
                                        "executed", "empty"}]]
        /\ \A l \in Lookups : probe'[l].answer = "none"
    BY <1>1 DEF NoProbe
  <1>4. restarts' \in 0..MaxRestarts
    BY <1>1, ObligationConstants DEF Typed, TypeOK
  <1>5. flight' \in FlightType
    BY RehydrateEffect DEF Restart
  <1>6. RestTyped'
    BY <1>1, <1>2, <1>3, <1>4, <1>5, AtRestTyped, TypesSplit DEF Typed, RestTyped
  <1>7. CASE row' = row
    <2>1. Passive
      BY <1>1, <1>2, <1>3, <1>7, AtRestTyped, FlightIsTyped, Moving DEF Passive
    <2> QED  BY <1>6, <2>1, PassiveTypes
  <1>8. ASSUME NEW a \in Fresh, row' = Inserted(row, a, Legacy, 0) PROVE Typed'
    <2>1. Legacy \in Wire /\ 0 \in 0..Size
      BY ObligationConstants DEF Legacy, Wire
    <2>2. a \in Attempt /\ ~Exists(a) /\ row \in [Attempt -> Row]
      BY FlightIsTyped DEF Fresh
    <2>3. row' \in [Attempt -> Row] /\ RowShape'
      BY <1>8, <2>1, InsertionKeepsShape
    <2>4. \A b \in Attempt \ {a} : row'[b] = row[b]
      BY <1>8, <2>2 DEF Inserted
    <2>5. RouteShape'
      BY <1>2, <2>2, <2>4 DEF Typed, Shape, RouteShape, Exists
    <2>6. DispShape' /\ ProbeShape' /\ OrderShape'
      BY <1>1, <1>3, AtRestTyped DEF Typed, Shape, DispShape, ProbeShape, OrderShape
    <2>7. TypeOK'
      BY <1>6, <2>3 DEF TypeOK, RestTyped, FlightType
    <2> QED  BY <2>3, <2>5, <2>6, <2>7 DEF Typed, Shape
  <1> QED  BY <1>7, <1>8, RehydrateEffect DEF Restart

-----------------------------------------------------------------------------
(* The whole of it.                                                        *)

LEMMA InitTypes == Init => Typed
  <1> SUFFICES ASSUME Init PROVE Typed
    OBVIOUS
  <1>1. NoRow \in Row /\ NoOrder \in Order /\ NoFlight \in FlightType /\ AtRest \in Dispatch
    BY ObligationConstants, FlightsTyped, AtRestTyped DEF NoRow, Row, Base, Wire, Legacy, NoOrder, Order
  <1>2. NoProbe \in [wire : Wire \cup {NoWire},
                     answer : {"none", "awaited", "nothing", "working", "executed", "empty"}]
    BY DEF NoProbe
  <1>3. TypeOK
    BY <1>1, <1>2, ObligationConstants DEF Init, TypeOK, FlightType, IdentState
  <1>4. RowShape /\ RouteShape
    BY DEF Init, RowShape, RouteShape, Exists, NoRow
  <1>5. DispShape /\ ProbeShape
    BY AtRestTyped DEF Init, DispShape, ProbeShape, NoProbe
  <1>6. OrderShape
    BY ObligationConstants DEF Init, OrderShape, NoOrder, Wire, Legacy
  <1> QED  BY <1>3, <1>4, <1>5, <1>6 DEF Typed, Shape

LEMMA StepTypes == Typed /\ [Next]_vars => Typed'
  <1> SUFFICES ASSUME Typed, [Next]_vars PROVE Typed'
    OBVIOUS
  <1>1. CASE EmitExitIntent \/ Suppress
    BY <1>1, EmitTypes
  <1>2. CASE LookUp
    BY <1>2, LookUpTypes
  <1>3. CASE Supersede
    BY <1>3, SupersedeTypes
  <1>4. CASE CreateAttempt
    BY <1>4, CreateTypes
  <1>5. CASE StartRoute
    BY <1>5, StartTypes
  <1>6. ASSUME NEW a \in Attempt, \/ Deny(a) \/ Hold(a) \/ Claim(a) \/ Refuse(a)
                                  \/ RouteTimeout(a) \/ ReplyRejected(a) \/ Reply(a)
        PROVE  Typed'
    BY <1>6, DenyTypes, HoldTypes, ClaimTypes, RefuseTypes, TimeoutTypes, RejectedTypes, ReplyTypes
  <1>7. ASSUME NEW w \in Wire, Accept(w) \/ Decline(w) \/ Trade(w) \/ Cancel(w) PROVE Typed'
    BY <1>7, TradesTypes
  <1>8. ASSUME NEW f \in Fill, NoteFill(f) PROVE Typed'
    BY <1>8, NoteFillTypes
  <1>9. CASE (\E w \in Wire : ConfirmLate(w)) \/ RemovePosition \/ FlightTimeout
    BY <1>9, MonitorTypes
  <1>10. ASSUME NEW l \in Lookups, NEW w \in Wire, BeginReconcile(l, w) PROVE Typed'
    BY <1>10, BeginTypes
  <1>11. ASSUME NEW l \in Lookups, NEW s \in Said, Answer(l, s) PROVE Typed'
    BY <1>11, AnswerTypes
  <1>12. ASSUME NEW l \in Lookups, ApplyAnswer(l) PROVE Typed'
    BY <1>12, ApplyTypes
  <1>13. CASE Restart
    BY <1>13, RestartTypes
  <1>14. CASE UNCHANGED vars
    <2>1. UNCHANGED <<row, flight, ident, credit, open, seen, process, order, restarts>>
      BY <1>14 DEF vars, durable
    <2>2. Recorded(row, row') /\ flight' \in FlightType /\ open' \in BOOLEAN
      BY <2>1, FlightIsTyped, Moving DEF Typed, TypeOK
    <2> QED  BY <2>1, <2>2, MovesTypes
  <1> QED  BY <1>1, <1>2, <1>3, <1>4, <1>5, <1>6, <1>7, <1>8, <1>9, <1>10, <1>11, <1>12,
              <1>13, <1>14 DEF Next

\* Every variable keeps its type: in particular an order never fills beyond its
\* size, whatever is dispatched, answered late or rehydrated.
THEOREM Types == Spec => []TypeOK
  <1>1. Typed => TypeOK
    BY DEF Typed
  <1> QED  BY <1>1, InitTypes, StepTypes, PTL DEF Spec

\* A request goes out only on an id the exchange has no order for
\* (claim_for_submission): the only step that sends needs an identity row in
\* PERSISTED, and an id with an order, answered or not, never has one again.
THEOREM SendsOnce == Spec => SentOnce
  <1>1. ASSUME Typed, [Next]_vars, NEW a \in Attempt, route[a] # "sent", route'[a] = "sent"
        PROVE  order[row[a].wire].state = "none"
    <2>1. /\ route \in [Attempt -> {"idle", "routing", "sent", "done"}]
          /\ row[a].wire \in Wire
      BY <1>1 DEF Typed, TypeOK, Row
    <2>2. ASSUME NEW b \in Attempt,
                 \/ Deny(b) \/ Hold(b) \/ Claim(b) \/ Refuse(b)
                 \/ RouteTimeout(b) \/ ReplyRejected(b) \/ Reply(b)
          PROVE  ident[row[a].wire] = "PERSISTED"
      <3>1. \/ route' = [route EXCEPT ![b] = "done"]
            \/ /\ ident[row[b].wire] = "PERSISTED"
               /\ route' = [route EXCEPT ![b] = "sent"]
        <4>1. EndRoute(b) \/ Claim(b)
          BY <2>2 DEF Deny, Hold, Refuse, RouteTimeout, ReplyRejected, Reply
        <4>2. Claim(b) => \/ EndRoute(b)
                          \/ /\ ident[row[b].wire] = "PERSISTED"
                             /\ route' = [route EXCEPT ![b] = "sent"]
          BY DEF Claim
        <4> QED  BY <4>1, <4>2 DEF EndRoute
      <3> QED  BY <1>1, <2>1, <3>1
    <2>3. ~StartRoute
      <3>1. ASSUME StartRoute PROVE UNCHANGED route \/ route' = [route EXCEPT ![disp.attempt] = "routing"]
        BY <3>1 DEF StartRoute
      <3> QED  BY <1>1, <2>1, <3>1
    <2>4. ~Restart
      BY <1>1, <2>1 DEF Restart
    <2>5. route' # route
      BY <1>1
    <2>6. \E b \in Attempt : \/ Deny(b) \/ Hold(b) \/ Claim(b) \/ Refuse(b)
                             \/ RouteTimeout(b) \/ ReplyRejected(b) \/ Reply(b)
      BY <1>1, <2>3, <2>4, <2>5
         DEF Next, vars, process, durable, EmitExitIntent, Suppress, LookUp, Supersede,
             CreateAttempt, Accept, Decline, Trade, Cancel, Exchange, NoteFill, ConfirmLate,
             RemovePosition, FlightTimeout, BeginReconcile, Answer, ApplyAnswer
    <2>7. ident[row[a].wire] = "PERSISTED"
      BY <2>2, <2>6
    <2> QED  BY <1>1, <2>1, <2>7 DEF Typed, Shape, OrderShape
  <1>2. Typed /\ [Next]_vars
          => [\A a \in Attempt : route[a] # "sent" /\ route'[a] = "sent"
                                    => order[row[a].wire].state = "none"]_vars
    BY <1>1
  <1> QED  BY <1>2, InitTypes, StepTypes, PTL DEF Spec, SentOnce
=============================================================================
