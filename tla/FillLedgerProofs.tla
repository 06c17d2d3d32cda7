-------------------------- MODULE FillLedgerProofs --------------------------
(***************************************************************************)
(* Proofs about FillLedger, for an order that executes as any number of    *)
(* trades, on one event loop and with the websocket's thread: the types,   *)
(* and the two claims of the ledger, that a lot has one row and that it    *)
(* reaches the position once, but for the trades the thread ingests        *)
(* between the router's look at the ledger and its note there.             *)
(***************************************************************************)
EXTENDS FillLedger, FiniteSetTheorems, TLAPS

\* The bookkeeping that holds whoever interleaves: what is known of a trade is
\* known because it executed, and what the position cache has seen or is to
\* see of a trade is in the ledger.
Books ==
    /\ ack <= executed
    /\ \A t \in Trades \cap (rows \cup {ingest}) : t <= executed
    /\ pending \subseteq rows
    /\ applied \cap Trades \subseteq rows
    /\ lead \in rows \cup {None}
    /\ lead = None => rows \subseteq {Prov} /\ alias \notin Trades

Window == {"checked", "recorded"}

\* Beside the provisional row stand only trades that came in unseen, and the
\* one being ingested: the row is made only where no other trade has one, and
\* a trade that comes later takes its place.
Beside ==
    /\ Prov \in rows =>
          /\ rows \subseteq {Prov, ingest} \cup unseen
          /\ router \in {"recorded", "noted", "done"}
          /\ alias = Prov \/ router = "recorded"
    /\ router = "checked" => rows \subseteq {ingest} \cup unseen /\ alias = None
    /\ router = "recorded" => Prov \in rows /\ alias = None
    /\ alias # None => alias \in rows

\* On one loop nothing comes in unseen, and the provisional row is alone.
Alone ==
    /\ unseen = {}
    /\ Prov \in rows \/ router = "checked" => ingest = None
    /\ ingest \in rows \cup {None} \/ (alias = None /\ router \notin Window)

\* The order is tied to what the router recorded: no trade will be added but
\* those that came in unseen.
Tied ==
    /\ alias \notin {None, ingest}
    /\ pending \subseteq applied \cup unseen
    /\ router \in {"noted", "done"}

Doubled == Cardinality(unseen \cap applied)

\* Either trades alone were added, each at most once, or the router's fill was
\* and, of the trades, those that came in unseen; and the router adds its fill
\* only to a position that had no other.
Mutations ==
    /\ \/ credited <= Cardinality(applied \cap Trades)
       \/ credited <= ack + Doubled /\ Tied
    /\ router \in Window => applied \cap Trades \subseteq unseen /\ pending \subseteq unseen
    /\ router = "noted" /\ Prov \notin applied => credited <= Doubled /\ Tied

FillInv == TypeOK /\ Books /\ Beside /\ Mutations /\ (~bridge => Alone)

-----------------------------------------------------------------------------
(* Types and bookkeeping.                                                  *)

\* What a fill does to the position cache.
LEMMA OnFillEffect ==
    ASSUME NEW f, NEW lots \in Nat, OnFill(f, lots), pos \in Nat, credited \in Nat
    PROVE  /\ applied' = applied \cup {f}
           /\ stamped' = stamped
           /\ pos' \in Nat
           /\ credited' \in {credited, credited + lots}
           /\ f \in applied => credited' = credited
  <1>1. CASE f \in applied
    BY <1>1 DEF OnFill, cache
  <1>2. CASE f \notin applied
    <2>1. pos' \in {pos, pos + lots} /\ credited' \in {credited, credited + lots}
      BY <1>2 DEF OnFill
    <2> QED  BY <1>2, <2>1 DEF OnFill
  <1> QED  BY <1>1, <1>2

\* What a snapshot does to it.
LEMMA SyncEffect ==
    ASSUME NEW s \in 0..MaxTrades, SyncFromRest(s), pos \in Nat
    PROVE  /\ applied \subseteq applied' /\ applied' \subseteq applied \cup rows
           /\ stamped' \subseteq stamped \cup (1..executed) \cup {Prov}
           /\ pos' \in Nat
           /\ credited' = credited
  <1>1. CASE s = 0
    BY <1>1 DEF SyncFromRest, cache
  <1>2. CASE s # 0
    <2>1. /\ pos' = s /\ stamped' = (1..executed) \cup Made
          /\ applied' = applied \cup (rows \cap stamped') /\ credited' = credited
      BY <1>2 DEF SyncFromRest
    <2> QED  BY <2>1, FillConstants DEF Made
  <1> QED  BY <1>1, <1>2

\* The types hold, whoever interleaves.
LEMMA TypedStep == TypeOK /\ [Next]_vars => TypeOK'
  <1> SUFFICES ASSUME TypeOK, [Next]_vars PROVE TypeOK'
    OBVIOUS
  <1> USE FillConstants DEF TypeOK, Trades, FillIds, order, ledger, cache
  <1>a. CASE Execute
    BY <1>a DEF Execute
  <1>b. CASE AnswerFinished \/ AnswerResting
    BY <1>b DEF AnswerFinished, AnswerResting
  <1>c. CASE Fetch
    BY <1>c DEF Fetch
  <1>2. CASE CheckProvisional \/ RecordProvisional \/ AliasProvisional
    BY <1>2 DEF CheckProvisional, RecordProvisional, AliasProvisional
  <1>3. CASE CountProvisional
    <2>1. applied' \subseteq FillIds /\ pos' \in Nat /\ credited' \in Nat /\ stamped' = stamped
      <3>1. ack \in Nat /\ OnFill(Prov, ack)
        BY <1>3 DEF CountProvisional
      <3>2. applied' = applied \cup {Prov} /\ stamped' = stamped
            /\ pos' \in Nat /\ credited' \in {credited, credited + ack}
        BY <3>1, OnFillEffect
      <3>3. credited' \in Nat
        BY <3>1, <3>2
      <3> QED  BY <3>2, <3>3
    <2> QED  BY <1>3, <2>1 DEF CountProvisional
  <1>4. CASE InsertRow
    BY <1>4 DEF InsertRow, First
  <1>5. CASE FinishIngest
    <2>1. ingest \in Trades
      BY <1>5 DEF FinishIngest
    <2>2. unseen' \subseteq Trades
      BY <1>5, <2>1 DEF FinishIngest
    <2> QED  BY <1>5, <2>1, <2>2 DEF FinishIngest, Promote, RecordSibling, First
  <1>6. ASSUME NEW t \in Trades, Ingest(t) PROVE TypeOK'
    BY <1>6 DEF Ingest, Promote, RecordSibling, First
  <1>7. ASSUME NEW t \in Trades, CountTrade(t) PROVE TypeOK'
    <2>1. applied' \subseteq FillIds /\ pos' \in Nat /\ credited' \in Nat /\ stamped' = stamped
      <3>1. OnFill(t, 1)
        BY <1>7 DEF CountTrade
      <3>2. applied' = applied \cup {t} /\ stamped' = stamped
            /\ pos' \in Nat /\ credited' \in {credited, credited + 1}
        BY <3>1, OnFillEffect
      <3> QED  BY <3>1, <3>2
    <2> QED  BY <1>7, <2>1 DEF CountTrade
  <1>8. ASSUME NEW s \in 0..MaxTrades, SyncFromRest(s) PROVE TypeOK'
    <2>1. 1..executed \subseteq FillIds
      OBVIOUS
    <2>2. applied' \subseteq FillIds /\ pos' \in Nat /\ credited' = credited
          /\ stamped' \subseteq FillIds
      BY <1>8, <2>1, SyncEffect
    <2> QED  BY <1>8, <2>2 DEF SyncFromRest
  <1>9. CASE UNCHANGED vars
    BY <1>9 DEF vars
  <1> QED  BY <1>a, <1>b, <1>c, <1>2, <1>3, <1>4, <1>5, <1>6, <1>7, <1>8, <1>9 DEF Next

\* The bookkeeping holds, whoever interleaves.
LEMMA BooksStep == TypeOK /\ Books /\ [Next]_vars => Books'
  <1> SUFFICES ASSUME TypeOK, Books, [Next]_vars PROVE Books'
    OBVIOUS
  <1> USE FillConstants DEF Books, TypeOK, Trades, FillIds, order, ledger, cache
  <1>a. CASE Execute
    BY <1>a DEF Execute
  <1>b. CASE AnswerFinished \/ AnswerResting
    <2>1. ack' \in {ack, executed} /\ UNCHANGED <<executed, ledger, applied, pending>>
      BY <1>b DEF AnswerFinished, AnswerResting
    <2> QED  BY <2>1
  <1>c. CASE Fetch
    BY <1>c DEF Fetch
  <1>2. CASE CheckProvisional \/ RecordProvisional \/ AliasProvisional
    BY <1>2 DEF CheckProvisional, RecordProvisional, AliasProvisional
  <1>3. CASE CountProvisional
    BY <1>3 DEF CountProvisional, OnFill
  <1>4. CASE InsertRow
    BY <1>4 DEF InsertRow, First
  <1>5. CASE FinishIngest
    BY <1>5 DEF FinishIngest, Promote, RecordSibling, First
  <1>6. ASSUME NEW t \in Trades, Ingest(t) PROVE Books'
    <2>1. \/ Promote(t) /\ UNCHANGED ingest
          \/ alias \in Trades /\ RecordSibling(t) /\ UNCHANGED ingest
          \/ ingest' = t /\ UNCHANGED <<rows, lead, alias, applied>>
      BY <1>6 DEF Ingest
    <2>2. t <= executed /\ UNCHANGED <<executed, ack, pending>>
      BY <1>6 DEF Ingest
    <2>3. CASE Promote(t) /\ UNCHANGED ingest
      BY <2>2, <2>3 DEF Promote, First
    <2>4. CASE alias \in Trades /\ RecordSibling(t) /\ UNCHANGED ingest
      <3>1. /\ rows' = rows \cup {t} /\ applied' = applied \cup {t}
            /\ UNCHANGED <<lead, alias, ingest, executed, ack, pending>>
        BY <2>2, <2>4 DEF RecordSibling
      <3>2. lead # None
        BY <2>4
      <3>3. lead' \in rows' \cup {None} /\ pending' \subseteq rows' /\ ack' <= executed'
        BY <3>1
      <3>4. applied' \cap Trades \subseteq rows'
        BY <3>1
      <3>5. \A u \in Trades \cap (rows' \cup {ingest'}) : u <= executed'
        BY <2>2, <3>1
      <3> QED  BY <3>1, <3>2, <3>3, <3>4, <3>5
    <2>5. CASE ingest' = t /\ UNCHANGED <<rows, lead, alias, applied>>
      BY <2>2, <2>5
    <2> QED  BY <2>1, <2>3, <2>4, <2>5
  <1>7. ASSUME NEW t \in Trades, CountTrade(t) PROVE Books'
    BY <1>7 DEF CountTrade, OnFill
  <1>8. ASSUME NEW s \in 0..MaxTrades, SyncFromRest(s) PROVE Books'
    BY <1>8 DEF SyncFromRest
  <1>9. CASE UNCHANGED vars
    BY <1>9 DEF vars
  <1> QED  BY <1>a, <1>b, <1>c, <1>2, <1>3, <1>4, <1>5, <1>6, <1>7, <1>8, <1>9 DEF Next

-----------------------------------------------------------------------------
(* What stands beside the provisional row.                                 *)

LEMMA BesideStep == TypeOK /\ Books /\ Beside /\ [Next]_vars => Beside'
  <1> SUFFICES ASSUME TypeOK, Books, Beside, [Next]_vars PROVE Beside'
    OBVIOUS
  <1> USE FillConstants DEF Beside, Books, TypeOK, Trades, FillIds, order, ledger, cache
  <1>1. CASE Execute \/ AnswerFinished \/ AnswerResting \/ Fetch
    BY <1>1 DEF Execute, AnswerFinished, AnswerResting, Fetch
  <1>2. CASE CheckProvisional
    BY <1>2 DEF CheckProvisional, LoopFree
  <1>3. CASE RecordProvisional \/ AliasProvisional
    BY <1>3 DEF RecordProvisional, AliasProvisional
  <1>4. CASE CountProvisional
    BY <1>4 DEF CountProvisional
  <1>5. CASE InsertRow
    BY <1>5 DEF InsertRow
  <1>6. CASE FinishIngest
    BY <1>6 DEF FinishIngest, Promote, RecordSibling
  <1>7. ASSUME NEW t \in Trades, Ingest(t) PROVE Beside'
    BY <1>7 DEF Ingest, Promote, RecordSibling
  <1>8. ASSUME NEW t \in Trades, CountTrade(t) PROVE Beside'
    BY <1>8 DEF CountTrade
  <1>9. ASSUME NEW s \in 0..MaxTrades, SyncFromRest(s) PROVE Beside'
    BY <1>9 DEF SyncFromRest
  <1>10. CASE UNCHANGED vars
    BY <1>10 DEF vars
  <1> QED  BY <1>1, <1>2, <1>3, <1>4, <1>5, <1>6, <1>7, <1>8, <1>9, <1>10 DEF Next

\* On one loop it is alone.
LEMMA AloneStep ==
    TypeOK /\ Books /\ Beside /\ Alone /\ ~bridge /\ [Next]_vars => Alone'
  <1> SUFFICES ASSUME TypeOK, Books, Beside, Alone, ~bridge, [Next]_vars PROVE Alone'
    OBVIOUS
  <1> USE FillConstants DEF Alone, Window, Beside, Books, TypeOK, Trades, FillIds,
                            order, ledger, cache
  <1>1. CASE Execute \/ AnswerFinished \/ AnswerResting \/ Fetch
    BY <1>1 DEF Execute, AnswerFinished, AnswerResting, Fetch
  <1>2. CASE CheckProvisional
    BY <1>2 DEF CheckProvisional, LoopFree
  <1>3. CASE RecordProvisional \/ AliasProvisional
    BY <1>3 DEF RecordProvisional, AliasProvisional
  <1>4. CASE CountProvisional
    BY <1>4 DEF CountProvisional
  <1>5. CASE InsertRow
    BY <1>5 DEF InsertRow
  <1>6. CASE FinishIngest
    BY <1>6 DEF FinishIngest, Promote, RecordSibling, IngestTurn, LoopFree
  <1>7. ASSUME NEW t \in Trades, Ingest(t) PROVE Alone'
    BY <1>7 DEF Ingest, Promote, RecordSibling, IngestTurn, LoopFree
  <1>8. ASSUME NEW t \in Trades, CountTrade(t) PROVE Alone'
    BY <1>8 DEF CountTrade
  <1>9. ASSUME NEW s \in 0..MaxTrades, SyncFromRest(s) PROVE Alone'
    BY <1>9 DEF SyncFromRest
  <1>10. CASE UNCHANGED vars
    BY <1>10 DEF vars
  <1> QED  BY <1>1, <1>2, <1>3, <1>4, <1>5, <1>6, <1>7, <1>8, <1>9, <1>10 DEF Next

-----------------------------------------------------------------------------
(* What reaches the position.                                              *)

\* The trades an id set names are finitely many.
LEMMA TradesFinite ==
    ASSUME NEW S
    PROVE  IsFiniteSet(S \cap Trades) /\ Cardinality(S \cap Trades) \in Nat
  <1>1. IsFiniteSet(Trades)
    BY FillConstants, FS_Interval DEF Trades
  <1>2. IsFiniteSet(S \cap Trades)
    BY <1>1, FS_Subset
  <1> QED  BY <1>2, FS_CardinalityType

\* More ids name no fewer trades.
LEMMA TradesGrow ==
    ASSUME NEW S, NEW T, S \subseteq T
    PROVE  Cardinality(S \cap Trades) <= Cardinality(T \cap Trades)
  <1>1. S \cap Trades \subseteq T \cap Trades
    OBVIOUS
  <1> QED  BY <1>1, TradesFinite, FS_Subset

\* One trade more counts one more.
LEMMA TradesAdd ==
    ASSUME NEW S, NEW t \in Trades, t \notin S
    PROVE  Cardinality((S \cup {t}) \cap Trades) = Cardinality(S \cap Trades) + 1
  <1>1. (S \cup {t}) \cap Trades = (S \cap Trades) \cup {t}
    OBVIOUS
  <1> QED  BY <1>1, TradesFinite, FS_AddElement

\* The unseen trades are finitely many, and more of them are known of as more
\* ids are applied.
LEMMA DoubledGrows ==
    ASSUME TypeOK, NEW S, NEW T, S \subseteq T
    PROVE  /\ Cardinality(unseen \cap S) \in Nat /\ Cardinality(unseen \cap T) \in Nat
           /\ Cardinality(unseen \cap S) <= Cardinality(unseen \cap T)
           /\ Cardinality(unseen \cap S) <= Cardinality(S \cap Trades)
  <1>1. /\ unseen \cap S = (unseen \cap S) \cap Trades
        /\ unseen \cap T = (unseen \cap T) \cap Trades
    BY DEF TypeOK
  <1>2. unseen \cap S \subseteq unseen \cap T /\ unseen \cap S \subseteq S
    OBVIOUS
  <1>3. /\ Cardinality(unseen \cap S) \in Nat /\ Cardinality(unseen \cap T) \in Nat
    BY <1>1, TradesFinite
  <1>4. Cardinality((unseen \cap S) \cap Trades) <= Cardinality((unseen \cap T) \cap Trades)
    BY <1>2, TradesGrow
  <1>5. Cardinality((unseen \cap S) \cap Trades) <= Cardinality(S \cap Trades)
    BY <1>2, TradesGrow
  <1> QED  BY <1>1, <1>3, <1>4, <1>5

\* While no fill is added the disjunction on mutations stays as it was, as long
\* as the order stays tied.
LEMMA NothingAdded ==
    ASSUME TypeOK, Mutations, credited' = credited, ack' = ack,
           applied \subseteq applied', Tied => Tied' /\ unseen' = unseen
    PROVE  \/ credited' <= Cardinality(applied' \cap Trades)
           \/ credited' <= ack' + Doubled' /\ Tied'
  <1>0. credited \in Nat /\ ack \in Nat
    BY DEF TypeOK
  <1>1. CASE credited <= Cardinality(applied \cap Trades)
    <2>1. /\ Cardinality(applied \cap Trades) \in Nat
          /\ Cardinality(applied' \cap Trades) \in Nat
      BY TradesFinite
    <2>2. Cardinality(applied \cap Trades) <= Cardinality(applied' \cap Trades)
      BY TradesGrow
    <2> QED  BY <1>0, <1>1, <2>1, <2>2
  <1>2. CASE credited <= ack + Doubled /\ Tied
    <2>1. /\ Cardinality(unseen \cap applied) \in Nat
          /\ Cardinality(unseen \cap applied') \in Nat
          /\ Cardinality(unseen \cap applied) <= Cardinality(unseen \cap applied')
      BY DoubledGrows
    <2>2. Doubled = Cardinality(unseen \cap applied) /\ Doubled' = Cardinality(unseen \cap applied')
      BY <1>2 DEF Doubled
    <2>3. credited' <= ack' + Doubled'
      BY <1>0, <1>2, <2>1, <2>2
    <2> QED  BY <1>2, <2>3
  <1> QED  BY <1>1, <1>2 DEF Mutations

\* Nor does the router's claim to a position without other fills, unless it
\* gives the claim up.
LEMMA ClaimKept ==
    ASSUME TypeOK, Mutations, credited' = credited, router' = router,
           applied \subseteq applied', unseen' = unseen, Tied => Tied',
           router = "noted", Prov \notin applied'
    PROVE  credited' <= Doubled' /\ Tied'
  <1>1. credited <= Doubled /\ Tied
    BY DEF Mutations
  <1>2. /\ Cardinality(unseen \cap applied) \in Nat
        /\ Cardinality(unseen \cap applied') \in Nat
        /\ Cardinality(unseen \cap applied) <= Cardinality(unseen \cap applied')
    BY DoubledGrows
  <1>3. Doubled = Cardinality(unseen \cap applied) /\ Doubled' = Cardinality(unseen \cap applied')
    BY DEF Doubled
  <1>4. credited \in Nat
    BY DEF TypeOK
  <1> QED  BY <1>1, <1>2, <1>3, <1>4

LEMMA MutationsStep ==
    TypeOK /\ Books /\ Beside /\ Mutations /\ TypeOK' /\ [Next]_vars => Mutations'
  <1> SUFFICES ASSUME TypeOK, Books, Beside, Mutations, TypeOK', [Next]_vars
               PROVE  Mutations'
    OBVIOUS
  <1> USE FillConstants
  <1>0. credited \in Nat /\ ack \in Nat
    BY DEF TypeOK
  <1>a. CASE Execute \/ Fetch
    <2>1. UNCHANGED <<router, ack, alias, ingest, pending, applied, credited, unseen>>
      BY <1>a DEF Execute, Fetch, order, ledger, cache
    <2> QED  BY <2>1 DEF Mutations, Tied, Doubled
  <1>b. CASE AnswerFinished \/ AnswerResting
    <2>1. /\ router = "sent" /\ router' \in {"acked", "done"}
          /\ UNCHANGED <<applied, credited>>
      BY <1>b DEF AnswerFinished, AnswerResting, cache
    <2> QED  BY <2>1 DEF Mutations, Tied, Window
  <1>c. CASE CheckProvisional
    <2>1. router = "acked" /\ UNCHANGED <<credited, rows, ingest, pending, unseen>>
      BY <1>c DEF CheckProvisional
    <2>2. credited <= Cardinality(applied \cap Trades)
      BY <2>1 DEF Mutations, Tied
    <2>3. CASE lead # None
      <3>1. applied' = applied \cup {Prov} /\ router' = "noted"
        BY <1>c, <2>3 DEF CheckProvisional
      <3>2. applied' \cap Trades = applied \cap Trades
        BY <3>1 DEF Trades
      <3> QED  BY <2>1, <2>2, <3>1, <3>2 DEF Mutations, Window
    <2>4. CASE lead = None
      <3>1. applied' = applied /\ router' = "checked"
        BY <1>c, <2>4 DEF CheckProvisional
      <3>2. rows = {}
        BY <2>1, <2>4 DEF Books, Beside
      <3>3. applied \cap Trades = {} /\ pending = {}
        BY <3>2 DEF Books
      <3> QED  BY <2>1, <2>2, <3>1, <3>3 DEF Mutations
    <2> QED  BY <2>3, <2>4
  <1>d. CASE RecordProvisional
    <2>1. /\ router = "checked" /\ router' = "recorded"
          /\ UNCHANGED <<applied, credited, pending, unseen>>
      BY <1>d DEF RecordProvisional, cache
    <2> QED  BY <2>1 DEF Mutations, Tied, Window
  <1>e. CASE AliasProvisional
    <2>1. /\ router = "recorded" /\ router' = "noted" /\ alias' = Prov
          /\ UNCHANGED <<applied, credited, ack, ingest, pending, unseen>>
      BY <1>e DEF AliasProvisional, cache
    <2>2. /\ applied \cap Trades \subseteq unseen /\ pending \subseteq unseen
          /\ credited <= Cardinality(applied \cap Trades)
      BY <2>1 DEF Mutations, Window, Tied
    <2>3. Tied'
      BY <2>1, <2>2 DEF Tied, TypeOK, Trades
    <2>4. applied \cap Trades = unseen \cap applied
      BY <2>2 DEF TypeOK
    <2>5. credited' <= Doubled' /\ credited' <= Cardinality(applied' \cap Trades)
      BY <2>1, <2>2, <2>4 DEF Doubled
    <2> QED  BY <2>1, <2>3, <2>5 DEF Mutations, Window
  <1>f. CASE CountProvisional
    <2>1. /\ router = "noted" /\ router' = "done" /\ OnFill(Prov, ack)
          /\ UNCHANGED <<ack, alias, ingest, pending, unseen>>
      BY <1>f DEF CountProvisional, ledger
    <2>3. /\ applied' = applied \cup {Prov} /\ credited' \in {credited, credited + ack}
          /\ Prov \in applied => credited' = credited
      BY <1>0, <2>1, OnFillEffect DEF TypeOK
    <2>4. Tied => Tied' /\ unseen' = unseen
      BY <2>1, <2>3 DEF Tied
    <2>5. CASE Prov \in applied
      BY <2>1, <2>3, <2>4, <2>5, NothingAdded DEF Mutations, Window
    <2>6. CASE Prov \notin applied
      <3>1. credited <= Doubled /\ Tied
        BY <2>1, <2>6 DEF Mutations
      <3>2. unseen' \cap applied' = unseen \cap applied
        BY <2>1, <2>3 DEF TypeOK, Trades
      <3>3. Doubled' = Doubled /\ Doubled \in Nat
        BY <3>2, DoubledGrows DEF Doubled
      <3>4. credited' <= ack' + Doubled'
        BY <1>0, <2>1, <2>3, <3>1, <3>3
      <3> QED  BY <2>1, <2>4, <3>1, <3>4 DEF Mutations, Window
    <2> QED  BY <2>5, <2>6
  <1>g. CASE InsertRow
    <2>1. UNCHANGED <<router, ack, alias, ingest, pending, applied, credited, unseen>>
      BY <1>g DEF InsertRow, order, cache
    <2> QED  BY <2>1 DEF Mutations, Tied, Doubled
  <1>h. CASE FinishIngest
    <2>1. /\ ingest \in Trades /\ ingest' = None /\ UNCHANGED <<router, credited, ack>>
          /\ applied' \in {applied, applied \cup {ingest}}
      BY <1>h DEF FinishIngest, Promote, RecordSibling, order, TypeOK, Trades, Books
    <2>2. CASE alias \in {None, ingest}
      <3>1. /\ pending' = pending \cup {ingest} /\ UNCHANGED <<alias, applied>>
            /\ router \in Window => unseen' = unseen \cup {ingest}
        <4>1. router \in Window => alias = None
          BY DEF Beside, Window
        <4>2. alias \notin Trades \ {ingest} /\ alias # Prov
          BY <2>1, <2>2 DEF Trades
        <4> QED  BY <1>h, <4>1, <4>2 DEF FinishIngest, Window
      <3>2. ~Tied
        BY <2>2 DEF Tied
      <3>3. \/ credited' <= Cardinality(applied' \cap Trades)
            \/ credited' <= ack' + Doubled' /\ Tied'
        BY <2>1, <3>1, <3>2, NothingAdded
      <3> QED  BY <2>1, <3>1, <3>2, <3>3 DEF Mutations
    <2>3. CASE alias \notin {None, ingest}
      <3>1. /\ applied' = applied \cup {ingest} /\ pending' \subseteq pending \cup {ingest}
            /\ unseen' = unseen /\ alias' \in Trades
        BY <1>h, <2>1, <2>3 DEF FinishIngest, Promote, RecordSibling, TypeOK, Trades, FillIds
      <3>2. Tied => Tied'
        BY <2>1, <3>1 DEF Tied, Trades
      <3>3. router \notin Window
        BY <2>3 DEF Beside, Window
      <3>4. \/ credited' <= Cardinality(applied' \cap Trades)
            \/ credited' <= ack' + Doubled' /\ Tied'
        BY <2>1, <3>1, <3>2, NothingAdded
      <3>5. ASSUME router = "noted", Prov \notin applied' PROVE credited' <= Doubled' /\ Tied'
        BY <2>1, <3>1, <3>2, <3>5, ClaimKept
      <3> QED  BY <2>1, <3>3, <3>4, <3>5 DEF Mutations
    <2> QED  BY <2>2, <2>3
  <1>i. ASSUME NEW t \in Trades, Ingest(t) PROVE Mutations'
    <2>1. /\ ingest = None /\ UNCHANGED <<router, credited, ack, pending, unseen>>
          /\ applied \subseteq applied'
      BY <1>i DEF Ingest, Promote, RecordSibling, order
    <2>2. Tied => Tied'
      <3>1. alias # None => alias' \in Trades /\ ingest' = None
        BY <1>i, <2>1 DEF Ingest, Promote, RecordSibling, Trades
      <3> QED  BY <2>1, <3>1 DEF Tied, Trades
    <2>3. \/ credited' <= Cardinality(applied' \cap Trades)
          \/ credited' <= ack' + Doubled' /\ Tied'
      BY <2>1, <2>2, NothingAdded
    <2>4. ASSUME router = "noted", Prov \notin applied' PROVE credited' <= Doubled' /\ Tied'
      BY <2>1, <2>2, <2>4, ClaimKept
    <2>5. router \in Window => applied' = applied
      <3>1. router \in Window => alias = None
        BY DEF Beside, Window
      <3> QED  BY <1>i, <3>1 DEF Ingest, Trades
    <2> QED  BY <2>1, <2>3, <2>4, <2>5 DEF Mutations
  <1>j. ASSUME NEW t \in Trades, CountTrade(t) PROVE Mutations'
    <2>1. /\ t \in pending /\ pending' = pending \ {t} /\ OnFill(t, 1)
          /\ UNCHANGED <<router, ack, alias, ingest, unseen>>
      BY <1>j DEF CountTrade, order, ledger
    <2>2. /\ applied' = applied \cup {t} /\ credited' \in {credited, credited + 1}
          /\ t \in applied => credited' = credited
      BY <2>1, OnFillEffect DEF TypeOK
    <2>3. Tied => Tied' /\ (t \in applied \/ t \in unseen)
      BY <2>1, <2>2 DEF Tied
    <2>4. router \in Window => applied' \cap Trades \subseteq unseen' /\ pending' \subseteq unseen'
      BY <2>1, <2>2 DEF Mutations
    <2>5. CASE t \in applied
      <3>1. \/ credited' <= Cardinality(applied' \cap Trades)
            \/ credited' <= ack' + Doubled' /\ Tied'
        BY <2>1, <2>2, <2>3, <2>5, NothingAdded
      <3>2. ASSUME router = "noted", Prov \notin applied' PROVE credited' <= Doubled' /\ Tied'
        BY <2>1, <2>2, <2>3, <2>5, <3>2, ClaimKept
      <3> QED  BY <2>1, <2>4, <3>1, <3>2 DEF Mutations
    <2>6. CASE t \notin applied
      <3>1. credited <= Cardinality(applied \cap Trades)
               => credited' <= Cardinality(applied' \cap Trades)
        <4>1. Cardinality(applied \cap Trades) \in Nat
          BY TradesFinite
        <4>2. Cardinality((applied \cup {t}) \cap Trades)
                = Cardinality(applied \cap Trades) + 1
          BY <2>6, TradesAdd
        <4> QED  BY <1>0, <2>2, <4>1, <4>2
      <3>2. Tied => Doubled' = Doubled + 1 /\ Doubled \in Nat
        <4>1. t \in unseen => (unseen \cap applied) \cup {t} = unseen' \cap applied'
          BY <2>1, <2>2
        <4>2. unseen \cap applied = (unseen \cap applied) \cap Trades
          BY DEF TypeOK
        <4>3. IsFiniteSet(unseen \cap applied) /\ Doubled \in Nat
          BY <4>2, TradesFinite DEF Doubled
        <4>4. t \notin unseen \cap applied
          BY <2>6
        <4>5. Cardinality((unseen \cap applied) \cup {t}) = Cardinality(unseen \cap applied) + 1
          BY <4>3, <4>4, FS_AddElement
        <4> QED  BY <2>3, <2>6, <4>1, <4>3, <4>5 DEF Doubled
      <3>3. credited <= ack + Doubled /\ Tied => credited' <= ack' + Doubled' /\ Tied'
        BY <1>0, <2>1, <2>2, <2>3, <3>2
      <3>4. credited <= Doubled /\ Tied => credited' <= Doubled' /\ Tied'
        BY <1>0, <2>2, <2>3, <3>2
      <3>5. Prov \notin applied' => Prov \notin applied
        BY <2>2
      <3> QED  BY <2>1, <2>4, <3>1, <3>3, <3>4, <3>5 DEF Mutations
    <2> QED  BY <2>5, <2>6
  <1>k. ASSUME NEW s \in 0..MaxTrades, SyncFromRest(s) PROVE Mutations'
    <2>1. /\ UNCHANGED <<router, ack, alias, ingest, pending, unseen>>
          /\ router \notin Window
      BY <1>k DEF SyncFromRest, order, ledger, LoopFree, Window
    <2>2. applied \subseteq applied' /\ credited' = credited
      BY <1>k, SyncEffect DEF TypeOK
    <2>3. Tied => Tied'
      BY <2>1, <2>2 DEF Tied
    <2>4. \/ credited' <= Cardinality(applied' \cap Trades)
          \/ credited' <= ack' + Doubled' /\ Tied'
      BY <2>1, <2>2, <2>3, NothingAdded
    <2>5. ASSUME router = "noted", Prov \notin applied' PROVE credited' <= Doubled' /\ Tied'
      BY <2>1, <2>2, <2>3, <2>5, ClaimKept
    <2> QED  BY <2>1, <2>4, <2>5 DEF Mutations
  <1>l. CASE UNCHANGED vars
    BY <1>l DEF vars, order, ledger, cache, Mutations, Tied, Doubled
  <1> QED  BY <1>a, <1>b, <1>c, <1>d, <1>e, <1>f, <1>g, <1>h, <1>i, <1>j, <1>k, <1>l DEF Next

-----------------------------------------------------------------------------
(* The theorems.                                                           *)

LEMMA FillInvHolds == Spec => []FillInv
  <1>1. Init => FillInv
    <2> SUFFICES ASSUME Init PROVE FillInv
      OBVIOUS
    <2>1. TypeOK
      <3>1. 0 \in 0..MaxTrades
        BY FillConstants
      <3> QED  BY <3>1 DEF Init, TypeOK
    <2>2. Books
      <3>1. \A t \in Trades \cap (rows \cup {ingest}) : FALSE
        BY FillConstants DEF Init, Trades
      <3> QED  BY <3>1, FillConstants DEF Init, Books, Trades
    <2>3. Beside /\ Alone
      BY DEF Init, Beside, Alone, Window
    <2>4. Mutations
      <3>1. Cardinality(applied \cap Trades) \in Nat
        BY TradesFinite
      <3> QED  BY <3>1 DEF Init, Mutations, Window
    <2> QED  BY <2>1, <2>2, <2>3, <2>4 DEF FillInv
  <1>2. FillInv /\ [Next]_vars => FillInv'
    <2>1. [Next]_vars => bridge' = bridge
      BY DEF Next, vars, Execute, AnswerFinished, AnswerResting, Fetch, CheckProvisional,
             RecordProvisional, AliasProvisional, CountProvisional, InsertRow, FinishIngest,
             Ingest, CountTrade, SyncFromRest, order
    <2> QED  BY <2>1, TypedStep, BooksStep, BesideStep, AloneStep, MutationsStep DEF FillInv
  <1> QED  BY <1>1, <1>2, PTL DEF Spec

\* Every run of the spec stays in the types, however many trades there are.
THEOREM FillTypeOK == Spec => []TypeOK
  <1>1. FillInv => TypeOK
    BY DEF FillInv
  <1> QED  BY <1>1, FillInvHolds, PTL

\* No trade stands beside a provisional row, but the one the thread is about to
\* merge and those it brought in between the router's look and its note
\* (_suppress_duplicate_live_router, _promote_live_router_fill).
THEOREM ProvisionalStandsAlone == Spec => []OneRecordPerLot
  <1>1. FillInv => OneRecordPerLot
    <2> SUFFICES ASSUME FillInv, Prov \in rows
                 PROVE  rows \subseteq {Prov} \cup Slipped \cup (IF bridge THEN {ingest} ELSE {})
      BY DEF OneRecordPerLot
    <2>1. rows \subseteq {Prov, ingest} \cup unseen
      BY DEF FillInv, Beside
    <2>2. CASE bridge
      BY <2>1, <2>2 DEF Slipped
    <2>3. CASE ~bridge
      <3>1. unseen = {} /\ ingest = None /\ None \notin rows
        BY <2>3, FillConstants DEF FillInv, Alone, TypeOK, FillIds, Trades
      <3> QED  BY <2>1, <2>3, <3>1 DEF Slipped
    <2> QED  BY <2>2, <2>3
  <1> QED  BY <1>1, FillInvHolds, PTL

\* The router and the exchange's trades together never add more to the position
\* than was executed, and one lot more for each trade that came in unseen.
THEOREM OneMutationPerLot == Spec => []NeverCreditedTwice
  <1>1. FillInv => NeverCreditedTwice
    <2> SUFFICES ASSUME FillInv PROVE credited <= executed + Cardinality(Slipped)
      BY DEF NeverCreditedTwice
    <2>1. credited \in Nat /\ ack \in Nat /\ executed \in Nat /\ ack <= executed
      BY FillConstants DEF FillInv, TypeOK, Books
    <2>2. Slipped = unseen /\ unseen = unseen \cap Trades
      BY DEF FillInv, Alone, Slipped, TypeOK
    <2>3. Cardinality(unseen) \in Nat
      BY <2>2, TradesFinite
    <2>4. CASE credited <= ack + Doubled
      <3>1. /\ unseen \cap applied = (applied \cap unseen) \cap Trades
            /\ unseen = unseen \cap Trades
        BY <2>2
      <3>2. Cardinality((applied \cap unseen) \cap Trades) <= Cardinality(unseen \cap Trades)
        BY TradesGrow
      <3>3. Doubled \in Nat /\ Doubled <= Cardinality(unseen)
        BY <3>1, <3>2, TradesFinite DEF Doubled
      <3> QED  BY <2>1, <2>2, <2>3, <2>4, <3>3
    <2>5. CASE credited <= Cardinality(applied \cap Trades)
      <3>1. applied \cap Trades \subseteq 1..executed
        BY <2>1, FillConstants DEF FillInv, Books, Trades
      <3>2. IsFiniteSet(1..executed) /\ Cardinality(1..executed) = executed
        BY <2>1, FS_Interval
      <3>3. Cardinality(applied \cap Trades) <= executed
        BY <3>1, <3>2, FS_Subset
      <3>4. Cardinality(applied \cap Trades) \in Nat
        BY TradesFinite
      <3>5. credited <= executed + Cardinality(unseen)
        BY <2>1, <2>3, <2>5, <3>3, <3>4
      <3> QED  BY <2>2, <3>5
    <2> QED  BY <2>4, <2>5 DEF FillInv, Mutations
  <1> QED  BY <1>1, FillInvHolds, PTL
=============================================================================
