-------------------------- MODULE EntryGuardProofs --------------------------
(***************************************************************************)
(* Theorems about EntryGuard, for any set of entries, of any size, and any *)
(* number of re-quotes.  Everything follows from who holds the key: an     *)
(* entry that has an open order, a running route, or an order the monitor  *)
(* watches holds the key's record, and there is one record; an order whose *)
(* record was dropped by age is the exception, and is known as such.       *)
(***************************************************************************)
EXTENDS EntryGuard, FiniteSetTheorems, TLAPS

-----------------------------------------------------------------------------
(* The inductive invariant.                                                *)

Holding == \A e \in Entries :
    /\ Open(e) => Held(e) \/ e \in pruned
    /\ route[e] \in Running => Held(e)
    /\ e \in resting \/ polled = e => Held(e) /\ route[e] = "done" /\ canon.submitted
    /\ Held(e) /\ canon.status = "pending"
          => route[e] \in {"validated", "gated", "wire", "resetting", "cut"}
    /\ e \in pruned => Over(e) /\ ~Held(e)
    /\ route[e] \in {"new", "validated", "gated"} => order[e] = "none"
    /\ route[e] \in {"asking", "acked"} => canon.submitted
    /\ reply[e] = "refused" => order[e] = "refused"
    /\ reply[e] = "dead" => order[e] = "dead"

KeyInv == TypeOK /\ Holding

-----------------------------------------------------------------------------
(* What the operations do to the record.                                   *)

\* A record is no entry's but its own.
LEMMA OneHolder == ASSUME NEW e, NEW f, Held(e), Held(f) PROVE e = f
  BY DEF Held

\* The marks keep the holder and the count.
LEMMA MarkEffect ==
    ASSUME TypeOK, NEW e \in Entries,
           MarkSubmitted(e) \/ MarkExecuted(e) \/ MarkReconciliation(e)
    PROVE  /\ canon' \in Records \cup {NoRecord}
           /\ canon'.entry = canon.entry /\ released' = released
           /\ canon.submitted => canon'.submitted
           /\ Held(e) => canon'.status # "pending"
           /\ ~Held(e) => canon' = canon
           /\ Held(e) /\ ~MarkReconciliation(e) => canon'.submitted
  <1>1. CASE ~Held(e)
    BY <1>1 DEF MarkSubmitted, MarkExecuted, MarkReconciliation, TypeOK
  <1>2. CASE Held(e)
    <2>1. canon \in Records
      BY <1>2, EntryConstants DEF TypeOK, Held, NoRecord
    <2> QED  BY <1>2, <2>1 DEF MarkSubmitted, MarkExecuted, MarkReconciliation, Records
  <1> QED  BY <1>1, <1>2

\* A release empties the key and counts a submitted record, or does nothing.
LEMMA ReleaseEffect ==
    ASSUME TypeOK, NEW e \in Entries,
           Release(e) \/ SubmitAndRelease(e) \/ (Held(e) /\ ReleaseKey)
    PROVE  /\ canon' \in {canon, NoRecord}
           /\ released' \in {released, released + 1}
           /\ canon' = canon => released' = released
           /\ canon' # canon => Held(e) /\ (canon.submitted => released' = released + 1)
           /\ Held(e) => canon' = NoRecord \/ canon.status = "filled"
           /\ canon' # canon /\ SubmitAndRelease(e) => released' = released + 1
  <1>1. Held(e) => canon # NoRecord /\ canon.entry # NoEntry
    BY EntryConstants DEF Held, NoRecord
  <1>2. released \in Nat /\ released + 1 # released
    BY DEF TypeOK
  <1>3. CASE ~Held(e)
    BY <1>3 DEF Release, SubmitAndRelease, records
  <1>4. CASE Held(e) /\ UNCHANGED records /\ canon.status = "filled"
    <2>1. canon' = canon /\ released' = released
      BY <1>4 DEF records
    <2> QED  BY <2>1, <1>4
  <1>5. CASE Held(e) /\ Remove(canon.submitted)
    <2>1. ~SubmitAndRelease(e) \/ released' = released + 1
      BY <1>5 DEF SubmitAndRelease, Remove
    <2> QED  BY <1>1, <1>2, <1>5, <2>1 DEF Remove
  <1>6. CASE Held(e) /\ Remove(TRUE)
    BY <1>1, <1>2, <1>6 DEF Remove
  <1>7. Held(e) => \/ UNCHANGED records /\ canon.status = "filled"
                   \/ Remove(canon.submitted)
                   \/ Remove(TRUE)
    BY <1>1 DEF Release, SubmitAndRelease, ReleaseKey
  <1> QED  BY <1>3, <1>4, <1>5, <1>6, <1>7
-----------------------------------------------------------------------------
(* Types.                                                                  *)

LEMMA InitTyped == Init => TypeOK
  BY DEF Init, TypeOK, InFlight, Closed, Order, Seen

\* Every action keeps the types.
LEMMA NextTyped == TypeOK /\ [Next]_vars => TypeOK'
  <1> SUFFICES ASSUME TypeOK, [Next]_vars PROVE TypeOK'
    OBVIOUS
  <1>1. CASE UNCHANGED vars
    BY <1>1 DEF TypeOK, vars, records, exchange, monitor
  <1>2. ASSUME NEW e \in Entries, UNCHANGED pruned, Validate(e) PROVE TypeOK'
    <2>1. [entry |-> e, status |-> "pending", submitted |-> FALSE] \in Records
      BY DEF Records
    <2>2. canon' \in Records \cup {NoRecord}
      BY <1>2, <2>1 DEF Validate, TypeOK
    <2> QED  BY <1>2, <2>2 DEF Validate, Become, exchange, monitor, TypeOK
  <1>3. ASSUME NEW e \in Entries, UNCHANGED pruned,
               PassGate(e) \/ Send(e) \/ SweepPending(e) \/ TimeOut(e) \/ CutOff(e)
        PROVE  TypeOK'
    BY <1>3 DEF PassGate, Send, SweepPending, TimeOut, CutOff, Become, records, exchange, monitor,
                TypeOK, InFlight, Closed, Order
  <1>4. ASSUME NEW e \in Entries, UNCHANGED pruned,
               SyntheticSuccess(e) \/ GiveUp(e) \/ CleanUp(e) \/ RecordFill(e) \/ Ambiguous(e)
        PROVE  TypeOK'
    <2>1. MarkSubmitted(e) \/ MarkExecuted(e) \/ MarkReconciliation(e)
      BY <1>4 DEF SyntheticSuccess, GiveUp, CleanUp, RecordFill, Ambiguous
    <2>2. canon' \in Records \cup {NoRecord} /\ released' \in Nat
      BY <2>1, MarkEffect DEF TypeOK
    <2> QED  BY <1>4, <2>2 DEF SyntheticSuccess, GiveUp, CleanUp, RecordFill, Ambiguous, Become,
                               exchange, monitor, TypeOK, InFlight, Closed
  <1>5. ASSUME NEW e \in Entries, UNCHANGED pruned, Refuse(e) PROVE TypeOK'
    <2>1. canon' \in Records \cup {NoRecord} /\ released' \in Nat
      BY <1>5, ReleaseEffect DEF Refuse, TypeOK
    <2> QED  BY <1>5, <2>1 DEF Refuse, Become, exchange, monitor, TypeOK, InFlight, Closed
  <1>6. ASSUME NEW e \in Entries, UNCHANGED pruned, Answered(e) \/ Reconciled(e) PROVE TypeOK'
    <2>1. \/ Release(e) \/ SubmitAndRelease(e)
          \/ MarkSubmitted(e) \/ MarkExecuted(e) \/ MarkReconciliation(e)
      BY <1>6 DEF Answered, Reconciled
    <2>2. canon' \in Records \cup {NoRecord} /\ released' \in Nat
      BY <2>1, ReleaseEffect, MarkEffect DEF TypeOK
    <2> QED  BY <1>6, <2>2 DEF Answered, Reconciled, Become, exchange, monitor, TypeOK,
                               InFlight, Closed
  <1>7. ASSUME NEW e \in Entries, UNCHANGED pruned, PollOrder(e) \/ RecheckCancel(e) \/ Exchange(e)
        PROVE  TypeOK'
    BY <1>7 DEF PollOrder, RecheckCancel, Exchange, records, exchange, monitor, TypeOK,
                Order, Seen
  <1>8. ASSUME NEW e \in Entries, UNCHANGED pruned, PollAnswer(e) PROVE TypeOK'
    <2>1. canon' \in Records \cup {NoRecord} /\ released' \in Nat
      BY <1>8 DEF PollAnswer, ReleaseKey, Remove, records, TypeOK
    <2> QED  BY <1>8, <2>1 DEF PollAnswer, exchange, TypeOK
  <1>9. ASSUME NEW e \in Entries, Prune(e) PROVE TypeOK'
    BY <1>9 DEF Prune, exchange, monitor, TypeOK
  <1> QED  BY <1>1, <1>2, <1>3, <1>4, <1>5, <1>6, <1>7, <1>8, <1>9
           DEF Next, RouteStep, Elsewhere

\* The types hold throughout.
THEOREM EntryTypeOK == Spec => []TypeOK
  <1> QED  BY InitTyped, NextTyped, PTL DEF Spec
-----------------------------------------------------------------------------
(* Who holds the key.                                                      *)

LEMMA InitHolds == Init => Holding
  BY EntryConstants DEF Init, Holding, Open, Held, NoRecord, Running

\* After the release of its own record an entry must have nothing left that
\* asks for it: no open order, no running route, no monitored order.
LEMMA ReleaseHolds ==
    ASSUME TypeOK, Holding, NEW e \in Entries, Held(e), canon' = NoRecord,
           ~Open(e)', route'[e] \notin Running, route'[e] # "new",
           e \notin resting', polled' # e,
           reply'[e] = "refused" => order'[e] = "refused",
           reply'[e] = "dead" => order'[e] = "dead", UNCHANGED pruned,
           \A f \in Entries \ {e} : /\ order'[f] = order[f] /\ route'[f] = route[f]
                                    /\ reply'[f] = reply[f]
                                    /\ f \in resting' => f \in resting
                                    /\ polled' = f => polled = f
    PROVE  Holding'
  <1>1. \A f \in Entries \ {e} : ~Held(f)
    BY DEF Held
  <1>2. \A f \in Entries : ~Held(f)'
    BY EntryConstants DEF Held, NoRecord
  <1> SUFFICES ASSUME NEW f \in Entries
               PROVE  /\ Open(f)' => f \in pruned
                      /\ f \in pruned => Over(f)'
                      /\ route'[f] \notin Running
                      /\ f \notin resting' /\ polled' # f
                      /\ route'[f] \in {"new", "validated", "gated"} => order'[f] = "none"
                      /\ reply'[f] = "refused" => order'[f] = "refused"
                      /\ reply'[f] = "dead" => order'[f] = "dead"
    BY <1>2 DEF Holding, Running
  <1>3. CASE f = e
    BY <1>3 DEF Running, Holding
  <1>4. CASE f # e
    BY <1>1, <1>4 DEF Holding, Open, Over
  <1> QED  BY <1>3, <1>4

\* A mark of the holder's record, which keeps its holder and what was said of
\* its submission, and leaves it pending nowhere.
LEMMA MarkHolds ==
    ASSUME TypeOK, Holding, NEW e \in Entries, Held(e),
           MarkSubmitted(e) \/ MarkExecuted(e) \/ MarkReconciliation(e),
           route'[e] \in {"asking", "acked", "done"},
           route'[e] # "done" => ~MarkReconciliation(e),
           resting' \in {resting, resting \cup {e}},
           resting' # resting => route'[e] = "done" /\ ~MarkReconciliation(e),
           route[e] # "done",
           UNCHANGED <<order, reply, polled, pruned>>,
           \A f \in Entries \ {e} : route'[f] = route[f]
    PROVE  Holding'
  <1>1. /\ canon'.entry = canon.entry
        /\ canon.submitted => canon'.submitted
        /\ canon'.status # "pending"
        /\ ~MarkReconciliation(e) => canon'.submitted
    BY MarkEffect
  <1>2. \A f \in Entries : Held(f)' <=> f = e
    BY <1>1 DEF Held
  <1> SUFFICES ASSUME NEW f \in Entries
               PROVE  /\ Open(f)' => Held(f)' \/ f \in pruned
                      /\ f \in pruned => Over(f)' /\ ~Held(f)'
                      /\ route'[f] \in Running => Held(f)'
                      /\ f \in resting' \/ polled' = f
                            => Held(f)' /\ route'[f] = "done" /\ canon'.submitted
                      /\ route'[f] \in {"new", "validated", "gated"} => order'[f] = "none"
                      /\ route'[f] \in {"asking", "acked"} => canon'.submitted
                      /\ reply'[f] = "refused" => order'[f] = "refused"
                      /\ reply'[f] = "dead" => order'[f] = "dead"
    BY <1>1 DEF Holding
  <1>3. CASE f = e
    <2>1. e \notin resting /\ polled # e
      BY DEF Holding
    <2> QED  BY <1>1, <1>2, <1>3, <2>1 DEF Holding
  <1>4. CASE f # e
    BY <1>1, <1>2, <1>4 DEF Holding, Open, Held, Over
  <1> QED  BY <1>3, <1>4

\* A record that has executed survives its release: nothing changes but the
\* route, which ends.
LEMMA StayHolds ==
    ASSUME TypeOK, Holding, NEW e \in Entries, Held(e), canon' = canon,
           canon.status # "pending", route'[e] = "done",
           resting' \subseteq resting, polled' \in {polled, NoEntry},
           UNCHANGED <<order, reply, pruned>>,
           \A f \in Entries \ {e} : route'[f] = route[f]
    PROVE  Holding'
  <1> SUFFICES ASSUME NEW f \in Entries
               PROVE  /\ Open(f)' => Held(f)' \/ f \in pruned
                      /\ f \in pruned => Over(f)' /\ ~Held(f)'
                      /\ route'[f] \in Running => Held(f)'
                      /\ f \in resting' \/ polled' = f
                            => Held(f)' /\ route'[f] = "done" /\ canon'.submitted
                      /\ route'[f] \in {"new", "validated", "gated"} => order'[f] = "none"
                      /\ route'[f] \in {"asking", "acked"} => canon'.submitted
                      /\ reply'[f] = "refused" => order'[f] = "refused"
                      /\ reply'[f] = "dead" => order'[f] = "dead"
    BY DEF Holding
  <1>1. polled' = f => polled = f
    BY EntryConstants
  <1>2. CASE f = e
    BY <1>1, <1>2 DEF Holding, Held, Running
  <1>3. CASE f # e
    BY <1>1, <1>3 DEF Holding, Open, Held, Over
  <1> QED  BY <1>2, <1>3

\* Every action keeps the key with those who need it.
LEMMA NextHolds == KeyInv /\ [Next]_vars => Holding'
  <1> SUFFICES ASSUME TypeOK, Holding, [Next]_vars PROVE Holding'
    BY DEF KeyInv
  <1>1. CASE UNCHANGED vars
    BY <1>1 DEF Holding, Open, Held, vars, records, exchange, monitor, Over
  <1>2. ASSUME NEW e \in Entries, UNCHANGED pruned, Validate(e) PROVE Holding'
    <2>1. /\ route[e] = "new" /\ route' = [route EXCEPT ![e] = route'[e]]
          /\ UNCHANGED <<order, reply, resting, polled, pruned>>
      BY <1>2 DEF Validate, Become, exchange, monitor, TypeOK
    <2>2. CASE Admits
      <3>1. canon'.entry = e /\ canon'.status = "pending" /\ route'[e] = "validated"
        BY <1>2, <2>2 DEF Validate, Become, TypeOK
      <3>2. \A f \in Entries : ~Held(f)
        BY <2>2, EntryConstants DEF Admits, Held
      <3> QED  BY <2>1, <3>1, <3>2 DEF Holding, Open, Held, Running, Over, TypeOK
    <2>3. CASE ~Admits
      <3>1. canon' = canon /\ route'[e] = "done"
        BY <1>2, <2>3 DEF Validate, Become, TypeOK
      <3> QED  BY <2>1, <3>1 DEF Holding, Open, Held, Running, Over, TypeOK
    <2> QED  BY <2>2, <2>3
  <1>3. ASSUME NEW e \in Entries, UNCHANGED pruned, PassGate(e) \/ SweepPending(e)
        PROVE  Holding'
    BY <1>3 DEF PassGate, SweepPending, Become, records, exchange, monitor, TypeOK,
                Holding, Open, Held, Running, Over
  <1>4. ASSUME NEW e \in Entries, UNCHANGED pruned, Send(e) PROVE Holding'
    BY <1>4 DEF Send, Become, records, monitor, TypeOK, Holding, Open, Held, Running, Over
  <1>5. ASSUME NEW e \in Entries, UNCHANGED pruned,
               SyntheticSuccess(e) \/ GiveUp(e) \/ RecordFill(e) \/ Ambiguous(e)
        PROVE  Holding'
    <2>1. /\ route[e] \in Running /\ route'[e] \in {"asking", "done"}
          /\ MarkSubmitted(e) \/ MarkExecuted(e) \/ MarkReconciliation(e)
          /\ route'[e] # "done" => MarkSubmitted(e)
          /\ \A f \in Entries \ {e} : route'[f] = route[f]
          /\ UNCHANGED <<order, reply, resting, polled, pruned>>
      BY <1>5 DEF SyntheticSuccess, GiveUp, RecordFill, Ambiguous, Become, exchange,
                  monitor, TypeOK, Running
    <2>2. Held(e) /\ route[e] # "done"
      BY <2>1 DEF Holding, Running
    <2>3. MarkSubmitted(e) => ~MarkReconciliation(e)
      <3>1. canon \in Records
        BY <2>2, EntryConstants DEF TypeOK, Held, NoRecord
      <3> QED  BY <2>2, <3>1 DEF MarkSubmitted, MarkReconciliation, Records
    <2> QED  BY <2>1, <2>2, <2>3, MarkHolds
  <1>6. ASSUME NEW e \in Entries, UNCHANGED pruned, Refuse(e) PROVE Holding'
    <2>1. /\ route[e] \in {"validated", "gated"} /\ route'[e] = "done"
          /\ \A f \in Entries \ {e} : route'[f] = route[f]
          /\ UNCHANGED <<order, reply, resting, polled, pruned>>
      BY <1>6 DEF Refuse, Become, exchange, monitor, TypeOK
    <2>2. /\ Held(e) /\ order[e] = "none" /\ e \notin resting /\ polled # e
      BY <2>1 DEF Holding, Running
    <2>3. CASE canon' = NoRecord
      BY <2>1, <2>2, <2>3, ReleaseHolds DEF Holding, Open, Running
    <2>4. CASE canon' = canon /\ canon.status = "filled"
      BY <2>1, <2>2, <2>4, StayHolds
    <2> QED  BY <1>6, <2>2, <2>3, <2>4, ReleaseEffect DEF Refuse
  <1>7. ASSUME NEW e \in Entries, UNCHANGED pruned, Answered(e) PROVE Holding'
    <2>1. /\ route[e] = "wire" /\ \A f \in Entries \ {e} : route'[f] = route[f]
          /\ UNCHANGED <<order, reply, polled, pruned>>
      BY <1>7 DEF Answered, Become, exchange, TypeOK
    <2>2. Held(e) /\ e \notin resting /\ polled # e
      BY <2>1 DEF Holding, Running
    <2>3. MarkSubmitted(e) => ~MarkReconciliation(e)
      <3>1. canon \in Records
        BY <2>2, EntryConstants DEF TypeOK, Held, NoRecord
      <3> QED  BY <2>2, <3>1 DEF MarkSubmitted, MarkReconciliation, Records
    <2>4. CASE reply[e] \in {"refused", "dead"}
      <3>1. /\ route'[e] = "done" /\ resting' = resting
            /\ Release(e) \/ SubmitAndRelease(e)
        BY <1>7, <2>4 DEF Answered, Become, TypeOK
      <3>2. order[e] = reply[e]
        BY <2>4 DEF Holding
      <3>3. CASE canon' = NoRecord
        BY <2>1, <2>2, <2>4, <3>1, <3>2, <3>3, ReleaseHolds DEF Holding, Open, Running
      <3>4. CASE canon' = canon /\ canon.status = "filled"
        BY <2>1, <2>2, <3>1, <3>4, StayHolds
      <3> QED  BY <2>2, <3>1, <3>3, <3>4, ReleaseEffect
    <2>5. CASE reply[e] = "resting"
      <3>1. route'[e] = "done" /\ MarkSubmitted(e) /\ resting' = resting \cup {e}
        BY <1>7, <2>5 DEF Answered, Become, TypeOK
      <3> QED  BY <2>1, <2>2, <2>3, <3>1, MarkHolds
    <2>6. CASE reply[e] = "filled"
      <3>1. route'[e] = "acked" /\ MarkSubmitted(e) /\ resting' = resting
        BY <1>7, <2>6 DEF Answered, Become, TypeOK
      <3> QED  BY <2>1, <2>2, <2>3, <3>1, MarkHolds
    <2> QED  BY <1>7, <2>4, <2>5, <2>6 DEF Answered
  <1>8. ASSUME NEW e \in Entries, UNCHANGED pruned, Reconciled(e) PROVE Holding'
    <2>1. /\ route[e] = "asking" /\ route'[e] = "done"
          /\ \A f \in Entries \ {e} : route'[f] = route[f]
          /\ UNCHANGED <<order, reply, resting, polled, pruned>>
      BY <1>8 DEF Reconciled, Become, exchange, monitor, TypeOK
    <2>2. Held(e) /\ e \notin resting /\ polled # e
      BY <2>1 DEF Holding, Running
    <2>3. CASE order[e] = "dead" /\ Release(e)
      <3>1. CASE canon' = NoRecord
        BY <2>1, <2>2, <2>3, <3>1, ReleaseHolds DEF Holding, Open, Running
      <3>2. CASE canon' = canon /\ canon.status = "filled"
        BY <2>1, <2>2, <3>2, StayHolds
      <3> QED  BY <2>2, <2>3, <3>1, <3>2, ReleaseEffect
    <2>4. CASE MarkSubmitted(e) \/ MarkExecuted(e) \/ MarkReconciliation(e)
      BY <2>1, <2>2, <2>4, MarkHolds
    <2> QED  BY <1>8, <2>3, <2>4 DEF Reconciled
  <1>9. ASSUME NEW e \in Entries, UNCHANGED pruned, PollOrder(e) PROVE Holding'
    BY <1>9, EntryConstants DEF PollOrder, records, exchange, TypeOK, Holding, Open, Held, Over
  <1>10. ASSUME NEW e \in Entries, UNCHANGED pruned, PollAnswer(e) PROVE Holding'
    <2>1. /\ polled = e /\ polled' = NoEntry /\ resting' \subseteq resting
          /\ UNCHANGED <<route, order, reply, pruned>>
      BY <1>10 DEF PollAnswer, exchange
    <2>2. Held(e) /\ route[e] = "done" /\ NoEntry # e
      BY <2>1, EntryConstants DEF Holding
    <2>3. canon.status # "pending"
      BY <2>2 DEF Holding
    <2>4. CASE canon' = canon
      BY <2>1, <2>2, <2>3, <2>4, StayHolds
    <2>5. CASE canon' # canon
      <3>1. order[e] = "dead" /\ ReleaseKey /\ e \notin resting'
        BY <1>10, <2>5 DEF PollAnswer, records
      <3>2. canon' = NoRecord
        BY <2>2, <2>5, <3>1, ReleaseEffect
      <3>3. /\ ~Open(e)' /\ route'[e] \notin Running /\ route'[e] # "new" /\ polled' # e
            /\ reply'[e] = "refused" => order'[e] = "refused"
            /\ reply'[e] = "dead" => order'[e] = "dead"
        BY <2>1, <2>2, <3>1 DEF Holding, Open, Running
      <3>4. \A f \in Entries : polled' = f => polled = f
        BY <2>1, EntryConstants
      <3> QED  BY <2>1, <2>2, <3>1, <3>2, <3>3, <3>4, ReleaseHolds
    <2> QED  BY <2>4, <2>5
  <1>11. ASSUME NEW e \in Entries, UNCHANGED pruned, RecheckCancel(e) PROVE Holding'
    <2>1. /\ e \in resting /\ order[e] \in Seen /\ resting' \subseteq resting
          /\ order' = [order EXCEPT ![e] = order'[e]]
          /\ order'[e] = order[e] \/ (order[e] = "resting" /\ order'[e] = "dead")
          /\ UNCHANGED <<canon, route, reply, polled, pruned>>
      BY <1>11 DEF RecheckCancel, records, TypeOK
    <2>2. Held(e) /\ route[e] = "done"
      BY <2>1 DEF Holding
    <2> QED  BY <2>1, <2>2 DEF Holding, Open, Held, TypeOK, Over
  <1>12. ASSUME NEW e \in Entries, UNCHANGED pruned, Exchange(e) PROVE Holding'
    BY <1>12 DEF Exchange, records, monitor, TypeOK, Holding, Open, Held, Seen, Over
  <1>13. ASSUME NEW e \in Entries, UNCHANGED pruned, TimeOut(e) \/ CutOff(e) PROVE Holding'
    BY <1>13 DEF TimeOut, CutOff, Become, records, exchange, monitor, TypeOK,
                 Holding, Open, Held, Running, Over
  <1>14. ASSUME NEW e \in Entries, UNCHANGED pruned, CleanUp(e) PROVE Holding'
    <2>1. /\ route[e] = "resetting" /\ route'[e] = "done" /\ MarkReconciliation(e)
          /\ \A f \in Entries \ {e} : route'[f] = route[f]
          /\ UNCHANGED <<order, reply, resting, polled>>
      BY <1>14 DEF CleanUp, Become, exchange, monitor, TypeOK
    <2>2. CASE Held(e)
      BY <1>14, <2>1, <2>2, MarkHolds
    <2>3. CASE ~Held(e)
      <3>1. canon' = canon
        BY <2>1, <2>3 DEF MarkReconciliation
      <3> QED  BY <1>14, <2>1, <2>3, <3>1 DEF Holding, Open, Held, Running, Over
    <2> QED  BY <2>2, <2>3
  <1>15. ASSUME NEW e \in Entries, Prune(e) PROVE Holding'
    <2>1. /\ Held(e) /\ canon.status = "pending" /\ Over(e) /\ canon' = NoRecord
          /\ pruned' = pruned \cup {e} /\ UNCHANGED <<route, order, reply, resting, polled>>
      BY <1>15 DEF Prune, exchange, monitor
    <2>2. e \notin resting /\ polled # e
      BY <2>1 DEF Holding
    <2>3. \A f \in Entries : (Held(f) => f = e) /\ ~Held(f)'
      BY <2>1, EntryConstants DEF Held, NoRecord
    <2> QED  BY <2>1, <2>2, <2>3 DEF Holding, Open, Running, Over
  <1> QED  BY <1>1, <1>2, <1>3, <1>4, <1>5, <1>6, <1>7, <1>8, <1>9, <1>10, <1>11, <1>12,
              <1>13, <1>14, <1>15 DEF Next, RouteStep, Elsewhere

LEMMA KeyInvHolds == Spec => []KeyInv
  <1>1. Init => KeyInv
    BY InitTyped, InitHolds DEF KeyInv
  <1>2. KeyInv /\ [Next]_vars => KeyInv'
    BY NextTyped, NextHolds DEF KeyInv
  <1> QED  BY <1>1, <1>2, PTL DEF Spec

\* One entry at most has an order that may execute or has executed.
THEOREM OneEntryOpen == Spec => []OneOpenEntry
  <1>1. KeyInv => OneOpenEntry
    BY OneHolder DEF KeyInv, Holding, OneOpenEntry
  <1> QED  BY <1>1, KeyInvHolds, PTL

\* A pending record has its route at work, or timed out and not cleaned up.
THEOREM PendingRecordTimedOut == Spec => []PendingWasTimedOut
  <1>1. KeyInv => PendingWasTimedOut
    <2> SUFFICES ASSUME KeyInv, canon.status = "pending"
                 PROVE  route[canon.entry]
                            \in {"validated", "gated", "wire", "resetting", "cut"}
      BY DEF PendingWasTimedOut
    <2>1. canon.entry \in Entries
      BY DEF KeyInv, TypeOK, Records, NoRecord
    <2> QED  BY <2>1 DEF KeyInv, Holding, Held
  <1> QED  BY <1>1, KeyInvHolds, PTL

-----------------------------------------------------------------------------
(* The re-quote budget.  The orders whose entry has lost the key are no more *)
(* than the releases of submitted records, and a budget's worth for each     *)
(* record dropped by age; the key is not given out once the releases exceed  *)
(* the budget.                                                               *)

Counted(e) == order[e] \in Seen \cup {"flying"}
Spent      == {e \in Entries : Counted(e) /\ ~Held(e)}

Renewed    == (1 + MaxRequotes) * Cardinality(pruned)

Budget ==
    /\ IsFiniteSet(pruned)
    /\ IsFiniteSet(Spent) /\ Cardinality(Spent) <= released + Renewed
    /\ released <= MaxRequotes + 1
    /\ canon.entry # NoEntry => released <= MaxRequotes

LEMMA SubsetSpent ==
    ASSUME NEW S, NEW T, S \subseteq T, IsFiniteSet(T), NEW n \in Nat, Cardinality(T) <= n
    PROVE  IsFiniteSet(S) /\ Cardinality(S) <= n
  <1>1. /\ IsFiniteSet(S) /\ Cardinality(S) <= Cardinality(T)
        /\ Cardinality(S) \in Nat /\ Cardinality(T) \in Nat
    BY FS_Subset, FS_CardinalityType
  <1> QED  BY <1>1

\* One more order may be counted for one more release.
LEMMA OneMoreSpent ==
    ASSUME NEW S, NEW T, NEW e, S \subseteq T \cup {e}, IsFiniteSet(T),
           NEW n \in Nat, Cardinality(T) <= n
    PROVE  IsFiniteSet(S) /\ Cardinality(S) <= n + 1
  <1>1. /\ IsFiniteSet(T \cup {e}) /\ Cardinality(T) \in Nat
        /\ Cardinality(T \cup {e}) \in {Cardinality(T), Cardinality(T) + 1}
    BY FS_AddElement, FS_CardinalityType
  <1>2. Cardinality(T \cup {e}) <= n + 1
    BY <1>1
  <1> QED  BY <1>1, <1>2, SubsetSpent

LEMMA RenewedType == ASSUME IsFiniteSet(pruned) PROVE Renewed \in Nat
  BY FS_CardinalityType, EntryConstants DEF Renewed

LEMMA InitBudget == Init => Budget
  <1> SUFFICES ASSUME Init PROVE Budget
    OBVIOUS
  <1>1. Spent = {}
    BY DEF Init, Spent, Counted, Seen
  <1>2. released = 0 /\ canon.entry = NoEntry
    BY DEF Init, NoRecord
  <1>3. IsFiniteSet(pruned) /\ IsFiniteSet(Spent) /\ Cardinality(Spent) = 0
    BY <1>1, FS_EmptySet DEF Init
  <1> QED  BY <1>2, <1>3, RenewedType, EntryConstants DEF Budget

\* No step that keeps the holder counts an order that is not the holder's.
LEMMA KeepBudget ==
    ASSUME TypeOK, Budget, canon'.entry = canon.entry, UNCHANGED <<released, pruned>>,
           \A e \in Entries : Counted(e)' /\ ~Held(e) => Counted(e)
    PROVE  Budget'
  <1>1. Spent' \subseteq Spent
    BY DEF Spent, Held
  <1>2. released + Renewed \in Nat
    BY RenewedType DEF Budget, TypeOK
  <1>3. IsFiniteSet(Spent') /\ Cardinality(Spent') <= released + Renewed
    BY <1>1, <1>2, SubsetSpent DEF Budget
  <1> QED  BY <1>3 DEF Budget, Renewed

\* The release of a record counts its order, when there is one to count.
LEMMA ReleaseBudget ==
    ASSUME TypeOK, Budget, NEW e \in Entries, Held(e), canon' = NoRecord,
           released' \in {released, released + 1}, UNCHANGED <<order, pruned>>,
           Counted(e) => released' = released + 1
    PROVE  Budget'
  <1>1. /\ released \in Nat /\ released' \in Nat
        /\ released <= MaxRequotes /\ MaxRequotes \in Nat
    BY EntryConstants DEF TypeOK, Budget, Held
  <1>2. canon'.entry = NoEntry
    BY DEF NoRecord
  <1>3. Renewed \in Nat /\ Renewed' = Renewed
    BY RenewedType DEF Budget, Renewed
  <1>4. IsFiniteSet(Spent') /\ Cardinality(Spent') <= released' + Renewed
    <2>1. CASE Counted(e)
      <3>1. Spent' \subseteq Spent \cup {e}
        BY DEF Spent, Counted, Held
      <3>2. released + Renewed \in Nat
        BY <1>1, <1>3
      <3>3. IsFiniteSet(Spent') /\ Cardinality(Spent') <= (released + Renewed) + 1
        BY <3>1, <3>2, OneMoreSpent DEF Budget
      <3> QED  BY <1>1, <1>3, <2>1, <3>3
    <2>2. CASE ~Counted(e)
      <3>1. Spent' \subseteq Spent
        BY <2>2 DEF Spent, Counted, Held
      <3>2. released + Renewed \in Nat
        BY <1>1, <1>3
      <3>3. IsFiniteSet(Spent') /\ Cardinality(Spent') <= released + Renewed
        BY <3>1, <3>2, SubsetSpent DEF Budget
      <3>4. Cardinality(Spent') \in Nat
        BY <3>3, FS_CardinalityType
      <3> QED  BY <1>1, <1>3, <3>3, <3>4
    <2> QED  BY <2>1, <2>2
  <1> QED  BY <1>1, <1>2, <1>3, <1>4 DEF Budget

\* A record dropped by age takes the count with it, and brings a new budget.
LEMMA PruneBudget ==
    ASSUME TypeOK, Budget, Holding, NEW e \in Entries, Prune(e)
    PROVE  Budget'
  <1> DEFINE n == Cardinality(pruned)
             b == 1 + MaxRequotes
  <1>1. /\ Held(e) /\ canon' = NoRecord /\ released' = 0 /\ order' = order
        /\ pruned' = pruned \cup {e} /\ e \notin pruned
    BY DEF Prune, Holding, exchange
  <1>2. /\ IsFiniteSet(pruned') /\ Cardinality(pruned') = n + 1 /\ n \in Nat
    BY <1>1, FS_AddElement, FS_CardinalityType DEF Budget
  <1>3. released \in Nat /\ MaxRequotes \in Nat /\ released <= MaxRequotes
    BY <1>1, EntryConstants DEF TypeOK, Budget, Held
  <1>4. Renewed \in Nat /\ Renewed' = Renewed + b
    <2>1. b * (n + 1) = b * n + b
      BY <1>2, <1>3
    <2> QED  BY <1>2, <2>1, RenewedType DEF Budget, Renewed
  <1>5. Spent' \subseteq Spent \cup {e}
    BY <1>1 DEF Spent, Counted, Held
  <1>6. IsFiniteSet(Spent') /\ Cardinality(Spent') <= (released + Renewed) + 1
    <2>1. released + Renewed \in Nat
      BY <1>3, <1>4
    <2> QED  BY <1>5, <2>1, OneMoreSpent DEF Budget
  <1>7. Cardinality(Spent') <= released' + Renewed'
    <2>1. Cardinality(Spent') \in Nat
      BY <1>6, FS_CardinalityType
    <2> QED  BY <1>1, <1>3, <1>4, <1>6, <2>1
  <1>8. canon'.entry = NoEntry
    BY <1>1 DEF NoRecord
  <1> QED  BY <1>1, <1>2, <1>3, <1>6, <1>7, <1>8 DEF Budget

\* A release by any of the operations: it keeps the record, which is so when
\* the order has executed, or it counts.
LEMMA FreedBudget ==
    ASSUME TypeOK, Budget, NEW e \in Entries, Held(e), UNCHANGED <<order, pruned>>,
           Release(e) \/ SubmitAndRelease(e) \/ ReleaseKey,
           Counted(e) => canon.submitted \/ SubmitAndRelease(e)
    PROVE  Budget'
  <1>1. /\ canon' \in {canon, NoRecord} /\ released' \in {released, released + 1}
        /\ canon' = canon => released' = released
        /\ canon' # canon => (canon.submitted => released' = released + 1)
        /\ canon' # canon /\ SubmitAndRelease(e) => released' = released + 1
    BY ReleaseEffect
  <1>2. CASE canon' = canon
    BY <1>1, <1>2, KeepBudget DEF Counted
  <1>3. CASE canon' # canon
    BY <1>1, <1>3, ReleaseBudget
  <1> QED  BY <1>2, <1>3

LEMMA NextBudget == KeyInv /\ Budget /\ [Next]_vars => Budget'
  <1> SUFFICES ASSUME TypeOK, Holding, Budget, [Next]_vars PROVE Budget'
    BY DEF KeyInv
  <1>1. ASSUME UNCHANGED <<records, order, pruned>> PROVE Budget'
    BY <1>1, KeepBudget DEF records, Counted
  <1>2. ASSUME NEW e \in Entries, UNCHANGED pruned, Validate(e) PROVE Budget'
    <2>1. CASE ~Admits
      BY <1>1, <1>2, <2>1 DEF Validate, records, exchange
    <2>2. CASE Admits
      <3>1. /\ canon.entry = NoEntry /\ canon'.entry = e /\ released <= MaxRequotes
            /\ UNCHANGED <<released, order, pruned>>
        BY <1>2, <2>2 DEF Validate, Admits, exchange
      <3>2. Spent' \subseteq Spent
        BY <3>1, EntryConstants DEF Spent, Counted, Held
      <3>3. released + Renewed \in Nat
        BY RenewedType DEF Budget, TypeOK
      <3>4. IsFiniteSet(Spent') /\ Cardinality(Spent') <= released + Renewed
        BY <3>2, <3>3, SubsetSpent DEF Budget
      <3> QED  BY <3>1, <3>4 DEF Budget, Renewed
    <2> QED  BY <2>1, <2>2
  <1>3. ASSUME NEW e \in Entries, UNCHANGED pruned,
               SyntheticSuccess(e) \/ GiveUp(e) \/ CleanUp(e) \/ RecordFill(e) \/ Ambiguous(e)
        PROVE  Budget'
    <2>1. /\ UNCHANGED <<order, pruned>>
          /\ MarkSubmitted(e) \/ MarkExecuted(e) \/ MarkReconciliation(e)
      BY <1>3 DEF SyntheticSuccess, GiveUp, CleanUp, RecordFill, Ambiguous, exchange
    <2> QED  BY <2>1, MarkEffect, KeepBudget DEF Counted
  <1>4. ASSUME NEW e \in Entries, UNCHANGED pruned, Refuse(e) PROVE Budget'
    <2>1. Held(e) /\ ~Counted(e) /\ UNCHANGED <<order, pruned>> /\ Release(e)
      BY <1>4 DEF Refuse, Holding, Running, Counted, Seen, exchange
    <2> QED  BY <2>1, FreedBudget
  <1>5. ASSUME NEW e \in Entries, UNCHANGED pruned, Answered(e) PROVE Budget'
    <2>1. Held(e) /\ UNCHANGED <<order, pruned>>
      BY <1>5 DEF Answered, Holding, Running, exchange
    <2>2. CASE MarkSubmitted(e)
      BY <2>1, <2>2, MarkEffect, KeepBudget DEF Counted
    <2>3. CASE reply[e] = "refused" /\ Release(e)
      <3>1. ~Counted(e)
        BY <2>3 DEF Holding, Counted, Seen
      <3> QED  BY <2>1, <2>3, <3>1, FreedBudget
    <2>4. CASE SubmitAndRelease(e)
      BY <2>1, <2>4, FreedBudget
    <2> QED  BY <1>5, <2>2, <2>3, <2>4 DEF Answered
  <1>6. ASSUME NEW e \in Entries, UNCHANGED pruned, Reconciled(e) PROVE Budget'
    <2>1. Held(e) /\ canon.submitted /\ UNCHANGED <<order, pruned>>
      BY <1>6 DEF Reconciled, Holding, Running, exchange
    <2>2. CASE MarkSubmitted(e) \/ MarkExecuted(e) \/ MarkReconciliation(e)
      BY <2>1, <2>2, MarkEffect, KeepBudget DEF Counted
    <2>3. CASE Release(e)
      BY <2>1, <2>3, FreedBudget
    <2> QED  BY <1>6, <2>2, <2>3 DEF Reconciled
  <1>7. ASSUME NEW e \in Entries, UNCHANGED pruned, PollAnswer(e) PROVE Budget'
    <2>1. Held(e) /\ canon.submitted /\ UNCHANGED <<order, pruned>>
      BY <1>7 DEF PollAnswer, Holding, exchange
    <2>2. CASE ReleaseKey
      BY <2>1, <2>2, FreedBudget
    <2>3. CASE UNCHANGED records
      BY <1>1, <2>1, <2>3
    <2> QED  BY <1>7, <2>2, <2>3 DEF PollAnswer
  <1>8. ASSUME NEW e \in Entries, UNCHANGED pruned, Send(e) \/ RecheckCancel(e) \/ Exchange(e)
        PROVE  Budget'
    <2>1. UNCHANGED <<canon, released, pruned>>
      BY <1>8 DEF Send, RecheckCancel, Exchange, records
    <2>2. ASSUME NEW f \in Entries, Counted(f)', ~Held(f) PROVE Counted(f)
      <3>1. CASE f = e
        BY <1>8, <2>2, <3>1 DEF Send, RecheckCancel, Exchange, Holding, Running, Counted,
                                Seen, TypeOK
      <3>2. CASE f # e
        BY <1>8, <2>2, <3>2 DEF Send, RecheckCancel, Exchange, Counted, TypeOK
      <3> QED  BY <3>1, <3>2
    <2> QED  BY <2>1, <2>2, KeepBudget
  <1>9. ASSUME NEW e \in Entries, UNCHANGED pruned,
               PassGate(e) \/ TimeOut(e) \/ CutOff(e) \/ SweepPending(e) \/ PollOrder(e)
        PROVE  Budget'
    BY <1>1, <1>9 DEF PassGate, TimeOut, CutOff, SweepPending, PollOrder, records, exchange
  <1>10. CASE UNCHANGED vars
    BY <1>1, <1>10 DEF vars, exchange
  <1>11. ASSUME NEW e \in Entries, Prune(e) PROVE Budget'
    BY <1>11, PruneBudget
  <1> QED  BY <1>2, <1>3, <1>4, <1>5, <1>6, <1>7, <1>8, <1>9, <1>10, <1>11
           DEF Next, RouteStep, Elsewhere

\* Whatever is cancelled, refused, lost, timed out or reconciled, in any order,
\* the key takes no more orders in its window than the budget has, and that
\* many again for each record dropped by age.
THEOREM KeyWithinBudget == Spec => []RequoteBudget
  <1>1. KeyInv /\ Budget => RequoteBudget
    <2> SUFFICES ASSUME TypeOK, Budget PROVE RequoteBudget
      BY DEF KeyInv
    <2> DEFINE Taken == {e \in Entries : order[e] \in Seen \cup {"flying"}}
               b     == 1 + MaxRequotes
    <2>1. /\ released \in Nat /\ MaxRequotes \in Nat /\ Renewed \in Nat
          /\ released + Renewed \in Nat
      BY EntryConstants, RenewedType DEF TypeOK, Budget
    <2>2. IsFiniteSet(Taken) /\ Cardinality(Taken) <= b + Renewed
      <3>1. CASE canon.entry = NoEntry
        <4>1. Taken \subseteq Spent
          BY <3>1, EntryConstants DEF Spent, Counted, Held
        <4>2. IsFiniteSet(Taken) /\ Cardinality(Taken) <= released + Renewed
          BY <2>1, <4>1, SubsetSpent DEF Budget
        <4>3. Cardinality(Taken) \in Nat
          BY <4>2, FS_CardinalityType
        <4> QED  BY <2>1, <4>2, <4>3 DEF Budget
      <3>2. CASE canon.entry # NoEntry
        <4>1. Taken \subseteq Spent \cup {canon.entry}
          BY DEF Spent, Counted, Held
        <4>2. IsFiniteSet(Taken) /\ Cardinality(Taken) <= (released + Renewed) + 1
          BY <2>1, <4>1, OneMoreSpent DEF Budget
        <4>3. Cardinality(Taken) \in Nat
          BY <4>2, FS_CardinalityType
        <4> QED  BY <2>1, <3>2, <4>2, <4>3 DEF Budget
      <3> QED  BY <3>1, <3>2
    <2>3. b + Renewed = b * (1 + Cardinality(pruned))
      <3>1. Cardinality(pruned) \in Nat
        BY FS_CardinalityType DEF Budget
      <3> QED  BY <2>1, <3>1 DEF Renewed
    <2> QED  BY <2>2, <2>3 DEF RequoteBudget
  <1>2. Spec => []Budget
    <2>1. Init => Budget
      BY InitBudget
    <2>2. KeyInv /\ Budget /\ [Next]_vars => Budget'
      BY NextBudget
    <2> QED  BY <2>1, <2>2, KeyInvHolds, PTL DEF Spec
  <1> QED  BY <1>1, <1>2, KeyInvHolds, PTL
=============================================================================
