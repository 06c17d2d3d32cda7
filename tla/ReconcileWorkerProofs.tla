----------------------- MODULE ReconcileWorkerProofs -----------------------
(***************************************************************************)
(* Theorems about the reconcile worker, for any keys, budgets, intervals   *)
(* and back-offs: its types, and that a key woken by a fill is passed over *)
(* by a tick for other woken keys only.                                    *)
(*                                                                         *)
(* Both rest on what an ordering of a set is: a sequence of its elements,  *)
(* as many as there are, in which each of them has a place.                *)
(***************************************************************************)
EXTENDS ReconcileWorker, FiniteSetTheorems, TLAPS

-----------------------------------------------------------------------------
(* Orderings of a set of keys.                                             *)

\* An ordering of S is as long as S is large and passes over no element of it.
LEMMA OrderingOf ==
    ASSUME NEW S, IsFiniteSet(S), NEW s \in SetToSeqs(S)
    PROVE  /\ s \in Seq(S)
           /\ Len(s) = Cardinality(S)
           /\ \A x \in S : \E i \in 1..Len(s) : s[i] = x
  <1> DEFINE D == 1..Cardinality(S)
  <1>1. Cardinality(S) \in Nat
    BY FS_CardinalityType
  <1>2. s \in [D -> S] /\ \A i, j \in D : i # j => s[i] # s[j]
    BY DEF SetToSeqs
  <1>3. s \in Seq(S) /\ Len(s) = Cardinality(S)
    BY <1>1, <1>2
  <1>4. Cardinality(D) = Cardinality(S)
    BY <1>1, FS_Interval
  <1>5. s \in Injection(D, S)
    BY <1>2 DEF Injection, IsInjective
  <1>6. s \in Surjection(D, S)
    BY <1>4, <1>5, FS_Injection
  <1> QED  BY <1>3, <1>6 DEF Surjection

\* The keys are finitely many, and so are those of any selection.
LEMMA KeysFinite ==
    ASSUME NEW S \in SUBSET Keys
    PROVE  IsFiniteSet(S) /\ Cardinality(S) \in Nat /\ Cardinality(S) <= Cardinality(Keys)
  BY WorkerConstants, FS_Subset, FS_CardinalityType

\* A selection taken in the queue's order is a list of keys no longer than it.
LEMMA Listed ==
    ASSUME NEW S \in SUBSET Keys, NEW s \in SetToSeqs(S)
    PROVE  s \in Seq(Keys) /\ Len(s) = Cardinality(S) /\ Len(s) <= Cardinality(Keys)
  BY KeysFinite, OrderingOf

LEMMA QueueLength == ASSUME TypeOK PROVE queue \in Seq(Keys) /\ Len(queue) = Cardinality(Keys)
  BY Listed DEF TypeOK

\* A key put before an ordering of the others is an ordering of the keys.
LEMMA PutFirst ==
    ASSUME NEW k \in Keys, NEW older \in SetToSeqs(Keys \ {k})
    PROVE  <<k>> \o older \in SetToSeqs(Keys)
  <1> DEFINE n == Cardinality(Keys)
             q == <<k>> \o older
  <1>1. n \in Nat /\ Cardinality(Keys \ {k}) = n - 1 /\ IsFiniteSet(Keys \ {k})
    BY KeysFinite, WorkerConstants, FS_RemoveElement
  <1>2. older \in Seq(Keys \ {k}) /\ Len(older) = n - 1
    BY <1>1, OrderingOf
  <1>3. \A i, j \in 1..(n - 1) : i # j => older[i] # older[j]
    BY <1>1 DEF SetToSeqs
  <1>4. q \in Seq(Keys) /\ Len(q) = n
    BY <1>1, <1>2
  <1>5. \A i \in 1..n : q[i] = IF i = 1 THEN k ELSE older[i - 1]
    BY <1>1, <1>2
  <1>6. \A i \in 1..n : i # 1 => i - 1 \in 1..(n - 1) /\ older[i - 1] \in Keys \ {k}
    BY <1>1, <1>2
  <1> HIDE DEF q, n
  <1>7. \A i, j \in 1..n : i # j => q[i] # q[j]
    <2> SUFFICES ASSUME NEW i \in 1..n, NEW j \in 1..n, i # j PROVE q[i] # q[j]
      OBVIOUS
    <2>1. CASE i = 1
      BY <1>5, <1>6, <2>1
    <2>2. CASE j = 1
      BY <1>5, <1>6, <2>2
    <2>3. CASE i # 1 /\ j # 1
      <3>1. i - 1 # j - 1
        BY <1>1
      <3>2. older[i - 1] # older[j - 1]
        BY <1>3, <1>6, <2>3, <3>1
      <3> QED  BY <1>5, <2>3, <3>2
    <2> QED  BY <2>1, <2>2, <2>3
  <1>8. q \in [1..n -> Keys]
    BY <1>4
  <1> QED  BY <1>7, <1>8 DEF SetToSeqs, n, q

-----------------------------------------------------------------------------
(* The types.                                                              *)

\* A back-off stays within its maximum: a power of two counts the subsets of a
\* set, so it is a natural number.
LEMMA DelayType == ASSUME NEW n \in Nat \ {0} PROVE Delay(n) \in 0..BackoffMax
  <1>1. n - 1 \in Nat /\ IsFiniteSet(1..(n - 1)) /\ Cardinality(1..(n - 1)) = n - 1
    BY FS_Interval
  <1>2. 2^(n - 1) \in Nat
    BY <1>1, FS_SUBSET, FS_CardinalityType
  <1> DEFINE p == 2^(n - 1)
  <1>3. p \in Nat
    BY <1>2
  <1> HIDE DEF p
  <1>4. BackoffBase * p \in Nat /\ BackoffMax \in Nat
    BY <1>3, WorkerConstants
  <1>5. Delay(n) = Lower(BackoffBase * p, BackoffMax)
    BY DEF Delay, p
  <1> QED  BY <1>4, <1>5 DEF Lower

LEMMA Bounds ==
    /\ MaxFailures \in Nat \ {0} /\ MaxChanges \in Nat
    /\ \A S : [k \in S |-> 0] \in [S -> 0..MaxFailures] \cap [S -> 0..BackoffMax]
  <1>1. MaxFailures \in Nat \ {0} /\ MaxChanges \in Nat /\ BackoffMax \in Nat
    BY WorkerConstants
  <1>2. 0 \in 0..MaxFailures /\ 0 \in 0..BackoffMax
    BY <1>1
  <1> QED  BY <1>1, <1>2

\* Whatever the tick has left to look up, what awaiting it sets is well typed.
LEMMA AwaitType ==
    ASSUME TypeOK, NEW keys \in Seq(Keys), NEW a \in [Keys -> State], Await(keys, a),
           Len(keys) <= Len(queue), UNCHANGED queue
    PROVE  /\ att' \in [Keys -> State]
           /\ todo' \in Seq(Keys) /\ Len(todo') <= Len(queue')
           /\ before' \in State /\ startup' \in BOOLEAN
           /\ sleep' \in 0..Interval \cup 0..LookupTime
  <1>1. Interval \in Nat /\ LookupTime \in Nat
    BY WorkerConstants
  <1>2. todo' = keys
    BY DEF Await
  <1>3. CASE keys = <<>>
    <2>1. att' = a /\ before' = "none" /\ startup' = FALSE /\ sleep' = Interval
      BY <1>3 DEF Await
    <2>2. todo' \in Seq(Keys) /\ Len(todo') <= Len(queue')
      BY <1>2
    <2>3. sleep' \in 0..Interval \cup 0..LookupTime
      BY <1>1, <2>1
    <2> QED  BY <2>1, <2>2, <2>3 DEF State
  <1>4. CASE keys # <<>>
    <2>1. Head(keys) \in Keys
      BY <1>4
    <2>2. Begun(a[Head(keys)]) \in State /\ a[Head(keys)] \in State
      BY <2>1 DEF Begun, State, MustReconcile
    <2>3. /\ att' = [a EXCEPT ![Head(keys)] = Begun(@)]
          /\ before' = a[Head(keys)] /\ startup' = startup /\ sleep' = LookupTime
      BY <1>4 DEF Await
    <2>4. att' \in [Keys -> State]
      BY <2>2, <2>3
    <2>5. startup' \in BOOLEAN
      BY <2>3 DEF TypeOK
    <2>6. sleep' \in 0..Interval \cup 0..LookupTime
      BY <1>1, <2>3
    <2>7. todo' \in Seq(Keys) /\ Len(todo') <= Len(queue')
      BY <1>2
    <2> QED  BY <2>2, <2>3, <2>4, <2>5, <2>6, <2>7
  <1> QED  BY <1>3, <1>4

\* What start() sets, when the keys left are those of a selection.
LEMMA StartType ==
    ASSUME NEW S \in SUBSET Keys, NEW keys \in InOrder(S)
    PROVE  /\ keys \in Seq(Keys) /\ Len(keys) <= Cardinality(Keys)
           /\ (IF keys = <<>> THEN "none" ELSE "RECONCILING") \in State
           /\ (IF keys = <<>> THEN Interval ELSE LookupTime)
                 \in 0..Interval \cup 0..LookupTime
  BY Listed, WorkerConstants DEF InOrder, State, MustReconcile

LEMMA WorkerInit == Init => TypeOK
  <1> SUFFICES ASSUME Init PROVE TypeOK
    OBVIOUS
  <1>1. att \in [Keys -> State]
    BY DEF Init, State, MustReconcile
  <1>2. Needing(att) \in SUBSET Keys
    BY DEF Needing
  <1>3. /\ todo \in InOrder(Needing(att))
        /\ before = IF todo = <<>> THEN "none" ELSE "RECONCILING"
        /\ startup = (todo # <<>>)
        /\ sleep = IF todo = <<>> THEN Interval ELSE LookupTime
    BY DEF Init
  <1>4. /\ todo \in Seq(Keys) /\ Len(todo) <= Cardinality(Keys)
        /\ before \in State /\ sleep \in 0..Interval \cup 0..LookupTime
    BY <1>2, <1>3, StartType
  <1>5. queue \in SetToSeqs(Keys)
    <2>1. PICK f : f \in Bijection(1..Cardinality(Keys), Keys)
      BY WorkerConstants, FS_CardinalityType DEF ExistsBijection
    <2>2. f \in SetToSeqs(Keys)
      BY <2>1 DEF SetToSeqs, Bijection, Injection, IsInjective
    <2>3. queue = CHOOSE q \in SetToSeqs(Keys) : TRUE
      BY DEF Init
    <2> QED  BY <2>2, <2>3
  <1>6. Len(todo) <= Len(queue)
    BY <1>4, <1>5, Listed
  <1>7. /\ priority \subseteq Keys /\ woken \in BOOLEAN
        /\ failures \in [Keys -> 0..MaxFailures] /\ backoff \in [Keys -> 0..BackoffMax]
        /\ changes \in 0..MaxChanges
    <2>1. priority = {} /\ woken = FALSE /\ changes = 0
      BY DEF Init
    <2>2. failures = [k \in Keys |-> 0] /\ backoff = [k \in Keys |-> 0]
      BY DEF Init
    <2>3. changes \in 0..MaxChanges
      BY <2>1, Bounds
    <2>4. failures \in [Keys -> 0..MaxFailures] /\ backoff \in [Keys -> 0..BackoffMax]
      BY <2>2, Bounds
    <2> QED  BY <2>1, <2>3, <2>4
  <1>8. startup \in BOOLEAN
    BY <1>3
  <1> QED  BY <1>1, <1>4, <1>5, <1>6, <1>7, <1>8 DEF TypeOK

\* What a tick takes up of the keys a fill has woken and of the others.
LEMMA TickKeys ==
    ASSUME TypeOK, NEW due \in SUBSET Keys, NEW rest \in SUBSET Keys, due \cap rest = {},
           NEW woke \in SetToSeqs(due), NEW others \in InOrder(rest)
    PROVE  LET keys == TakenUp(WokenFirst(woke, others))
           IN  /\ keys \in Seq(Keys) /\ Len(keys) <= Len(queue)
               /\ \A i \in 1..Len(keys) : i <= Len(woke) => keys[i] = woke[i]
  <1> DEFINE all == woke \o others
             n   == Lower(Budget, Len(all))
  <1>1. /\ woke \in Seq(Keys) /\ Len(woke) = Cardinality(due)
        /\ others \in Seq(Keys) /\ Len(others) = Cardinality(rest)
    BY Listed DEF InOrder
  <1>2. all \in Seq(Keys) /\ Len(all) = Len(woke) + Len(others)
        /\ \A i \in 1..Len(all) : i <= Len(woke) => all[i] = woke[i]
    BY <1>1
  <1>3. Budget \in Nat
    BY WorkerConstants DEF Budget, Lower
  <1>4. n \in 0..Len(all)
    BY <1>2, <1>3 DEF Lower
  <1>5. Len(all) <= Len(queue)
    <2>1. Cardinality(due \cup rest) = Cardinality(due) + Cardinality(rest)
      <3>1. /\ IsFiniteSet(due) /\ IsFiniteSet(rest)
            /\ Cardinality(due) \in Nat /\ Cardinality(rest) \in Nat
        BY KeysFinite
      <3>2. Cardinality(due \cap rest) = 0
        BY FS_EmptySet
      <3>3. Cardinality(due \cup rest)
               = Cardinality(due) + Cardinality(rest) - Cardinality(due \cap rest)
        BY <3>1, FS_Union
      <3> QED  BY <3>1, <3>2, <3>3
    <2>2. due \cup rest \in SUBSET Keys
      OBVIOUS
    <2>3. Cardinality(due \cup rest) <= Cardinality(Keys)
      BY <2>2, KeysFinite
    <2> QED  BY <1>1, <1>2, <2>1, <2>3, QueueLength
  <1>6. TakenUp(WokenFirst(woke, others)) = SubSeq(all, 1, n)
    BY DEF TakenUp, WokenFirst
  <1> HIDE DEF all, n
  <1>7. /\ SubSeq(all, 1, n) \in Seq(Keys) /\ Len(SubSeq(all, 1, n)) = n
        /\ \A i \in 1..n : SubSeq(all, 1, n)[i] = all[i]
    BY <1>2, <1>4
  <1> QED  BY <1>1, <1>2, <1>4, <1>5, <1>6, <1>7, QueueLength

\* A tick's selection, named as in Tick.
DueKeys  == priority \cap Needing(att)
RestKeys == {k \in Needing(att) \ DueKeys : backoff[k] = 0}

LEMMA WorkerStep == TypeOK /\ [Next]_vars => TypeOK'
  <1> SUFFICES ASSUME TypeOK, [Next]_vars PROVE TypeOK'
    OBVIOUS
  <1>1. CASE UNCHANGED vars
    BY <1>1 DEF TypeOK, vars, attempts, books, tick
  <1>2. CASE Tick
    <2>1. DueKeys \in SUBSET Keys /\ RestKeys \in SUBSET Keys /\ DueKeys \cap RestKeys = {}
      BY DEF DueKeys, RestKeys, Needing
    <2>2. PICK woke \in SetToSeqs(DueKeys), others \in InOrder(RestKeys) :
              Await(TakenUp(WokenFirst(woke, others)), att)
      BY <1>2 DEF Tick, DueKeys, RestKeys
    <2> DEFINE keys == TakenUp(WokenFirst(woke, others))
    <2>3. keys \in Seq(Keys) /\ Len(keys) <= Len(queue)
      BY <2>1, TickKeys
    <2>4. /\ woken' = FALSE /\ priority' = priority \ DueKeys
          /\ UNCHANGED <<queue, failures, backoff, changes>>
      BY <1>2 DEF Tick, DueKeys
    <2>5. att \in [Keys -> State]
      BY DEF TypeOK
    <2> HIDE DEF keys
    <2>6. /\ att' \in [Keys -> State]
          /\ todo' \in Seq(Keys) /\ Len(todo') <= Len(queue')
          /\ before' \in State /\ startup' \in BOOLEAN
          /\ sleep' \in 0..Interval \cup 0..LookupTime
      BY <2>2, <2>3, <2>4, <2>5, AwaitType DEF keys
    <2> QED  BY <2>4, <2>6 DEF TypeOK
  <1>3. CASE Pass
    <2>1. \A k \in Keys : Elapsed[k] \in 0..BackoffMax
      BY WorkerConstants DEF Elapsed, TypeOK
    <2>2. Elapsed \in [Keys -> 0..BackoffMax]
      BY <2>1 DEF Elapsed
    <2>3. sleep' \in 0..Interval \cup 0..LookupTime
      BY <1>3, WorkerConstants DEF Pass, TypeOK
    <2> QED  BY <1>3, <2>2, <2>3 DEF Pass, TypeOK, attempts
  <1>4. ASSUME NEW s \in State, Answer(s) PROVE TypeOK'
    <2> DEFINE k == Awaited
               a == [att EXCEPT ![k] = s]
    <2>1. k \in Keys /\ Tail(todo) \in Seq(Keys) /\ Len(Tail(todo)) <= Len(queue)
      <3>1. todo # <<>> /\ todo \in Seq(Keys) /\ Len(todo) <= Len(queue)
        BY <1>4 DEF Answer, TypeOK
      <3>2. Len(queue) \in Nat
        BY QueueLength
      <3> QED  BY <3>1, <3>2 DEF Awaited
    <2>2. a \in [Keys -> State]
      BY DEF TypeOK
    <2>3. changes' \in 0..MaxChanges /\ UNCHANGED <<queue, priority, woken>>
      BY <1>4, WorkerConstants DEF Answer, TypeOK
    <2>4. \/ startup /\ Await(Tail(todo), a) /\ UNCHANGED <<failures, backoff>>
          \/ ResetBackoff(k, a)
          \/ ApplyBackoff(k, a)
      BY <1>4 DEF Answer
    <2> HIDE DEF k, a
    <2>5. /\ Await(Tail(todo), a) \/ Await(<<>>, a)
          /\ failures' \in [Keys -> 0..MaxFailures] /\ backoff' \in [Keys -> 0..BackoffMax]
      <3>1. /\ failures \in [Keys -> 0..MaxFailures] /\ backoff \in [Keys -> 0..BackoffMax]
            /\ MaxFailures \in Nat \ {0} /\ BackoffMax \in Nat
        BY WorkerConstants DEF TypeOK
      <3>2. CASE failures' = failures /\ backoff' = backoff
        <4>1. Await(Tail(todo), a) \/ Await(<<>>, a)
          BY <2>4 DEF ResetBackoff, ApplyBackoff
        <4> QED  BY <3>1, <3>2, <4>1
      <3>3. CASE ResetBackoff(k, a)
        <4>1. 0 \in 0..MaxFailures /\ 0 \in 0..BackoffMax
          BY <3>1
        <4> QED  BY <3>1, <3>3, <4>1 DEF ResetBackoff
      <3>4. CASE ApplyBackoff(k, a) /\ ~(failures' = failures /\ backoff' = backoff)
        <4> DEFINE n == Lower(failures[k] + 1, MaxFailures)
        <4>1. /\ failures' = [failures EXCEPT ![k] = n]
              /\ backoff' = [backoff EXCEPT ![k] = Delay(n)]
              /\ Await(Tail(todo), a)
          BY <3>4 DEF ApplyBackoff
        <4>2. n \in 1..MaxFailures
          BY <2>1, <3>1 DEF Lower
        <4> HIDE DEF n
        <4>3. Delay(n) \in 0..BackoffMax
          BY <3>1, <4>2, DelayType
        <4>4. n \in 0..MaxFailures
          BY <4>2
        <4> QED  BY <3>1, <4>1, <4>3, <4>4
      <3> QED  BY <2>4, <3>2, <3>3, <3>4
    <2>6. <<>> \in Seq(Keys) /\ Len(<<>>) <= Len(queue)
      BY <2>1
    <2>7. /\ att' \in [Keys -> State]
          /\ todo' \in Seq(Keys) /\ Len(todo') <= Len(queue')
          /\ before' \in State /\ startup' \in BOOLEAN
          /\ sleep' \in 0..Interval \cup 0..LookupTime
      BY <2>1, <2>2, <2>3, <2>5, <2>6, AwaitType
    <2> QED  BY <2>3, <2>5, <2>7 DEF TypeOK
  <1>5. ASSUME Change PROVE changes' \in 0..MaxChanges
    BY <1>5, WorkerConstants DEF Change, TypeOK
  <1>6. ASSUME NEW k \in Keys, SubmitUnknown(k) PROVE TypeOK'
    <2>1. PICK older \in InOrder(Keys \ {k}) : queue' = <<k>> \o older
      BY <1>6 DEF SubmitUnknown
    <2>2. queue' \in SetToSeqs(Keys)
      BY <2>1, PutFirst DEF InOrder
    <2>3. Len(queue') = Len(queue)
      BY <2>2, Listed, QueueLength
    <2>4. att' \in [Keys -> State]
      BY <1>6 DEF SubmitUnknown, TypeOK, State, MustReconcile
    <2> QED  BY <1>5, <1>6, <2>2, <2>3, <2>4 DEF SubmitUnknown, TypeOK, books, tick
  <1>7. ASSUME NEW k \in Keys, NoteFillEvent(k) PROVE TypeOK'
    BY <1>5, <1>7 DEF NoteFillEvent, TypeOK, attempts, tick
  <1>8. ASSUME NEW k \in Keys, NEW s \in State, MoveElsewhere(k, s) PROVE TypeOK'
    BY <1>5, <1>8 DEF MoveElsewhere, TypeOK, books, tick
  <1>9. CASE Restart
    <2>1. att' \in [Keys -> State]
      BY <1>9 DEF Restart, Loaded, Begun, State, MustReconcile, TypeOK
    <2>2. Needing(att') \in SUBSET Keys
      BY DEF Needing
    <2>3. /\ todo' \in InOrder(Needing(att')) /\ UNCHANGED queue
          /\ before' = IF todo' = <<>> THEN "none" ELSE "RECONCILING"
          /\ startup' = (todo' # <<>>)
          /\ sleep' = IF todo' = <<>> THEN Interval ELSE LookupTime
      BY <1>9 DEF Restart
    <2>4. /\ todo' \in Seq(Keys) /\ Len(todo') <= Cardinality(Keys)
          /\ before' \in State /\ sleep' \in 0..Interval \cup 0..LookupTime
      BY <2>2, <2>3, StartType
    <2>5. Len(todo') <= Len(queue')
      BY <2>3, <2>4, QueueLength
    <2>6. startup' \in BOOLEAN
      BY <2>3
    <2>7. /\ priority' \subseteq Keys /\ woken' \in BOOLEAN
          /\ failures' \in [Keys -> 0..MaxFailures] /\ backoff' \in [Keys -> 0..BackoffMax]
      BY <1>9, Bounds DEF Restart
    <2>8. changes' \in 0..MaxChanges
      BY <1>5, <1>9 DEF Restart
    <2> QED  BY <2>1, <2>3, <2>4, <2>5, <2>6, <2>7, <2>8 DEF TypeOK
  <1> QED  BY <1>1, <1>2, <1>3, <1>4, <1>6, <1>7, <1>8, <1>9 DEF Next

\* No back-off exceeds its maximum, no failure count the float's range, and the
\* tick's list is no longer than the queue (_apply_backoff, _tick).
THEOREM WorkerTypeOK == Spec => []TypeOK
  BY WorkerInit, WorkerStep, PTL DEF Spec

-----------------------------------------------------------------------------
(* Woken keys.                                                             *)

\* A woken key leaves the priority set in a tick or a restart.  The tick's list
\* begins with the woken keys: either all of them are in it, or nothing else is.
LEMMA WokenFirstStep ==
    ASSUME TypeOK, [Next]_vars, NEW k \in priority \ priority'
    PROVE  startup' \/ \/ \E i \in DOMAIN todo' : todo'[i] = k
                       \/ \A i \in DOMAIN todo' : todo'[i] \in priority
  <1>1. CASE Tick
    <2>1. DueKeys \in SUBSET Keys /\ RestKeys \in SUBSET Keys /\ DueKeys \cap RestKeys = {}
      BY DEF DueKeys, RestKeys, Needing
    <2>2. PICK woke \in SetToSeqs(DueKeys), others \in InOrder(RestKeys) :
              Await(TakenUp(WokenFirst(woke, others)), att)
      BY <1>1 DEF Tick, DueKeys, RestKeys
    <2> DEFINE keys == TakenUp(WokenFirst(woke, others))
    <2>3. /\ keys \in Seq(Keys)
          /\ \A i \in 1..Len(keys) : i <= Len(woke) => keys[i] = woke[i]
      BY <2>1, TickKeys
    <2>4. todo' = keys
      BY <2>2 DEF Await
    <2> HIDE DEF keys
    <2>5. k \in DueKeys
      BY <1>1 DEF Tick, DueKeys
    <2>6. woke \in Seq(DueKeys) /\ \E i \in 1..Len(woke) : woke[i] = k
      BY <2>1, <2>5, KeysFinite, OrderingOf
    <2>7. CASE Len(woke) <= Len(keys)
      BY <2>3, <2>4, <2>6, <2>7
    <2>8. CASE Len(keys) < Len(woke)
      <3>1. \A i \in 1..Len(keys) : i \in 1..Len(woke) /\ keys[i] = woke[i]
        BY <2>3, <2>6, <2>8
      <3>2. \A i \in 1..Len(woke) : woke[i] \in priority
        BY <2>6 DEF DueKeys
      <3> QED  BY <2>3, <2>4, <3>1, <3>2
    <2>9. Len(woke) \in Nat /\ Len(keys) \in Nat
      BY <2>3, <2>6
    <2> QED  BY <2>7, <2>8, <2>9
  <1>2. CASE Restart
    <2>1. startup' \/ todo' = <<>>
      BY <1>2 DEF Restart
    <2> QED  BY <2>1
  <1>3. ~UNCHANGED priority
    OBVIOUS
  <1> QED  BY <1>1, <1>2, <1>3
           DEF Next, Pass, Answer, SubmitUnknown, MoveElsewhere, NoteFillEvent,
               books, vars

\* A key woken by a fill is not held back by its own back-off nor by younger
\* keys: only the tick's budget can pass it over, for other woken keys (_tick
\* puts _priority before the keys whose back-off has elapsed).
THEOREM WokenKeysLead == Spec => WokenGoFirst
  <1>1. TypeOK /\ [Next]_vars =>
            [\A k \in priority \ priority' :
                 startup' \/ \/ \E i \in DOMAIN todo' : todo'[i] = k
                             \/ \A i \in DOMAIN todo' : todo'[i] \in priority]_vars
    BY WokenFirstStep
  <1> QED  BY <1>1, WorkerTypeOK, PTL DEF Spec, WokenGoFirst
=============================================================================
