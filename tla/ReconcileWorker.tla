-------------------------- MODULE ReconcileWorker --------------------------
(***************************************************************************)
(* The background worker that asks the exchange about exit attempts whose  *)
(* outcome is not known, seen over many positions: which keys a tick takes *)
(* up, how many, in what order, and the back-off each key has earned.      *)
(* What one lookup does to its attempt is ExitPipeline's subject; here it  *)
(* leaves one of the states reconcile_attempt can leave.                   *)
(*                                                                         *)
(* Time runs in units while the worker sleeps or awaits an answer.  A key  *)
(* is looked up for the first time in the startup recovery, and startup is *)
(* the initial state.  The client is taken to be available.                *)
(***************************************************************************)
EXTENDS Integers, Sequences, FiniteSets, SequencesExt

CONSTANTS Keys,         \* position keys
          MaxKeys,      \* max_keys_per_tick
          MaxLookups,   \* max_lookups_per_tick
          Interval,     \* between ticks
          LookupTime,   \* the longest a lookup may take
          BackoffBase, BackoffMax,
          MaxFailures,  \* failures that are counted: 1024 in the code
          Overflows,    \* may one more failure be met?
          MaxChanges    \* bound on what happens to attempts and in the process

ASSUME WorkerConstants ==
    /\ IsFiniteSet(Keys)
    /\ {MaxKeys, MaxLookups, Interval, BackoffBase, MaxFailures} \subseteq Nat \ {0}
    /\ BackoffMax \in Nat /\ BackoffMax >= BackoffBase
    /\ {LookupTime, MaxChanges} \subseteq Nat
    /\ Overflows \in BOOLEAN

VARIABLES
    att,       \* the state of each key's active attempt, "none" without one
    queue,     \* the keys, the one with the youngest attempt first
    priority,  \* _priority: the keys that fills have woken
    woken,     \* _wake
    failures,  \* _key_failures
    backoff,   \* until _key_backoff: time left, 0 once elapsed
    todo,      \* the keys the tick has left; it awaits the first one's answer
    before,    \* the state of that key before its lookup
    startup,   \* the keys left are those of the startup recovery
    sleep,     \* time left to sleep, or that the lookup may still take
    changes    \* changes so far

attempts == <<att, queue>>
books    == <<priority, failures, backoff>>
tick     == <<todo, before, startup, sleep>>
vars     == <<attempts, books, woken, tick, changes>>

Lower(a, b) == IF a <= b THEN a ELSE b

MustReconcile == {"ACK_UNKNOWN", "RECONCILING", "WORKING"}
State         == {"none", "RETRY_ELIGIBLE"} \cup MustReconcile
Outcome       == State \ {"ACK_UNKNOWN"}

Needs(k) == att[k] \in MustReconcile
Awaited  == Head(todo)

TypeOK ==
    /\ att \in [Keys -> State]
    /\ queue \in SetToSeqs(Keys)
    /\ priority \subseteq Keys
    /\ woken \in BOOLEAN
    /\ failures \in [Keys -> 0..MaxFailures]
    /\ backoff \in [Keys -> 0..BackoffMax]
    /\ todo \in Seq(Keys) /\ Len(todo) <= Len(queue)
    /\ before \in State
    /\ startup \in BOOLEAN
    /\ sleep \in 0..Interval \cup 0..LookupTime
    /\ changes \in 0..MaxChanges

-----------------------------------------------------------------------------
(* A tick.                                                                 *)

\* begin_reconcile.
Begun(s) == IF s \in MustReconcile THEN "RECONCILING" ELSE s

\* The next key's lookup begins, or the tick is over.
Await(keys, a) ==
    /\ todo' = keys
    /\ IF keys = <<>>
       THEN att' = a /\ before' = "none" /\ startup' = FALSE /\ sleep' = Interval
       ELSE /\ att' = [a EXCEPT ![Head(keys)] = Begun(@)]
            /\ before' = a[Head(keys)]
            /\ UNCHANGED startup /\ sleep' = LookupTime

\* positions_requiring_reconcile: those that need it, youngest first.
Needing(a)   == {k \in Keys : a[k] \in MustReconcile}
Older(k, j)  == \E m, n \in DOMAIN queue : m < n /\ queue[m] = j /\ queue[n] = k
InOrder(S)   == {s \in SetToSeqs(S) : \A m, n \in DOMAIN s : m < n => Older(s[n], s[m])}

\* The keys that fills have woken, in any order, go before the others.  The
\* mutant puts them behind.
WokenLast(woke, others)  == others \o woke
WokenFirst(woke, others) == woke \o others

Budget == Lower(MaxKeys, MaxLookups)
TakenUp(keys) == SubSeq(keys, 1, Lower(Budget, Len(keys)))

Tick ==
    LET due  == priority \cap Needing(att)
        rest == {k \in Needing(att) \ due : backoff[k] = 0}
    IN
    /\ todo = <<>>
    /\ woken \/ sleep = 0
    /\ woken' = FALSE
    /\ priority' = priority \ due
    /\ \E woke \in SetToSeqs(due), others \in InOrder(rest) :
          Await(TakenUp(WokenFirst(woke, others)), att)
    /\ UNCHANGED <<queue, failures, backoff, changes>>

\* base * 2^(n-1), at most the maximum.  The mutant has no maximum.
DelayUncapped(n) == BackoffBase * 2^(n - 1)
Delay(n) == Lower(BackoffBase * 2^(n - 1), BackoffMax)

\* _apply_backoff, the attempts being a.  Beyond 1024 failures the delay is no
\* float: the exception ends the tick and the key keeps an elapsed back-off.
\* The mutant does nothing about a failure.
NoBackoff(k, a) == Await(Tail(todo), a) /\ UNCHANGED <<failures, backoff>>
ApplyBackoff(k, a) ==
    IF Overflows /\ failures[k] = MaxFailures
    THEN Await(<<>>, a) /\ UNCHANGED <<failures, backoff>>
    ELSE LET n == Lower(failures[k] + 1, MaxFailures) IN
         /\ failures' = [failures EXCEPT ![k] = n]
         /\ backoff' = [backoff EXCEPT ![k] = Delay(n)]
         /\ Await(Tail(todo), a)

ResetBackoff(k, a) ==
    /\ failures' = [failures EXCEPT ![k] = 0]
    /\ backoff' = [backoff EXCEPT ![k] = 0]
    /\ Await(Tail(todo), a)

\* What reconcile_attempt may leave: the attempt as it is, when the lookup is
\* inconclusive or something else has resolved it; none, also when its market
\* is over; or else what was found.
Answers(k) == {att[k], "none"} \cup
              (IF Needs(k) THEN {"RECONCILING", "WORKING", "RETRY_ELIGIBLE"} ELSE {})

Answer(s) ==
    LET k == Awaited
        a == [att EXCEPT ![k] = s]
    IN
    /\ todo # <<>> /\ s \in Answers(k)
    /\ changes' = IF s \in {att[k], before} THEN changes ELSE changes + 1
    /\ changes' <= MaxChanges
    /\ IF startup THEN Await(Tail(todo), a) /\ UNCHANGED <<failures, backoff>>
       ELSE IF s = "none" \/ s \notin {before, "RECONCILING"} THEN ResetBackoff(k, a)
       ELSE ApplyBackoff(k, a)
    /\ UNCHANGED <<queue, priority, woken>>

\* Time goes by, also after a wake: it comes from the fills' thread, and an
\* asyncio event set there need not rouse the loop before its timer does.
Elapsed == [k \in Keys |-> IF backoff[k] = 0 THEN 0 ELSE backoff[k] - 1]
Pass ==
    /\ sleep > 0
    /\ sleep' = sleep - 1
    /\ backoff' = Elapsed
    /\ UNCHANGED <<attempts, priority, woken, failures, todo, before, startup, changes>>

-----------------------------------------------------------------------------
(* What the worker reacts to.                                              *)

Change == changes < MaxChanges /\ changes' = changes + 1

\* A new attempt is submitted, and no reply to it arrives.
SubmitUnknown(k) ==
    /\ ~Needs(k) /\ Change
    /\ att' = [att EXCEPT ![k] = "ACK_UNKNOWN"]
    /\ \E older \in InOrder(Keys \ {k}) : queue' = <<k>> \o older
    /\ UNCHANGED <<books, woken, tick>>

\* The sweep of an exit decision, or a late reply, moves the attempt.
MoveElsewhere(k, s) ==
    /\ Needs(k) /\ s \notin {"ACK_UNKNOWN", att[k]} /\ Change
    /\ att' = [att EXCEPT ![k] = s]
    /\ UNCHANGED <<queue, books, woken, tick>>

\* note_fill_event: a fill names the attempt's order.
NoteFillEvent(k) ==
    /\ att[k] # "none" /\ Change
    /\ priority' = priority \cup {k}
    /\ woken' = TRUE
    /\ UNCHANGED <<attempts, failures, backoff, tick>>

\* start(): unresolved attempts have been loaded as RECONCILING, and each is
\* looked up once, whatever its number, before the first tick.
Loaded(a) == [k \in Keys |-> Begun(a[k])]

Init ==
    /\ queue \in {CHOOSE q \in SetToSeqs(Keys) : TRUE}   \* keys are alike
    /\ att \in [Keys -> {"none", "RETRY_ELIGIBLE", "RECONCILING"}]
    /\ priority = {} /\ woken = FALSE
    /\ failures = [k \in Keys |-> 0]
    /\ backoff = [k \in Keys |-> 0]
    /\ todo \in InOrder(Needing(att))
    /\ before = IF todo = <<>> THEN "none" ELSE "RECONCILING"
    /\ startup = (todo # <<>>)
    /\ sleep = IF todo = <<>> THEN Interval ELSE LookupTime
    /\ changes = 0

Restart ==
    /\ Change
    /\ att' = Loaded(att)
    /\ priority' = {} /\ woken' = FALSE
    /\ failures' = [k \in Keys |-> 0]
    /\ backoff' = [k \in Keys |-> 0]
    /\ todo' \in InOrder(Needing(att'))
    /\ before' = IF todo' = <<>> THEN "none" ELSE "RECONCILING"
    /\ startup' = (todo' # <<>>)
    /\ sleep' = IF todo' = <<>> THEN Interval ELSE LookupTime
    /\ UNCHANGED queue

Next ==
    \/ Tick \/ Pass
    \/ \E s \in State : Answer(s)
    \/ \E k \in Keys : \/ SubmitUnknown(k) \/ NoteFillEvent(k)
                       \/ \E s \in State : MoveElsewhere(k, s)
    \/ Restart

Spec == Init /\ [][Next]_vars

\* The timer fires, and a lookup is bounded by the client's timeout.
FairSpec == /\ Spec
            /\ WF_vars(Tick) /\ WF_vars(Pass)
            /\ WF_vars(\E s \in State : Answer(s))

-----------------------------------------------------------------------------
(* Properties.                                                             *)

LookedUp(k) == todo # <<>> /\ Awaited = k

\* "Exits must never wait on the next exit request to reconcile": an attempt
\* that needs it is looked up again and again until it is resolved, however
\* many younger ones there are, as long as their number stays within what the
\* back-off's maximum lets the ticks serve.
EveryKeyServed == \A k \in Keys : Needs(k) ~> LookedUp(k) \/ ~Needs(k)

\* A fill's key is passed over by a tick only for other keys that fills have
\* woken, whatever back-off it carries.
WokenGoFirst ==
    [][\A k \in priority \ priority' :
           startup' \/ \/ \E i \in DOMAIN todo' : todo'[i] = k
                       \/ \A i \in DOMAIN todo' : todo'[i] \in priority]_vars
=============================================================================
