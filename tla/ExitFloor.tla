----------------------------- MODULE ExitFloor -----------------------------
(***************************************************************************)
(* The locked-profit floor of one position generation: how arbitrate()     *)
(* derives it from the high-watermark and the trail giveback, how it       *)
(* prices an exit with it, and how position_exit_state.py keeps it.        *)
(*                                                                         *)
(* The process holds two PositionExitStateStore instances over one file:   *)
(* the position monitor's singleton and the arbiter's own.  Each loads the *)
(* file once, when it is first used, and from then on rewrites the whole   *)
(* file from its own memory.  They key the generation differently, so a    *)
(* dictionary holds up to two records of it, each named here by the store  *)
(* that writes it; find_record takes the live one updated last.            *)
(*                                                                         *)
(* Prices are held-side cents, and 0 stands for a field that is absent.    *)
(* Which attempt may be minted is ExitPipeline's subject: here the attempt *)
(* gate lets a proposal through or not.                                    *)
(***************************************************************************)
EXTENDS Integers

CONSTANTS MaxPrice,      \* MAX_PRICE_CENTS
          Breakevens,    \* the breakeven floors callers compute
          Givebacks,     \* the trail givebacks callers declare
          MaxCrashes,    \* bound on process crashes
          FlushMayFail   \* may a rewrite of the file fail, unnoticed?

ASSUME FloorConstants == /\ MaxPrice \in Nat
                         /\ Breakevens \subseteq Nat
                         /\ Givebacks \subseteq Nat \ {0}
                         /\ MaxCrashes \in Nat
                         /\ FlushMayFail \in BOOLEAN

VARIABLES
    memory,    \* each store's records
    loaded,    \* the stores created since the process started
    file,      \* the records in the file
    floor,     \* floor_cents of this process's last arbitration, 0 before any
    giveback,  \* the giveback that arbitration applied
    sale,      \* the exit it submitted
    declared,  \* the last giveback a caller declared to this process, or 0
    earned,    \* the highest executable bid or breakeven anyone ever saw
    crashes    \* crashes so far

stores  == <<memory, loaded, file>>
outcome == <<floor, giveback, sale, declared>>
vars    == <<stores, outcome, earned, crashes>>

Owner   == {"monitor", "arbiter"}
Price   == 1..MaxPrice
Absent  == 0
Larger(a, b) == IF a >= b THEN a ELSE b

Record == [exists : BOOLEAN, archived : BOOLEAN,
           hw : 0..MaxPrice, floor : Nat, gb : {Absent} \cup Givebacks]
NoRecord == [exists |-> FALSE, archived |-> FALSE,
             hw |-> Absent, floor |-> Absent, gb |-> Absent]

\* latest is the record whose updated_at is the later one.
Records == [rec : [Owner -> Record], latest : Owner]
Empty   == [rec |-> [k \in Owner |-> NoRecord], latest |-> "monitor"]

\* An executable book as the caller saw it; NoBook is none, or an empty one,
\* or one of the other side.
NoBook   == [bid |-> Absent, fresh |-> TRUE]
Book     == [bid : Price, fresh : BOOLEAN] \cup {NoBook}
Proposal == [kind : {"ordinary", "emergency", "denied"}, limit : Price]
Sale     == [kind : {"none", "ordinary", "emergency"}, limit : Nat]
NoSale   == [kind |-> "none", limit |-> 0]

TypeOK ==
    /\ memory \in [Owner -> Records]
    /\ loaded \in SUBSET Owner
    /\ file \in Records
    /\ floor \in Nat
    /\ giveback \in {Absent} \cup Givebacks
    /\ sale \in Sale
    /\ declared \in {Absent} \cup Givebacks
    /\ earned \in Nat
    /\ crashes \in 0..MaxCrashes

Init ==
    /\ memory = [o \in Owner |-> Empty]
    /\ loaded = {}
    /\ file = Empty
    /\ floor = 0
    /\ giveback = Absent
    /\ sale = NoSale
    /\ declared = Absent
    /\ earned = 0
    /\ crashes = 0

-----------------------------------------------------------------------------
(* The store.                                                              *)

\* What store o works on: its memory, or the file it loads first.
Held(o) == IF o \in loaded THEN memory[o] ELSE file

Keep(o, d) == /\ memory' = [memory EXCEPT ![o] = d]
              /\ loaded' = loaded \cup {o}

\* _flush: the whole dictionary; a failure is logged and otherwise ignored.
Flush(d) == file' = d \/ (FlushMayFail /\ UNCHANGED file)

Put(d, k, r) == [rec |-> [d.rec EXCEPT ![k] = r], latest |-> k]

Live(d) == {k \in Owner : d.rec[k].exists /\ ~d.rec[k].archived}

FindRecord(d) ==
    IF d.latest \in Live(d) THEN d.rec[d.latest]
    ELSE IF Live(d) = {} THEN NoRecord
    ELSE d.rec[CHOOSE k \in Live(d) : TRUE]

\* record_watermark, record_giveback, record_floor_ratchet.
RecordWatermark(d, w) ==
    LET r == d.rec["arbiter"] IN
    IF r.archived \/ w <= r.hw THEN d
    ELSE Put(d, "arbiter", [r EXCEPT !.exists = TRUE, !.hw = w])

RecordGiveback(d, g) ==
    LET r == d.rec["arbiter"] IN
    IF r.archived THEN d
    ELSE Put(d, "arbiter", [r EXCEPT !.exists = TRUE, !.gb = g])

RecordFloor(d, f) ==
    LET r == d.rec["arbiter"] IN
    IF r.archived \/ f <= r.floor THEN d
    ELSE Put(d, "arbiter", [r EXCEPT !.exists = TRUE, !.floor = f])

\* Mutant: the record is built anew at each poll.
SaveAnew(d, bid) ==
    Put(d, "monitor", [NoRecord EXCEPT
                          !.exists = TRUE, !.hw = Larger(d.rec["monitor"].hw, bid)])

\* save: the monitor's record keeps the higher watermark and stays archived.
\* The floor and the giveback it writes are absent: its Position declares
\* ratchet_floor_price_cents, but nothing ever assigns it.
Save(d, bid) ==
    LET r == d.rec["monitor"] IN
    Put(d, "monitor", [r EXCEPT !.exists = TRUE, !.hw = Larger(@, bid)])

\* archive marks the monitor's record, the only key it computes.
Archived(d) ==
    LET r == d.rec["monitor"] IN
    IF r.exists THEN Put(d, "monitor", [r EXCEPT !.archived = TRUE]) ELSE d

\* Another generation's record changes: the store rewrites the file.
OtherGeneration(o) ==
    /\ Keep(o, Held(o))
    /\ Flush(Held(o))
    /\ UNCHANGED <<outcome, earned, crashes>>

\* restore_into, or a lookup, is what first creates a store.
Load(o) ==
    /\ o \notin loaded
    /\ Keep(o, Held(o))
    /\ UNCHANGED <<file, outcome, earned, crashes>>

-----------------------------------------------------------------------------
(* The monitor's poll of an open position, and the position's removal.     *)

MonitorPoll(bid) ==
    /\ LET d == Save(Held("monitor"), bid) IN
           /\ Keep("monitor", d)
           /\ Flush(d)
    /\ earned' = Larger(earned, bid)
    /\ UNCHANGED <<outcome, crashes>>

RemovePosition ==
    /\ LET d == Archived(Held("monitor")) IN
           /\ Keep("monitor", d)
           /\ Flush(d)
    /\ UNCHANGED <<outcome, earned, crashes>>

-----------------------------------------------------------------------------
(* arbitrate().                                                            *)

\* Mutant: the age of the book is not looked at.
ExecutableAtAnyAge(book) == book.bid

\* What the market pays, which the book shows while it is fresh.
Pays(book) == IF book.fresh THEN book.bid ELSE Absent

\* _observe_executable: only a fresh book counts.
Executable(book) == IF book.fresh THEN book.bid ELSE Absent

\* Step 1: the watermark observed into d; the record then found.
Observed(d, book) == RecordWatermark(d, Executable(book))
Found(d, book)    == FindRecord(Observed(d, book))

\* Mutant: an omitted giveback is no giveback.
GivebackAsStated(r, gb) == gb

\* A caller that declares no giveback gets the persisted one, or none.
GivebackOf(r, gb) == IF gb # Absent THEN gb ELSE r.gb

WithGiveback(d, r, gb) ==
    IF gb # Absent /\ r.gb # gb THEN RecordGiveback(d, gb) ELSE d

Watermark(r, book) == Larger(r.hw, Executable(book))

\* Mutant: the trail is not bounded below by the breakeven.
TrailAlone(r, be, gb, book) == Watermark(r, book) - GivebackOf(r, gb)

\* Mutant: the persisted floor is left out.
FloorFromWatermark(r, be, gb, book) ==
    Larger(be, Watermark(r, book) - GivebackOf(r, gb))

FloorOf(r, be, gb, book) ==
    Larger(Larger(be, r.floor), Watermark(r, book) - GivebackOf(r, gb))

WithFloor(d, r, f) == IF f > r.floor THEN RecordFloor(d, f) ELSE d

\* Mutant: an ordinary exit keeps the limit its producer asked for.
LimitAsked(p, f) == p.limit

\* Step 4: an authorised emergency goes below the floor, nothing else does.
EffLimit(p, f) == IF p.kind = "emergency" THEN p.limit ELSE Larger(p.limit, f)

\* Steps 4 and 5, for the one proposal approve_intent passes.  "denied" is
\* an emergency that is not authorised and names no ordinary fallback.
Submits(p, f, bid) ==
    /\ p.kind # "denied"
    /\ EffLimit(p, f) <= MaxPrice
    /\ bid # Absent => EffLimit(p, f) <= bid

\* The exit submitted, if the attempt gate is open and the proposal stands.
Decide(f, bid) ==
    \/ sale' = NoSale
    \/ \E p \in Proposal :
          /\ Submits(p, f, bid)
          /\ sale' = [kind |-> p.kind, limit |-> EffLimit(p, f)]

\* What is in the file once memory d has become e: a record_* method that
\* changes nothing does not flush.
Flushed(f, d, e) == IF e = d THEN {f}
                    ELSE IF FlushMayFail THEN {f, e} ELSE {e}

Arbitrate(be, gb, book) ==
    LET d0 == Held("arbiter")
        d1 == Observed(d0, book)
        r  == Found(d0, book)
        d2 == WithGiveback(d1, r, gb)
        f  == FloorOf(r, be, gb, book)
        d3 == WithFloor(d2, r, f)
    IN  /\ Keep("arbiter", d3)
        /\ \E f1 \in Flushed(file, d0, d1) : \E f2 \in Flushed(f1, d1, d2) :
              file' \in Flushed(f2, d2, d3)
        /\ floor' = f
        /\ giveback' = GivebackOf(r, gb)
        /\ declared' = IF gb # Absent THEN gb ELSE declared
        /\ earned' = Larger(Larger(earned, be), Pays(book))
        /\ Decide(f, Executable(book))
        /\ UNCHANGED crashes

-----------------------------------------------------------------------------
(* Crash and restart: the stores are gone, with what this process quoted;  *)
(* the file is left.                                                       *)

Restart(found) ==
    /\ crashes < MaxCrashes
    /\ crashes' = crashes + 1
    /\ memory' = [o \in Owner |-> Empty]
    /\ loaded' = {}
    /\ file' = found
    /\ floor' = 0
    /\ giveback' = Absent
    /\ sale' = NoSale
    /\ declared' = Absent

Crash == Restart(file) /\ UNCHANGED earned

\* The process dies between the writes of one arbitration.
CrashInArbitrate(gb, book) ==
    LET d0 == Held("arbiter")
        d1 == Observed(d0, book)
        d2 == WithGiveback(d1, Found(d0, book), gb)
    IN  /\ \E f1 \in Flushed(file, d0, d1) : \E f2 \in Flushed(f1, d1, d2) :
              Restart(f2)
        /\ earned' = Larger(earned, Pays(book))

-----------------------------------------------------------------------------
Stored == \/ \E o \in Owner : OtherGeneration(o) \/ Load(o)
          \/ \E bid \in Price : MonitorPoll(bid)
          \/ RemovePosition

Fault == \/ Crash
         \/ \E gb \in {Absent} \cup Givebacks, book \in Book :
               CrashInArbitrate(gb, book)

Next == \/ Stored
        \/ \E be \in Breakevens, gb \in {Absent} \cup Givebacks, book \in Book :
              Arbitrate(be, gb, book)
        \/ Fault

Spec == Init /\ [][Next]_vars

-----------------------------------------------------------------------------
(* Properties.                                                             *)

\* The record an arbitration finds is the arbiter's own.  It is so from the
\* first floor a process quotes, but for a process that inherits a file whose
\* later record is the monitor's: there the arbiter's is found only once the
\* arbiter has written it again.
LockFound == FindRecord(memory["arbiter"]) = memory["arbiter"].rec["arbiter"]

\* "The lock only moves up": while the arbiter's record is the one found, no
\* arbitration quotes a lower floor for the generation than an earlier one of
\* the process did, whatever breakeven and giveback its caller computes,
\* whether or not it has a book, and whatever a restart left in the file.
FloorNeverFalls == [][LockFound /\ crashes' = crashes => floor' >= floor]_vars

\* An ordinary exit never undercuts a floor the process quoted before it: only
\* an authorised emergency sells below the lock.
OrdinaryNeverUndercuts ==
    [][LockFound /\ sale'.kind = "ordinary" => sale'.limit >= floor]_vars

\* Once a producer has declared the trail giveback to a process, every later
\* arbitration of it whose caller does not restate it applies the declared one,
\* in a process that inherited its file as in the first.
GivebackRemembered == declared # Absent => giveback = declared

\* A floor is never higher than the market or the breakeven ever justified:
\* a lock nobody's bid reached would hold every ordinary exit for ever.
FloorIsEarned == floor <= earned

\* "Archived is terminal", within the store that archives: no poll that comes
\* after the position's removal revives the record there.
ArchiverKeepsArchived ==
    [][memory["monitor"].rec["monitor"].archived /\ crashes' = crashes
           => memory'["monitor"].rec["monitor"].archived]_vars

\* The file does not keep the promise, for the arbiter's store writes back what
\* it loaded: once the file says a record is archived, no write revives it.
ArchivedIsTerminal ==
    [][file.rec["monitor"].archived => file'.rec["monitor"].archived]_vars

\* "The required floor is max(breakeven, persisted trail lock)": the lock
\* the firewall's lookup finds is not below the one in the file.
FirewallSeesLock ==
    FindRecord(Held("monitor")).floor >= FindRecord(file).floor
=============================================================================
