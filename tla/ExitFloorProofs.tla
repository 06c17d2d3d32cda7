-------------------------- MODULE ExitFloorProofs --------------------------
(***************************************************************************)
(* Theorems about ExitFloor, for any prices, breakevens and givebacks.     *)
(* With any number of crashes and failed writes: the types, and that no    *)
(* floor is ever quoted that neither the market nor a breakeven justified. *)
(* In every process lifetime: that the declared giveback is applied and,   *)
(* while the arbiter's record is the one found, that the quoted floor never*)
(* falls and no ordinary exit undercuts it.                                *)
(***************************************************************************)
EXTENDS ExitFloor, TLAPS

-----------------------------------------------------------------------------
(* The store's operators.                                                  *)

\* Larger is the maximum of two integers.
LEMMA LargerIsMax ==
    ASSUME NEW a \in Int, NEW b \in Int
    PROVE  /\ Larger(a, b) \in {a, b}
           /\ Larger(a, b) >= a
           /\ Larger(a, b) >= b
  BY DEF Larger

\* The dictionary a store works on is well typed.
LEMMA HeldType == ASSUME TypeOK, NEW o \in Owner PROVE Held(o) \in Records
  BY DEF TypeOK, Held

\* Put replaces one record of a dictionary and leaves the other.
LEMMA PutType ==
    ASSUME NEW d \in Records, NEW k \in Owner, NEW r \in Record
    PROVE  /\ Put(d, k, r) \in Records
           /\ Put(d, k, r).latest = k
           /\ Put(d, k, r).rec[k] = r
           /\ \A j \in Owner \ {k} : Put(d, k, r).rec[j] = d.rec[j]
  <1>1. d.rec \in [Owner -> Record]
    BY DEF Records
  <1>2. [d.rec EXCEPT ![k] = r] \in [Owner -> Record]
    BY <1>1
  <1> QED  BY <1>1, <1>2 DEF Put, Records

\* find_record returns one of the records, or the empty one.
LEMMA FindRecordFrom ==
    ASSUME NEW d \in Records
    PROVE  /\ FindRecord(d) \in Record
           /\ \/ FindRecord(d) = NoRecord
              \/ \E k \in Owner : FindRecord(d) = d.rec[k]
  <1>1. NoRecord \in Record
    BY FloorConstants DEF NoRecord, Record, Absent
  <1>2. \A k \in Owner : d.rec[k] \in Record
    BY DEF Records
  <1>3. Live(d) \subseteq Owner
    BY DEF Live
  <1>4. Live(d) # {} => (CHOOSE k \in Live(d) : TRUE) \in Live(d)
    OBVIOUS
  <1> QED  BY <1>1, <1>2, <1>3, <1>4, Zenon DEF FindRecord

\* What writing the arbiter's record leaves in the dictionary.
LEMMA ArbiterWrite ==
    ASSUME NEW d \in Records, NEW r \in Record
    PROVE  /\ Put(d, "arbiter", r) \in Records
           /\ Put(d, "arbiter", r).latest = "arbiter"
           /\ Put(d, "arbiter", r).rec["arbiter"] = r
           /\ Put(d, "arbiter", r).rec["monitor"] = d.rec["monitor"]
  <1>1. "arbiter" \in Owner /\ "monitor" \in Owner
    BY DEF Owner
  <1> QED  BY <1>1, PutType

\* Each record_* method changes one field of the arbiter's record at most:
\* e comes of d by such a write, with the fields hw, floor and gb given.
Wrote(d, e, hw, fl, gb) ==
    /\ e \in Records
    /\ e.rec["monitor"] = d.rec["monitor"]
    /\ e.rec["arbiter"].archived = d.rec["arbiter"].archived
    /\ e.rec["arbiter"].hw = hw
    /\ e.rec["arbiter"].floor = fl
    /\ e.rec["arbiter"].gb = gb
    /\ e = d \/ (e.rec["arbiter"].exists /\ e.latest = "arbiter")

\* record_watermark writes the watermark if it is higher.
LEMMA WatermarkWrites ==
    ASSUME NEW d \in Records, NEW w \in 0..MaxPrice,
           ~d.rec["arbiter"].archived
    PROVE  LET a == d.rec["arbiter"]
           IN  Wrote(d, RecordWatermark(d, w), Larger(a.hw, w), a.floor, a.gb)
  <1> DEFINE a == d.rec["arbiter"]
             r == [a EXCEPT !.exists = TRUE, !.hw = w]
  <1>1. a \in Record
    BY DEF Records, Owner
  <1>2. CASE w <= a.hw
    <2>1. Larger(a.hw, w) = a.hw
      BY <1>1, <1>2, FloorConstants DEF Larger, Record
    <2> QED  BY <1>2, <2>1 DEF RecordWatermark, Wrote
  <1>3. CASE ~(w <= a.hw)
    <2>1. Larger(a.hw, w) = w
      BY <1>1, <1>3, FloorConstants DEF Larger, Record
    <2>2. /\ r \in Record /\ r.exists /\ r.hw = w
          /\ r.floor = a.floor /\ r.gb = a.gb /\ r.archived = a.archived
      BY <1>1 DEF Record
    <2>3. RecordWatermark(d, w) = Put(d, "arbiter", r)
      BY <1>3 DEF RecordWatermark
    <2> HIDE DEF r
    <2> QED  BY <2>1, <2>2, <2>3, ArbiterWrite DEF Wrote
  <1> QED  BY <1>2, <1>3

\* record_giveback writes the giveback.
LEMMA GivebackWrites ==
    ASSUME NEW d \in Records, NEW g \in Givebacks,
           ~d.rec["arbiter"].archived
    PROVE  LET a == d.rec["arbiter"]
           IN  Wrote(d, RecordGiveback(d, g), a.hw, a.floor, g)
  <1> DEFINE a == d.rec["arbiter"]
             r == [a EXCEPT !.exists = TRUE, !.gb = g]
  <1>1. a \in Record
    BY DEF Records, Owner
  <1>2. /\ r \in Record /\ r.exists /\ r.gb = g
        /\ r.floor = a.floor /\ r.hw = a.hw /\ r.archived = a.archived
    BY <1>1 DEF Record
  <1>3. RecordGiveback(d, g) = Put(d, "arbiter", r)
    BY DEF RecordGiveback
  <1> HIDE DEF r
  <1> QED  BY <1>2, <1>3, ArbiterWrite DEF Wrote

\* record_floor_ratchet writes the floor if it is higher.
LEMMA FloorWrites ==
    ASSUME NEW d \in Records, NEW f \in Nat,
           ~d.rec["arbiter"].archived
    PROVE  LET a == d.rec["arbiter"]
           IN  Wrote(d, RecordFloor(d, f), a.hw, Larger(a.floor, f), a.gb)
  <1> DEFINE a == d.rec["arbiter"]
             r == [a EXCEPT !.exists = TRUE, !.floor = f]
  <1>1. a \in Record
    BY DEF Records, Owner
  <1>2. CASE f <= a.floor
    <2>1. Larger(a.floor, f) = a.floor
      BY <1>1, <1>2 DEF Larger, Record
    <2> QED  BY <1>2, <2>1 DEF RecordFloor, Wrote
  <1>3. CASE ~(f <= a.floor)
    <2>1. Larger(a.floor, f) = f
      BY <1>1, <1>3 DEF Larger, Record
    <2>2. /\ r \in Record /\ r.exists /\ r.floor = f
          /\ r.hw = a.hw /\ r.gb = a.gb /\ r.archived = a.archived
      BY <1>1 DEF Record
    <2>3. RecordFloor(d, f) = Put(d, "arbiter", r)
      BY <1>3 DEF RecordFloor
    <2> HIDE DEF r
    <2> QED  BY <2>1, <2>2, <2>3, ArbiterWrite DEF Wrote
  <1> QED  BY <1>2, <1>3

\* save keeps the arbiter's record and raises the monitor's watermark.
LEMMA SaveEffect ==
    ASSUME NEW d \in Records, NEW bid \in Price
    PROVE  LET e == Save(d, bid)
               m == d.rec["monitor"]
           IN  /\ e \in Records
               /\ e.rec["arbiter"] = d.rec["arbiter"]
               /\ e.rec["monitor"].hw = Larger(m.hw, bid)
               /\ e.rec["monitor"].floor = m.floor
               /\ e.rec["monitor"].gb = m.gb
               /\ e.rec["monitor"].archived = m.archived
  <1> DEFINE m == d.rec["monitor"]
             r == [m EXCEPT !.exists = TRUE, !.hw = Larger(@, bid)]
  <1>1. m \in Record /\ "monitor" \in Owner /\ "arbiter" \in Owner
    BY DEF Records, Owner
  <1>2. Larger(m.hw, bid) \in 0..MaxPrice
    BY <1>1, FloorConstants DEF Larger, Record, Price
  <1>3. /\ r \in Record /\ r.hw = Larger(m.hw, bid)
        /\ r.floor = m.floor /\ r.gb = m.gb /\ r.archived = m.archived
    BY <1>1, <1>2 DEF Record
  <1>4. Save(d, bid) = Put(d, "monitor", r)
    BY DEF Save
  <1> HIDE DEF r
  <1> QED  BY <1>1, <1>3, <1>4, PutType

\* archive keeps the arbiter's record and every number of the monitor's.
LEMMA ArchivedEffect ==
    ASSUME NEW d \in Records
    PROVE  LET e == Archived(d)
               m == d.rec["monitor"]
           IN  /\ e \in Records
               /\ e.rec["arbiter"] = d.rec["arbiter"]
               /\ e.rec["monitor"].hw = m.hw
               /\ e.rec["monitor"].floor = m.floor
               /\ e.rec["monitor"].gb = m.gb
               /\ m.archived => e.rec["monitor"].archived
  <1> DEFINE m == d.rec["monitor"]
             r == [m EXCEPT !.archived = TRUE]
  <1>1. m \in Record /\ "monitor" \in Owner /\ "arbiter" \in Owner
    BY DEF Records, Owner
  <1>2. /\ r \in Record /\ r.hw = m.hw /\ r.floor = m.floor /\ r.gb = m.gb
        /\ r.archived
    BY <1>1 DEF Record
  <1>3. Archived(d) \in {d, Put(d, "monitor", r)}
    BY DEF Archived
  <1> HIDE DEF r
  <1> QED  BY <1>1, <1>2, <1>3, PutType

-----------------------------------------------------------------------------
(* One arbitration: the record it finds, the floor it quotes and what it   *)
(* makes of the arbiter's dictionary in its three writes.                  *)

Base            == Held("arbiter")
After1(book)    == Observed(Base, book)
Rec(book)       == FindRecord(After1(book))
After2(gb, book) == WithGiveback(After1(book), Rec(book), gb)
Quote(be, gb, book) == FloorOf(Rec(book), be, gb, book)
After3(be, gb, book) ==
    WithFloor(After2(gb, book), Rec(book), Quote(be, gb, book))

\* An executable bid is a price or absent, and is what the market pays.
LEMMA ExecutableType ==
    ASSUME NEW book \in Book
    PROVE  Executable(book) \in 0..MaxPrice /\ Executable(book) = Pays(book)
  BY FloorConstants DEF Executable, Pays, Book, NoBook, Price, Absent

\* The giveback applied is the declared one or the found record's.
LEMMA GivebackType ==
    ASSUME NEW r \in Record, NEW gb \in {Absent} \cup Givebacks
    PROVE  GivebackOf(r, gb) \in {Absent} \cup Givebacks
  BY DEF GivebackOf, Record

\* The quoted floor is at least the breakeven and the persisted floor, and
\* at most the highest of them and the watermark.
LEMMA FloorBounds ==
    ASSUME NEW r \in Record, NEW be \in Breakevens,
           NEW gb \in {Absent} \cup Givebacks, NEW book \in Book
    PROVE  /\ FloorOf(r, be, gb, book) \in Nat
           /\ FloorOf(r, be, gb, book) >= r.floor
           /\ \A e \in Nat : r.floor <= e /\ r.hw <= e /\ be <= e
                                 /\ Executable(book) <= e
                             => FloorOf(r, be, gb, book) <= e
  <1>1. r.floor \in Nat /\ r.hw \in Nat /\ be \in Nat
    BY FloorConstants DEF Record
  <1>2. Executable(book) \in Nat
    BY ExecutableType, FloorConstants
  <1>3. GivebackOf(r, gb) \in Nat
    <2>1. GivebackOf(r, gb) \in {Absent} \cup Givebacks
      BY GivebackType
    <2>2. Absent \in Nat /\ Givebacks \subseteq Nat
      BY FloorConstants DEF Absent
    <2> QED  BY <2>1, <2>2
  <1> QED  BY <1>1, <1>2, <1>3 DEF FloorOf, Watermark, Larger

\* The first two writes of an arbitration: the watermark, the giveback.
LEMMA GivebackWritten ==
    ASSUME TypeOK, ~Base.rec["arbiter"].archived,
           NEW gb \in {Absent} \cup Givebacks, NEW book \in Book
    PROVE  LET a0 == Base.rec["arbiter"]
               a1 == After1(book).rec["arbiter"]
               r  == Rec(book)
           IN  /\ Base \in Records
               /\ r \in Record
               /\ Wrote(Base, After1(book),
                        Larger(a0.hw, Executable(book)), a0.floor, a0.gb)
               /\ Wrote(After1(book), After2(gb, book), a1.hw, a1.floor,
                        IF gb # Absent /\ r.gb # gb THEN gb ELSE a1.gb)
  <1> DEFINE a0 == Base.rec["arbiter"]
             a1 == After1(book).rec["arbiter"]
             r  == Rec(book)
  <1>1. Base \in Records
    BY HeldType DEF Base, Owner
  <1>2. Wrote(Base, After1(book), Larger(a0.hw, Executable(book)), a0.floor, a0.gb)
    BY <1>1, ExecutableType, WatermarkWrites DEF After1, Observed
  <1>3. After1(book) \in Records /\ ~a1.archived
    BY <1>2 DEF Wrote
  <1>4. r \in Record
    BY <1>3, FindRecordFrom DEF Rec
  <1>5. CASE gb # Absent /\ r.gb # gb
    <2>1. gb \in Givebacks /\ After2(gb, book) = RecordGiveback(After1(book), gb)
      BY <1>5 DEF After2, WithGiveback
    <2> QED  BY <1>1, <1>2, <1>3, <1>4, <1>5, <2>1, GivebackWrites
  <1>6. CASE ~(gb # Absent /\ r.gb # gb)
    <2>1. After2(gb, book) = After1(book)
      BY <1>6 DEF After2, WithGiveback
    <2> QED  BY <1>1, <1>2, <1>3, <1>4, <1>6, <2>1 DEF Wrote
  <1> QED  BY <1>5, <1>6

\* The third: the floor, if it is above the one found.
LEMMA ArbitrateWrites ==
    ASSUME TypeOK, ~Base.rec["arbiter"].archived,
           NEW be \in Breakevens, NEW gb \in {Absent} \cup Givebacks,
           NEW book \in Book
    PROVE  LET a2 == After2(gb, book).rec["arbiter"]
               r  == Rec(book)
               f  == Quote(be, gb, book)
           IN  /\ r \in Record
               /\ Wrote(After2(gb, book), After3(be, gb, book), a2.hw,
                        IF f > r.floor THEN Larger(a2.floor, f) ELSE a2.floor,
                        a2.gb)
  <1> DEFINE a2 == After2(gb, book).rec["arbiter"]
             r  == Rec(book)
             f  == Quote(be, gb, book)
  <1>1. r \in Record /\ After2(gb, book) \in Records /\ ~a2.archived
    BY GivebackWritten DEF Wrote
  <1>2. f \in Nat
    BY <1>1, FloorBounds DEF Quote
  <1>3. CASE f > r.floor
    <2>1. After3(be, gb, book) = RecordFloor(After2(gb, book), f)
      BY <1>3 DEF After3, WithFloor
    <2> QED  BY <1>1, <1>2, <1>3, <2>1, FloorWrites
  <1>4. CASE ~(f > r.floor)
    <2>1. After3(be, gb, book) = After2(gb, book)
      BY <1>4 DEF After3, WithFloor
    <2> QED  BY <1>1, <1>4, <2>1 DEF Wrote
  <1> QED  BY <1>3, <1>4

\* What an arbitration does to the state, in those terms.
LEMMA ArbitrateState ==
    ASSUME NEW be, NEW gb, NEW book, Arbitrate(be, gb, book)
    PROVE  /\ Keep("arbiter", After3(be, gb, book))
           /\ file' \in {file, After1(book), After2(gb, book), After3(be, gb, book)}
           /\ floor' = Quote(be, gb, book)
           /\ giveback' = GivebackOf(Rec(book), gb)
           /\ declared' = IF gb # Absent THEN gb ELSE declared
           /\ earned' = Larger(Larger(earned, be), Pays(book))
           /\ Decide(Quote(be, gb, book), Executable(book))
           /\ UNCHANGED crashes
  BY DEF Arbitrate, Found, Flushed, Base, After1, After2, After3, Rec, Quote

\* The exit it submits: an ordinary one is at the quoted floor or above.
LEMMA DecideSale ==
    ASSUME NEW f \in Nat, NEW bid, Decide(f, bid)
    PROVE  sale' \in Sale /\ (sale'.kind = "ordinary" => sale'.limit >= f)
  <1>1. CASE sale' = NoSale
    BY <1>1 DEF NoSale, Sale
  <1>2. ASSUME NEW p \in Proposal, Submits(p, f, bid),
               sale' = [kind |-> p.kind, limit |-> EffLimit(p, f)]
        PROVE  sale' \in Sale /\ (sale'.kind = "ordinary" => sale'.limit >= f)
    <2>1. p.limit \in Nat /\ p.kind \in {"ordinary", "emergency", "denied"}
      BY <1>2, FloorConstants DEF Proposal, Price
    <2>2. p.kind # "denied"
      BY <1>2 DEF Submits
    <2>3. EffLimit(p, f) \in Nat /\ (p.kind = "ordinary" => EffLimit(p, f) >= f)
      BY <2>1 DEF EffLimit, Larger
    <2> QED  BY <1>2, <2>1, <2>2, <2>3 DEF Sale
  <1> QED  BY <1>1, <1>2 DEF Decide

-----------------------------------------------------------------------------
(* Types, and floors that somebody's bid or breakeven justified.           *)

\* The arbiter's record is never archived, and no record of the dictionary
\* holds a watermark or a floor above e.
Sound(d, e) ==
    /\ ~d.rec["arbiter"].archived
    /\ \A k \in Owner : d.rec[k].hw <= e /\ d.rec[k].floor <= e

\* The inductive invariant: it holds of both memories and of the file, since
\* each can become any other by a flush or a load.
EarnedInv ==
    /\ TypeOK
    /\ \A o \in Owner : Sound(memory[o], earned)
    /\ Sound(file, earned)
    /\ FloorIsEarned

\* A write of values at most e keeps a dictionary sound.
LEMMA SoundWrite ==
    ASSUME NEW d \in Records, NEW dd, NEW hw \in Nat, NEW fl \in Nat, NEW gb,
           NEW e \in Nat, Sound(d, e), Wrote(d, dd, hw, fl, gb),
           hw <= e, fl <= e
    PROVE  Sound(dd, e)
  BY DEF Sound, Wrote, Owner

\* A higher justification does no harm.
LEMMA SoundGrows ==
    ASSUME NEW d \in Records, NEW e \in Nat, NEW ee \in Nat,
           e <= ee, Sound(d, e)
    PROVE  Sound(d, ee)
  <1>1. \A k \in Owner : d.rec[k].hw \in Nat /\ d.rec[k].floor \in Nat
    BY FloorConstants DEF Records, Record
  <1> QED  BY <1>1 DEF Sound

\* What find_record returns of a sound dictionary.
LEMMA SoundFind ==
    ASSUME NEW d \in Records, NEW e \in Nat, Sound(d, e)
    PROVE  FindRecord(d).hw <= e /\ FindRecord(d).floor <= e
  <1>1. NoRecord.hw <= e /\ NoRecord.floor <= e
    BY DEF NoRecord, Absent
  <1> QED  BY <1>1, FindRecordFrom DEF Sound

\* The dictionary a store works on is sound.
LEMMA HeldSound ==
    ASSUME EarnedInv, NEW o \in Owner
    PROVE  Held(o) \in Records /\ Sound(Held(o), earned)
  BY HeldType DEF EarnedInv, Held

LEMMA EmptySound == Empty \in Records /\ \A e \in Nat : Sound(Empty, e)
  BY FloorConstants
     DEF Empty, Records, Record, NoRecord, Owner, Absent, Sound

LEMMA EarnedInit == Init => EarnedInv
  <1> SUFFICES ASSUME Init PROVE EarnedInv
    OBVIOUS
  <1>1. memory \in [Owner -> Records] /\ file \in Records
    BY EmptySound DEF Init
  <1>2. TypeOK
    BY <1>1, FloorConstants DEF Init, TypeOK, Sale, NoSale, Absent
  <1> QED  BY <1>2, EmptySound DEF Init, EarnedInv, FloorIsEarned

\* A step in which store o keeps a sound dictionary d, the file becomes one
\* of several sound dictionaries, and the rest stays well typed.
LEMMA EarnedKept ==
    ASSUME EarnedInv, NEW o \in Owner, NEW d \in Records,
           Keep(o, d), file' \in Records,
           earned' \in Nat, earned <= earned',
           Sound(d, earned'), Sound(file', earned'),
           floor' \in Nat, floor' <= earned',
           giveback' \in {Absent} \cup Givebacks, sale' \in Sale,
           declared' \in {Absent} \cup Givebacks, crashes' = crashes
    PROVE  EarnedInv'
  <1>1. memory' \in [Owner -> Records]
    BY DEF EarnedInv, TypeOK, Keep
  <1>2. loaded' \in SUBSET Owner
    BY DEF EarnedInv, TypeOK, Keep
  <1>3. TypeOK'
    BY <1>1, <1>2 DEF EarnedInv, TypeOK
  <1>4. ASSUME NEW x \in Owner PROVE Sound(memory'[x], earned')
    <2>1. CASE x = o
      BY <2>1 DEF EarnedInv, TypeOK, Keep
    <2>2. CASE x # o
      <3>1. memory'[x] = memory[x] /\ memory[x] \in Records
        BY <2>2 DEF EarnedInv, TypeOK, Keep
      <3> QED  BY <3>1, SoundGrows DEF EarnedInv, TypeOK
    <2> QED  BY <2>1, <2>2
  <1> QED  BY <1>3, <1>4 DEF EarnedInv, FloorIsEarned

\* The monitor's and the other generations' steps.
LEMMA EarnedStored == EarnedInv /\ Stored => EarnedInv'
  <1> SUFFICES ASSUME EarnedInv, Stored PROVE EarnedInv'
    OBVIOUS
  <1> USE DEF outcome
  <1>1. /\ earned \in Nat /\ earned <= earned /\ floor \in Nat /\ floor <= earned
        /\ giveback \in {Absent} \cup Givebacks /\ sale \in Sale
        /\ declared \in {Absent} \cup Givebacks
        /\ file \in Records /\ Sound(file, earned)
    BY DEF EarnedInv, TypeOK, FloorIsEarned
  <1>2. ASSUME NEW o \in Owner, OtherGeneration(o) \/ Load(o) PROVE EarnedInv'
    <2>1. Held(o) \in Records /\ Sound(Held(o), earned)
      BY HeldSound
    <2>2. /\ Keep(o, Held(o)) /\ file' \in {file, Held(o)}
          /\ UNCHANGED <<outcome, earned, crashes>>
      BY <1>2 DEF OtherGeneration, Load, Flush
    <2>3. file' \in Records /\ Sound(file', earned')
      BY <1>1, <2>1, <2>2
    <2> QED  BY <1>1, <2>1, <2>2, <2>3, EarnedKept
  <1>3. ASSUME NEW bid \in Price, MonitorPoll(bid) PROVE EarnedInv'
    <2> DEFINE h == Held("monitor")
               d == Save(h, bid)
    <2>1. "monitor" \in Owner /\ h \in Records /\ Sound(h, earned)
      BY HeldSound DEF Owner
    <2>2. bid \in Nat /\ earned' = Larger(earned, bid)
      BY <1>3, FloorConstants DEF MonitorPoll, Price
    <2>3. earned' \in Nat /\ earned <= earned' /\ bid <= earned'
      BY <1>1, <2>2, LargerIsMax
    <2>4. Sound(h, earned')
      BY <1>1, <2>1, <2>3, SoundGrows
    <2>5. h.rec["monitor"].hw \in Nat
      BY <2>1, FloorConstants DEF Records, Record
    <2>6. Larger(h.rec["monitor"].hw, bid) <= earned'
      BY <2>2, <2>3, <2>4, <2>5, LargerIsMax DEF Sound, Owner
    <2>7. d \in Records /\ Sound(d, earned')
      BY <2>1, <2>4, <2>6, SaveEffect DEF Sound, Owner
    <2>8. /\ Keep("monitor", d) /\ file' \in {file, d}
          /\ UNCHANGED <<outcome, crashes>>
      BY <1>3 DEF MonitorPoll, Flush
    <2> HIDE DEF d, h
    <2>9. file' \in Records /\ Sound(file', earned')
      BY <1>1, <2>3, <2>7, <2>8, SoundGrows
    <2>10. floor' \in Nat /\ floor' <= earned'
      BY <1>1, <2>3, <2>8
    <2> QED  BY <1>1, <2>1, <2>3, <2>7, <2>8, <2>9, <2>10, EarnedKept
  <1>4. ASSUME RemovePosition PROVE EarnedInv'
    <2> DEFINE h == Held("monitor")
               d == Archived(h)
    <2>1. "monitor" \in Owner /\ h \in Records /\ Sound(h, earned)
      BY HeldSound DEF Owner
    <2>2. d \in Records /\ Sound(d, earned)
      BY <2>1, ArchivedEffect DEF Sound, Owner
    <2>3. /\ Keep("monitor", d) /\ file' \in {file, d}
          /\ UNCHANGED <<outcome, earned, crashes>>
      BY <1>4 DEF RemovePosition, Flush
    <2> HIDE DEF d, h
    <2>4. file' \in Records /\ Sound(file', earned')
      BY <1>1, <2>2, <2>3
    <2> QED  BY <1>1, <2>1, <2>2, <2>3, <2>4, EarnedKept
  <1> QED  BY <1>2, <1>3, <1>4 DEF Stored

\* What the observation and the giveback make of the dictionary is sound.
LEMMA ObservedSound ==
    ASSUME EarnedInv, NEW gb \in {Absent} \cup Givebacks, NEW book \in Book,
           NEW e \in Nat, earned <= e, Executable(book) <= e
    PROVE  /\ ~Base.rec["arbiter"].archived
           /\ \A d \in {After1(book), After2(gb, book)} :
                 d \in Records /\ Sound(d, e)
  <1> DEFINE a0 == Base.rec["arbiter"]
             a1 == After1(book).rec["arbiter"]
             r  == Rec(book)
  <1>1. TypeOK /\ earned \in Nat
    BY DEF EarnedInv, TypeOK
  <1>2. Base \in Records /\ Sound(Base, e)
    BY <1>1, HeldSound, SoundGrows DEF Base, Owner
  <1>3. ~a0.archived
    BY <1>2 DEF Sound
  <1>4. /\ Wrote(Base, After1(book), Larger(a0.hw, Executable(book)), a0.floor, a0.gb)
        /\ Wrote(After1(book), After2(gb, book), a1.hw, a1.floor,
                 IF gb # Absent /\ r.gb # gb THEN gb ELSE a1.gb)
    BY <1>1, <1>3, GivebackWritten
  <1>5. \A d \in Records : d.rec["arbiter"].hw \in Nat /\ d.rec["arbiter"].floor \in Nat
    BY FloorConstants DEF Records, Record, Owner
  <1>6. \A d \in Records : Sound(d, e) => /\ d.rec["arbiter"].hw <= e
                                          /\ d.rec["arbiter"].floor <= e
    BY DEF Sound, Owner
  <1>7. Executable(book) \in Nat
    BY ExecutableType, FloorConstants
  <1>8. After1(book) \in Records /\ Sound(After1(book), e)
    <2>1. Larger(a0.hw, Executable(book)) \in Nat /\ Larger(a0.hw, Executable(book)) <= e
      BY <1>2, <1>5, <1>6, <1>7 DEF Larger
    <2> QED  BY <1>2, <1>4, <1>5, <1>6, <2>1, SoundWrite DEF Wrote
  <1>9. After2(gb, book) \in Records /\ Sound(After2(gb, book), e)
    BY <1>4, <1>5, <1>6, <1>8, SoundWrite DEF Wrote
  <1> QED  BY <1>3, <1>8, <1>9

\* So is what the floor makes of it, and the floor that is quoted.
LEMMA QuoteSound ==
    ASSUME EarnedInv, NEW be \in Breakevens,
           NEW gb \in {Absent} \cup Givebacks, NEW book \in Book,
           NEW e \in Nat, earned <= e, be <= e, Executable(book) <= e
    PROVE  /\ Quote(be, gb, book) \in Nat /\ Quote(be, gb, book) <= e
           /\ GivebackOf(Rec(book), gb) \in {Absent} \cup Givebacks
           /\ After3(be, gb, book) \in Records /\ Sound(After3(be, gb, book), e)
  <1> DEFINE a2 == After2(gb, book).rec["arbiter"]
             r  == Rec(book)
             f  == Quote(be, gb, book)
             g  == IF f > r.floor THEN Larger(a2.floor, f) ELSE a2.floor
  <1>1. /\ ~Base.rec["arbiter"].archived
        /\ After1(book) \in Records /\ Sound(After1(book), e)
        /\ After2(gb, book) \in Records /\ Sound(After2(gb, book), e)
    BY ObservedSound
  <1>2. r \in Record /\ Wrote(After2(gb, book), After3(be, gb, book), a2.hw, g, a2.gb)
    BY <1>1, ArbitrateWrites DEF EarnedInv
  <1>3. f \in Nat /\ f <= e
    <2>1. r.hw <= e /\ r.floor <= e
      BY <1>1, SoundFind DEF Rec
    <2> QED  BY <1>2, <2>1, FloorBounds DEF Quote
  <1>4. /\ a2.hw \in Nat /\ a2.hw <= e
        /\ a2.floor \in Nat /\ a2.floor <= e
    BY <1>1, FloorConstants DEF Records, Record, Owner, Sound
  <1>5. g \in Nat /\ g <= e
    BY <1>3, <1>4 DEF Larger
  <1>6. After3(be, gb, book) \in Records /\ Sound(After3(be, gb, book), e)
    BY <1>1, <1>2, <1>4, <1>5, SoundWrite DEF Wrote
  <1> QED  BY <1>2, <1>3, <1>6, GivebackType

\* An arbitration.
LEMMA EarnedArbitrate ==
    ASSUME EarnedInv, NEW be \in Breakevens,
           NEW gb \in {Absent} \cup Givebacks, NEW book \in Book,
           Arbitrate(be, gb, book)
    PROVE  EarnedInv'
  <1>1. earned \in Nat /\ be \in Nat /\ Executable(book) \in Nat
        /\ Executable(book) = Pays(book)
    BY ExecutableType, FloorConstants DEF EarnedInv, TypeOK
  <1>2. earned' = Larger(Larger(earned, be), Pays(book))
    BY ArbitrateState
  <1>3. /\ earned' \in Nat /\ earned <= earned' /\ be <= earned'
        /\ Executable(book) <= earned'
    BY <1>1, <1>2 DEF Larger
  <1>4. /\ Quote(be, gb, book) \in Nat /\ Quote(be, gb, book) <= earned'
        /\ GivebackOf(Rec(book), gb) \in {Absent} \cup Givebacks
        /\ \A d \in {After1(book), After2(gb, book), After3(be, gb, book)} :
              d \in Records /\ Sound(d, earned')
    BY <1>3, ObservedSound, QuoteSound
  <1>5. file \in Records /\ Sound(file, earned')
    BY <1>1, <1>3, SoundGrows DEF EarnedInv, TypeOK
  <1>6. file' \in Records /\ Sound(file', earned')
    BY <1>4, <1>5, ArbitrateState
  <1>7. sale' \in Sale
    BY <1>4, ArbitrateState, DecideSale
  <1>8. /\ Keep("arbiter", After3(be, gb, book)) /\ floor' = Quote(be, gb, book)
        /\ giveback' = GivebackOf(Rec(book), gb) /\ crashes' = crashes
        /\ declared' = IF gb # Absent THEN gb ELSE declared
    BY ArbitrateState
  <1>9. declared' \in {Absent} \cup Givebacks
    BY <1>8 DEF EarnedInv, TypeOK
  <1>10. "arbiter" \in Owner
    BY DEF Owner
  <1> QED  BY <1>3, <1>4, <1>6, <1>7, <1>8, <1>9, <1>10, EarnedKept

\* A crash, between arbitrations or within one, leaves one of the dictionaries
\* its arbitration made in the file.
LEMMA FaultState ==
    ASSUME EarnedInv, Fault
    PROVE  \/ Restart(file) /\ earned' = earned
           \/ \E gb \in {Absent} \cup Givebacks, book \in Book :
                 /\ \E d \in {file, After1(book), After2(gb, book)} : Restart(d)
                 /\ earned' = Larger(earned, Pays(book))
  BY DEF Fault, Crash, CrashInArbitrate, After1, After2, Rec, Base, Found, Flushed

LEMMA EarnedFault == EarnedInv /\ Fault => EarnedInv'
  <1> SUFFICES ASSUME EarnedInv, Fault PROVE EarnedInv'
    OBVIOUS
  <1>1. ASSUME NEW d \in Records, Restart(d),
               earned' \in Nat, earned <= earned', Sound(d, earned')
        PROVE  EarnedInv'
    <2>1. crashes' \in 0..MaxCrashes
      BY <1>1, FloorConstants DEF Restart, EarnedInv, TypeOK
    <2>2. memory' \in [Owner -> Records] /\ loaded' \in SUBSET Owner
      BY <1>1, EmptySound DEF Restart
    <2>3. /\ file' = d /\ floor' = 0 /\ giveback' = Absent
          /\ sale' = NoSale /\ declared' = Absent
      BY <1>1 DEF Restart
    <2>4. TypeOK'
      BY <1>1, <2>1, <2>2, <2>3 DEF TypeOK, Sale, NoSale
    <2>5. \A o \in Owner : Sound(memory'[o], earned')
      BY <1>1, EmptySound DEF Restart
    <2>6. FloorIsEarned'
      BY <1>1, <2>3 DEF FloorIsEarned
    <2> QED  BY <1>1, <2>3, <2>4, <2>5, <2>6 DEF EarnedInv
  <1>2. file \in Records /\ Sound(file, earned) /\ earned \in Nat
    BY DEF EarnedInv, TypeOK
  <1>3. ASSUME Restart(file), earned' = earned PROVE EarnedInv'
    BY <1>1, <1>2, <1>3
  <1>4. ASSUME NEW gb \in {Absent} \cup Givebacks, NEW book \in Book,
               NEW d \in {file, After1(book), After2(gb, book)}, Restart(d),
               earned' = Larger(earned, Pays(book))
        PROVE  EarnedInv'
    <2>1. Executable(book) \in Nat /\ Executable(book) = Pays(book)
      BY ExecutableType, FloorConstants
    <2>2. earned' \in Nat /\ earned <= earned' /\ Executable(book) <= earned'
      BY <1>2, <1>4, <2>1 DEF Larger
    <2>3. \A e \in {After1(book), After2(gb, book)} :
              e \in Records /\ Sound(e, earned')
      BY <2>2, ObservedSound
    <2>4. file \in Records /\ Sound(file, earned')
      BY <1>2, <2>2, SoundGrows
    <2> QED  BY <1>1, <1>4, <2>2, <2>3, <2>4
  <1> QED  BY <1>3, <1>4, FaultState

LEMMA EarnedStep == EarnedInv /\ [Next]_vars => EarnedInv'
  <1> SUFFICES ASSUME EarnedInv, [Next]_vars PROVE EarnedInv'
    OBVIOUS
  <1>1. CASE UNCHANGED vars
    BY <1>1 DEF vars, stores, outcome, EarnedInv, TypeOK, Sound, FloorIsEarned
  <1>2. CASE Next
    BY <1>2, EarnedStored, EarnedArbitrate, EarnedFault DEF Next
  <1> QED  BY <1>1, <1>2

LEMMA AlwaysEarned == Spec => []EarnedInv
  BY EarnedInit, EarnedStep, PTL DEF Spec

\* Every variable keeps its type, with any number of crashes and failed
\* writes of the exit-state file.
THEOREM TypeCorrect == Spec => []TypeOK
  <1>1. EarnedInv => TypeOK
    BY DEF EarnedInv
  <1> QED  BY <1>1, AlwaysEarned, PTL

\* No arbitration ever quotes a floor above every executable bid and every
\* breakeven seen so far, whatever restarts and lost writes did to the file.
THEOREM FloorsAreEarned == Spec => []FloorIsEarned
  <1>1. EarnedInv => FloorIsEarned
    BY DEF EarnedInv
  <1> QED  BY <1>1, AlwaysEarned, PTL

-----------------------------------------------------------------------------
(* Each process lifetime.                                                  *)

\* The monitor's record never carries a floor or a giveback.
Plain(d) == d.rec["monitor"].floor = Absent /\ d.rec["monitor"].gb = Absent

\* The arbiter's record is the one that find_record returns.
Shadows(d) == FindRecord(d) = d.rec["arbiter"]

\* The inductive invariant.  What this process has quoted and been told is in
\* the arbiter's record of its memory; before the arbiter's store is created
\* there is nothing to remember, whatever the file holds.
ProcessInv ==
    /\ EarnedInv
    /\ \A o \in Owner : Plain(memory[o])
    /\ Plain(file)
    /\ "arbiter" \notin loaded => floor = 0 /\ declared = Absent
    /\ memory["arbiter"].rec["arbiter"].floor >= floor
    /\ declared # Absent => /\ Shadows(memory["arbiter"])
                            /\ memory["arbiter"].rec["arbiter"].gb = declared
    /\ GivebackRemembered
    /\ sale.kind = "ordinary" => sale.limit >= floor

LEMMA EmptyPlain == Plain(Empty) /\ Empty.rec["arbiter"].floor = 0
  BY DEF Plain, Empty, NoRecord, Owner, Absent

LEMMA ProcessInit == Init => ProcessInv
  BY EarnedInit, EmptyPlain
     DEF Init, ProcessInv, GivebackRemembered, NoSale, Absent, Owner

\* The dictionary any store works on is plain.
LEMMA HeldPlain == ASSUME ProcessInv, NEW o \in Owner PROVE Plain(Held(o))
  BY DEF ProcessInv, Held

\* A record found has the floor and the giveback of the arbiter's, or none.
LEMMA FindPlain ==
    ASSUME NEW d \in Records, Plain(d)
    PROVE  \/ Shadows(d)
           \/ FindRecord(d).floor = Absent /\ FindRecord(d).gb = Absent
  <1>1. NoRecord.floor = Absent /\ NoRecord.gb = Absent
    BY DEF NoRecord
  <1>2. \/ FindRecord(d) = NoRecord
        \/ FindRecord(d) = d.rec["monitor"]
        \/ FindRecord(d) = d.rec["arbiter"]
    BY FindRecordFrom DEF Owner
  <1> QED  BY <1>1, <1>2 DEF Plain, Shadows

\* A write of the arbiter's record makes it the one found, and one that writes
\* nothing leaves it so.
LEMMA WroteShadows ==
    ASSUME NEW d \in Records, NEW e, NEW hw, NEW fl, NEW gb,
           Wrote(d, e, hw, fl, gb), Plain(d), ~d.rec["arbiter"].archived
    PROVE  /\ Plain(e)
           /\ e = d \/ Shadows(e)
           /\ Shadows(d) => Shadows(e)
  <1>1. Plain(e)
    BY DEF Wrote, Plain
  <1>2. e = d \/ Shadows(e)
    <2> SUFFICES ASSUME e # d PROVE Shadows(e)
      OBVIOUS
    <2>1. /\ e.rec["arbiter"].exists /\ e.latest = "arbiter"
          /\ ~e.rec["arbiter"].archived
      BY DEF Wrote
    <2>2. e.latest \in Live(e)
      BY <2>1 DEF Live, Owner
    <2> QED  BY <2>1, <2>2 DEF Shadows, FindRecord
  <1> QED  BY <1>1, <1>2

\* Steps other than an arbitration leave what the arbiter remembers alone.
LEMMA ProcessStored == ProcessInv /\ Stored => ProcessInv'
  <1> SUFFICES ASSUME ProcessInv, Stored PROVE ProcessInv'
    OBVIOUS
  <1>1. EarnedInv'
    BY EarnedStored DEF ProcessInv
  <1>2. /\ memory \in [Owner -> Records] /\ loaded \subseteq Owner
        /\ "arbiter" \in Owner /\ "monitor" \in Owner
    BY DEF ProcessInv, EarnedInv, TypeOK, Owner
  <1>3. ASSUME NEW o \in Owner, NEW d \in Records, Keep(o, d),
               file' \in {file, d}, UNCHANGED outcome, Plain(d),
               o = "arbiter" => d = Base
        PROVE  ProcessInv'
    <2>1. \A x \in Owner : Plain(memory'[x])
      BY <1>2, <1>3 DEF Keep, ProcessInv
    <2>2. Plain(file')
      BY <1>3 DEF ProcessInv
    <2>3. "arbiter" \notin loaded' => floor' = 0 /\ declared' = Absent
      BY <1>3 DEF Keep, outcome, ProcessInv
    <2>4. memory'["arbiter"] = memory["arbiter"]
          \/ ("arbiter" \notin loaded /\ memory'["arbiter"] \in Records)
      BY <1>2, <1>3 DEF Keep, Base, Held
    <2>5. \A e \in Records : e.rec["arbiter"].floor \in Nat
      BY DEF Records, Record, Owner
    <2>6. /\ memory'["arbiter"].rec["arbiter"].floor >= floor'
          /\ declared' # Absent => /\ Shadows(memory'["arbiter"])
                                   /\ memory'["arbiter"].rec["arbiter"].gb = declared'
      BY <1>3, <2>4, <2>5 DEF outcome, ProcessInv
    <2>7. GivebackRemembered' /\ (sale'.kind = "ordinary" => sale'.limit >= floor')
      BY <1>3 DEF outcome, ProcessInv, GivebackRemembered
    <2> QED  BY <1>1, <2>1, <2>2, <2>3, <2>6, <2>7 DEF ProcessInv
  <1>4. ASSUME NEW o \in Owner PROVE Held(o) \in Records /\ Plain(Held(o))
    BY HeldPlain, HeldType DEF ProcessInv, EarnedInv
  <1>5. ASSUME NEW o \in Owner, OtherGeneration(o) \/ Load(o) PROVE ProcessInv'
    <2>1. /\ Keep(o, Held(o)) /\ file' \in {file, Held(o)} /\ UNCHANGED outcome
      BY <1>5 DEF OtherGeneration, Load, Flush
    <2> QED  BY <1>3, <1>4, <2>1 DEF Base
  <1>6. ASSUME NEW bid \in Price, MonitorPoll(bid) PROVE ProcessInv'
    <2> DEFINE d == Save(Held("monitor"), bid)
    <2>1. d \in Records /\ Plain(d)
      BY <1>2, <1>4, SaveEffect DEF Plain
    <2>2. Keep("monitor", d) /\ file' \in {file, d} /\ UNCHANGED outcome
      BY <1>6 DEF MonitorPoll, Flush
    <2> HIDE DEF d
    <2> QED  BY <1>2, <1>3, <2>1, <2>2
  <1>7. ASSUME RemovePosition PROVE ProcessInv'
    <2> DEFINE d == Archived(Held("monitor"))
    <2>1. d \in Records /\ Plain(d)
      BY <1>2, <1>4, ArchivedEffect DEF Plain
    <2>2. Keep("monitor", d) /\ file' \in {file, d} /\ UNCHANGED outcome
      BY <1>7 DEF RemovePosition, Flush
    <2> HIDE DEF d
    <2> QED  BY <1>2, <1>3, <2>1, <2>2
  <1> QED  BY <1>5, <1>6, <1>7 DEF Stored

\* An arbitration keeps the invariant, and quotes no less than the last one
\* where the arbiter's record is the one found.
LEMMA ProcessArbitrate ==
    ASSUME ProcessInv, NEW be \in Breakevens,
           NEW gb \in {Absent} \cup Givebacks, NEW book \in Book,
           Arbitrate(be, gb, book)
    PROVE  ProcessInv' /\ (LockFound => floor' >= floor)
  <1> DEFINE a0 == Base.rec["arbiter"]
             d1 == After1(book)
             d2 == After2(gb, book)
             d3 == After3(be, gb, book)
             r  == Rec(book)
             f  == Quote(be, gb, book)
  <1>1. EarnedInv /\ TypeOK /\ EarnedInv'
    BY EarnedArbitrate DEF ProcessInv, EarnedInv
  <1>2. Base \in Records /\ ~a0.archived /\ Plain(Base)
    BY <1>1, HeldSound, HeldPlain DEF ProcessInv, Sound, Base, Owner
  <1>3. /\ r \in Record
        /\ Wrote(Base, d1, Larger(a0.hw, Executable(book)), a0.floor, a0.gb)
        /\ Wrote(d1, d2, d1.rec["arbiter"].hw, d1.rec["arbiter"].floor,
                 IF gb # Absent /\ r.gb # gb THEN gb ELSE d1.rec["arbiter"].gb)
        /\ Wrote(d2, d3, d2.rec["arbiter"].hw,
                 IF f > r.floor THEN Larger(d2.rec["arbiter"].floor, f)
                                ELSE d2.rec["arbiter"].floor,
                 d2.rec["arbiter"].gb)
    BY <1>1, <1>2, GivebackWritten, ArbitrateWrites
  <1>4. /\ d1 \in Records /\ ~d1.rec["arbiter"].archived /\ Plain(d1)
        /\ d1.rec["arbiter"].floor = a0.floor /\ d1.rec["arbiter"].gb = a0.gb
        /\ Shadows(Base) => Shadows(d1)
    BY <1>2, <1>3, WroteShadows DEF Wrote
  <1>5. /\ d2 \in Records /\ ~d2.rec["arbiter"].archived /\ Plain(d2)
        /\ d2.rec["arbiter"].floor = a0.floor
        /\ d2 = d1 \/ Shadows(d2)
        /\ Shadows(d1) => Shadows(d2)
    BY <1>3, <1>4, WroteShadows DEF Wrote
  <1>6. /\ d3 \in Records /\ Plain(d3)
        /\ d3.rec["arbiter"].gb = d2.rec["arbiter"].gb
        /\ Shadows(d2) => Shadows(d3)
    BY <1>3, <1>5, WroteShadows DEF Wrote
  <1>7. Shadows(d1) \/ (r.floor = Absent /\ r.gb = Absent)
    BY <1>4, FindPlain DEF Rec
  <1>8. Shadows(d1) => r.floor = a0.floor /\ r.gb = a0.gb
    BY <1>4 DEF Rec, Shadows
  <1>9. /\ f \in Nat /\ f >= r.floor /\ r.floor \in Nat /\ a0.floor \in Nat
        /\ floor \in Nat
    BY <1>1, <1>2, <1>3, FloorBounds DEF Quote, Record, Records, Owner, TypeOK
  <1>10. d3.rec["arbiter"].floor >= f
    <2>1. d3.rec["arbiter"].floor =
              IF f > r.floor THEN Larger(a0.floor, f) ELSE a0.floor
      BY <1>3, <1>5 DEF Wrote
    <2>2. r.floor <= a0.floor
      BY <1>7, <1>8, <1>9 DEF Absent
    <2> QED  BY <1>9, <2>1, <2>2 DEF Larger
  <1>11. /\ Keep("arbiter", d3) /\ file' \in {file, d1, d2, d3}
         /\ floor' = f /\ giveback' = GivebackOf(r, gb)
         /\ declared' = (IF gb # Absent THEN gb ELSE declared)
         /\ Decide(f, Executable(book))
    BY ArbitrateState
  <1>12. "arbiter" \in loaded => Base = memory["arbiter"]
    BY DEF Base, Held
  <1>13. declared # Absent => Shadows(d1) /\ r.gb = declared /\ a0.gb = declared
    BY <1>4, <1>8, <1>12 DEF ProcessInv
  <1>14. declared' # Absent => Shadows(d3) /\ d3.rec["arbiter"].gb = declared'
    <2>1. d2.rec["arbiter"].gb =
              IF gb # Absent /\ r.gb # gb THEN gb ELSE a0.gb
      BY <1>3, <1>4 DEF Wrote
    <2>2. CASE gb # Absent /\ r.gb # gb
      <3>1. d2.rec["arbiter"].gb = gb /\ declared' = gb
        BY <1>11, <2>1, <2>2
      <3>2. Shadows(d2)
        <4> DEFINE a1 == d1.rec["arbiter"]
                   w  == [a1 EXCEPT !.exists = TRUE, !.gb = gb]
        <4>1. d2 = RecordGiveback(d1, gb) /\ gb \in Givebacks
          BY <2>2 DEF After2, WithGiveback
        <4>2. d2 = Put(d1, "arbiter", w)
          BY <1>4, <4>1 DEF RecordGiveback
        <4>3. a1 \in Record
          BY <1>4 DEF Records, Owner
        <4>4. w \in Record /\ w.exists /\ ~w.archived
          BY <1>4, <4>1, <4>3 DEF Record
        <4> HIDE DEF w
        <4>5. /\ d2.latest = "arbiter" /\ d2.rec["arbiter"].exists
              /\ ~d2.rec["arbiter"].archived
          BY <1>4, <4>2, <4>4, ArbiterWrite
        <4>6. d2.latest \in Live(d2)
          BY <4>5 DEF Live, Owner
        <4> QED  BY <4>5, <4>6 DEF Shadows, FindRecord
      <3> QED  BY <1>6, <3>1, <3>2
    <2>3. CASE gb # Absent /\ r.gb = gb
      <3>1. Shadows(d1) /\ a0.gb = gb
        BY <1>7, <1>8, <2>3
      <3> QED  BY <1>5, <1>6, <1>11, <2>1, <2>3, <3>1
    <2>4. CASE gb = Absent
      <3>1. declared' = declared /\ d2.rec["arbiter"].gb = a0.gb
        BY <1>11, <2>1, <2>4
      <3> QED  BY <1>5, <1>6, <1>13, <3>1
    <2> QED  BY <2>2, <2>3, <2>4
  <1>15. GivebackRemembered'
    BY <1>11, <1>13 DEF GivebackRemembered, GivebackOf
  <1>16. sale'.kind = "ordinary" => sale'.limit >= floor'
    BY <1>9, <1>11, DecideSale
  <1>17. LockFound => floor' >= floor
    <2>1. CASE "arbiter" \notin loaded
      BY <1>9, <1>11, <2>1 DEF ProcessInv
    <2>2. CASE "arbiter" \in loaded
      <3>1. a0.floor >= floor
        BY <1>12, <2>2 DEF ProcessInv
      <3>2. LockFound => r.floor = a0.floor
        BY <1>4, <1>8, <1>12, <2>2 DEF LockFound, Shadows
      <3> QED  BY <1>9, <1>11, <3>1, <3>2
    <2> QED  BY <2>1, <2>2
  <1>18. /\ memory \in [Owner -> Records] /\ "arbiter" \in Owner
    BY <1>1 DEF TypeOK, Owner
  <1> HIDE DEF d1, d2, d3, r, f, a0
  <1>19. memory'["arbiter"] = d3 /\ "arbiter" \in loaded'
    BY <1>11, <1>18 DEF Keep
  <1>20. \A o \in Owner : Plain(memory'[o])
    BY <1>6, <1>11, <1>18 DEF Keep, ProcessInv
  <1>21. Plain(file')
    BY <1>4, <1>5, <1>6, <1>11 DEF ProcessInv
  <1> QED
    BY <1>1, <1>10, <1>11, <1>14, <1>15, <1>16, <1>17, <1>19, <1>20, <1>21
       DEF ProcessInv

\* A restart forgets what was quoted and told.
LEMMA ProcessFault == ProcessInv /\ Fault => ProcessInv'
  <1> SUFFICES ASSUME ProcessInv, Fault PROVE ProcessInv'
    OBVIOUS
  <1>1. EarnedInv'
    BY EarnedFault DEF ProcessInv
  <1>2. ASSUME NEW d, Restart(d), Plain(d) PROVE ProcessInv'
    <2>1. /\ \A o \in Owner : memory'[o] = Empty
          /\ file' = d /\ floor' = 0 /\ sale' = NoSale /\ declared' = Absent
      BY <1>2 DEF Restart
    <2>2. memory'["arbiter"] = Empty
      BY <2>1 DEF Owner
    <2> QED
      BY <1>1, <1>2, <2>1, <2>2, EmptyPlain
         DEF ProcessInv, GivebackRemembered, NoSale
  <1>3. Plain(file)
    BY DEF ProcessInv
  <1>4. ASSUME NEW gb \in {Absent} \cup Givebacks, NEW book \in Book
        PROVE  Plain(After1(book)) /\ Plain(After2(gb, book))
    <2> DEFINE a0 == Base.rec["arbiter"]
               d1 == After1(book)
    <2>1. Base \in Records /\ ~a0.archived /\ Plain(Base) /\ TypeOK
      BY HeldSound, HeldPlain DEF ProcessInv, EarnedInv, Sound, Base, Owner
    <2>2. /\ Wrote(Base, d1, Larger(a0.hw, Executable(book)), a0.floor, a0.gb)
          /\ Wrote(d1, After2(gb, book), d1.rec["arbiter"].hw,
                   d1.rec["arbiter"].floor,
                   IF gb # Absent /\ Rec(book).gb # gb
                      THEN gb ELSE d1.rec["arbiter"].gb)
      BY <2>1, GivebackWritten
    <2> QED  BY <2>1, <2>2 DEF Wrote, Plain
  <1> QED  BY <1>2, <1>3, <1>4, FaultState DEF ProcessInv

LEMMA ProcessStep ==
    ASSUME ProcessInv, [Next]_vars
    PROVE  /\ ProcessInv'
           /\ LockFound /\ crashes' = crashes => floor' >= floor
           /\ crashes' # crashes => sale' = NoSale
  <1>1. floor \in Nat /\ crashes \in Nat
    BY FloorConstants DEF ProcessInv, EarnedInv, TypeOK
  <1>2. CASE UNCHANGED vars
    BY <1>1, <1>2
       DEF vars, stores, outcome, ProcessInv, EarnedInv, TypeOK, Sound,
           FloorIsEarned, GivebackRemembered
  <1>3. CASE Stored
    <2>1. floor' = floor /\ crashes' = crashes
      BY <1>3
         DEF Stored, OtherGeneration, Load, MonitorPoll, RemovePosition, outcome
    <2> QED  BY <1>1, <1>3, <2>1, ProcessStored
  <1>4. ASSUME NEW be \in Breakevens, NEW gb \in {Absent} \cup Givebacks,
               NEW book \in Book, Arbitrate(be, gb, book)
        PROVE  ProcessInv' /\ (LockFound => floor' >= floor) /\ crashes' = crashes
    BY <1>4, ProcessArbitrate, ArbitrateState
  <1>5. CASE Fault
    <2>1. crashes' # crashes /\ sale' = NoSale
      BY <1>1, <1>5 DEF Fault, Crash, CrashInArbitrate, Restart
    <2> QED  BY <1>5, <2>1, ProcessFault
  <1> QED  BY <1>2, <1>3, <1>4, <1>5 DEF Next

\* While the arbiter's record is the one found, no arbitration quotes a lower
\* floor than an earlier one of its process, whatever the monitor's store, a
\* failed write or a restart made of the file.
THEOREM FloorIsMonotone == Spec => FloorNeverFalls
  <1>1. ProcessInv /\ [Next]_vars => ProcessInv'
    BY ProcessStep
  <1>2. ProcessInv /\ [Next]_vars =>
            [LockFound /\ crashes' = crashes => floor' >= floor]_vars
    BY ProcessStep
  <1> QED  BY <1>1, <1>2, ProcessInit, PTL DEF Spec, FloorNeverFalls

\* Nor is any ordinary exit submitted below a floor quoted before it.
THEOREM OrdinaryExitsHonourTheFloor == Spec => OrdinaryNeverUndercuts
  <1>1. ProcessInv /\ [Next]_vars => ProcessInv'
    BY ProcessStep
  <1>2. ProcessInv /\ [Next]_vars =>
            [LockFound /\ sale'.kind = "ordinary" => sale'.limit >= floor]_vars
    <2> SUFFICES ASSUME ProcessInv, [Next]_vars, LockFound,
                        sale'.kind = "ordinary"
                 PROVE  sale'.limit >= floor
      OBVIOUS
    <2>1. ProcessInv' /\ floor' >= floor
      BY ProcessStep DEF NoSale
    <2>2. /\ floor \in Nat /\ floor' \in Nat /\ sale'.limit \in Nat
          /\ sale'.limit >= floor'
      BY <2>1 DEF ProcessInv, EarnedInv, TypeOK, Sale
    <2> QED  BY <2>1, <2>2
  <1> QED  BY <1>1, <1>2, ProcessInit, PTL DEF Spec, OrdinaryNeverUndercuts

\* And the giveback a producer declared to a process is the one every later
\* arbitration of it applies, whatever file the process inherited.
THEOREM GivebackIsRemembered == Spec => []GivebackRemembered
  <1>1. ProcessInv /\ [Next]_vars => ProcessInv'
    BY ProcessStep
  <1>2. ProcessInv => GivebackRemembered
    BY DEF ProcessInv
  <1> QED  BY <1>1, <1>2, ProcessInit, PTL DEF Spec

-----------------------------------------------------------------------------
(* The archiver.  Its store archives only a record it holds, and it loads  *)
(* the file again only after a restart: the mark is never lost in memory.  *)

MonitorArchived == memory["monitor"].rec["monitor"].archived
ArchiverLoaded  == MonitorArchived => "monitor" \in loaded

\* A step of the process that keeps the arbiter's or another dictionary in a
\* store leaves the archiver's mark, as a poll and a removal do.
LEMMA ArchiverStep ==
    ASSUME TypeOK, ArchiverLoaded, [Next]_vars
    PROVE  ArchiverLoaded' /\ (MonitorArchived /\ crashes' = crashes => MonitorArchived')
  <1>1. "monitor" \in Owner /\ "arbiter" \in Owner /\ "monitor" # "arbiter"
    BY DEF Owner
  <1>2. MonitorArchived => Held("monitor") = memory["monitor"]
    BY DEF ArchiverLoaded, Held
  <1>3. ASSUME NEW o \in Owner, NEW d, Keep(o, d),
               o = "monitor" /\ MonitorArchived => d.rec["monitor"].archived
        PROVE  ArchiverLoaded' /\ (MonitorArchived => MonitorArchived')
    <2>1. memory' = [memory EXCEPT ![o] = d] /\ loaded' = loaded \cup {o}
      BY <1>3 DEF Keep
    <2>2. CASE o = "monitor"
      <3>1. memory'["monitor"] = d
        BY <1>1, <2>1, <2>2 DEF TypeOK
      <3>2. "monitor" \in loaded'
        BY <2>1, <2>2
      <3> QED  BY <1>3, <2>2, <3>1, <3>2 DEF ArchiverLoaded, MonitorArchived
    <2>3. CASE o # "monitor"
      <3>1. memory'["monitor"] = memory["monitor"]
        BY <1>1, <2>1, <2>3 DEF TypeOK
      <3> QED  BY <2>1, <3>1 DEF ArchiverLoaded, MonitorArchived
    <2> QED  BY <2>2, <2>3
  <1>4. CASE UNCHANGED vars
    BY <1>4 DEF vars, stores, ArchiverLoaded, MonitorArchived
  <1>5. ASSUME NEW o \in Owner, OtherGeneration(o) \/ Load(o)
        PROVE  ArchiverLoaded' /\ (MonitorArchived => MonitorArchived')
    <2>1. Keep(o, Held(o))
      BY <1>5 DEF OtherGeneration, Load
    <2>2. o = "monitor" /\ MonitorArchived => Held(o).rec["monitor"].archived
      BY <1>2 DEF MonitorArchived
    <2> QED  BY <1>3, <2>1, <2>2
  <1>6. ASSUME NEW bid \in Price, MonitorPoll(bid)
        PROVE  ArchiverLoaded' /\ (MonitorArchived => MonitorArchived')
    <2> DEFINE d == Save(Held("monitor"), bid)
    <2>1. Keep("monitor", d)
      BY <1>6 DEF MonitorPoll
    <2>2. d.rec["monitor"].archived = Held("monitor").rec["monitor"].archived
      BY <1>1, HeldType, SaveEffect
    <2>3. MonitorArchived => d.rec["monitor"].archived
      BY <1>2, <2>2 DEF MonitorArchived
    <2> HIDE DEF d
    <2> QED  BY <1>1, <1>3, <2>1, <2>3
  <1>7. ASSUME RemovePosition
        PROVE  ArchiverLoaded' /\ (MonitorArchived => MonitorArchived')
    <2> DEFINE d == Archived(Held("monitor"))
    <2>1. Keep("monitor", d)
      BY <1>7 DEF RemovePosition
    <2>2. Held("monitor").rec["monitor"].archived => d.rec["monitor"].archived
      BY <1>1, HeldType, ArchivedEffect
    <2>3. MonitorArchived => d.rec["monitor"].archived
      BY <1>2, <2>2 DEF MonitorArchived
    <2> HIDE DEF d
    <2> QED  BY <1>1, <1>3, <2>1, <2>3
  <1>8. ASSUME NEW be \in Breakevens, NEW gb \in {Absent} \cup Givebacks,
               NEW book \in Book, Arbitrate(be, gb, book)
        PROVE  ArchiverLoaded' /\ (MonitorArchived => MonitorArchived')
    <2>1. Keep("arbiter", After3(be, gb, book))
      BY <1>8, ArbitrateState
    <2> QED  BY <1>1, <1>3, <2>1
  <1>9. CASE Fault
    <2>1. PICK f : Restart(f)
      BY <1>9 DEF Fault, Crash, CrashInArbitrate
    <2>2. /\ crashes' = crashes + 1 /\ crashes \in Nat
          /\ memory' = [o \in Owner |-> Empty]
      BY <2>1, FloorConstants DEF Restart, TypeOK
    <2>3. ~MonitorArchived'
      BY <1>1, <2>2 DEF MonitorArchived, Empty, NoRecord
    <2> QED  BY <2>2, <2>3 DEF ArchiverLoaded
  <1> QED  BY <1>4, <1>5, <1>6, <1>7, <1>8, <1>9 DEF Next, Stored

\* No poll, removal, load or arbitration revives the record in the store that
\* archived it, however writes fail and whatever the arbiter's store puts into
\* the file; only a restart forgets (save and archive of PositionExitStateStore).
THEOREM ArchivedStays == Spec => ArchiverKeepsArchived
  <1>1. Init => ArchiverLoaded
    BY DEF Init, ArchiverLoaded, MonitorArchived, Owner, Empty, NoRecord
  <1>2. TypeOK /\ ArchiverLoaded /\ [Next]_vars => ArchiverLoaded'
    BY ArchiverStep
  <1>3. TypeOK /\ ArchiverLoaded /\ [Next]_vars =>
            [memory["monitor"].rec["monitor"].archived /\ crashes' = crashes
                 => memory'["monitor"].rec["monitor"].archived]_vars
    BY ArchiverStep DEF MonitorArchived
  <1> QED  BY <1>1, <1>2, <1>3, TypeCorrect, PTL DEF Spec, ArchiverKeepsArchived
=============================================================================
