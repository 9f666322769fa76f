---------------------------- MODULE LibraryProofs ----------------------------
(***************************************************************************)
(* The proofs about the parts of the library that the program calls in     *)
(* passing: the UUID generator, whatever its clock; the parser, whatever   *)
(* p4 prints and however it comes; and the functions that keep no state,   *)
(* for words and texts of any size.                                        *)
(***************************************************************************)
EXTENDS Uuid, MCText, FiniteSetTheorems, SequenceTheorems, NaturalsInduction,
        WellFoundedInduction, TLAPS

----------------------------------------------------------------------------
(* The UUID generator: whatever the resolutions of the clocks, the limit at*)
(* one reading, the save period and the course of the clock - but for the  *)
(* two cases in which the generator is told too little.                    *)

(* A clock is only set back while the program keeps its last state: not    *)
(* with callbacks, which know that of the last save, nor over a restart.   *)
Supportable ==
  \A s \in Settings : "back" \in s.events => ~s.callbacks /\ "crash" \notin s.events

----------------------------------------------------------------------------
(* Readings of the clock are whole ticks apart. *)
Reading(t) == \E k \in Nat : t = k * Resolution

LEMMA SettingKnown ==
  ASSUME TypeOK
  PROVE  /\ setting \in Settings /\ Resolution \in Nat /\ 0 < Resolution
         /\ setting.callbacks \in BOOLEAN
  BY SettingsAssumption DEF TypeOK, Resolution

LEMMA TicksApart ==
  ASSUME TypeOK, NEW a, NEW b, Reading(a), Reading(b), a < b
  PROVE  a \in Nat /\ b \in Nat /\ a + Resolution <= b
  <1>0. Resolution \in Nat
    BY SettingKnown
  <1>1. PICK k \in Nat : a = k * Resolution
    BY DEF Reading
  <1>2. PICK l \in Nat : b = l * Resolution
    BY DEF Reading
  <1>3. a \in Nat /\ b \in Nat
    BY <1>0, <1>1, <1>2
  <1>4. k < l
    <2> SUFFICES ASSUME l <= k PROVE FALSE
      OBVIOUS
    <2>1. PICK d \in Nat : k = l + d
      <3>1. k - l \in Nat /\ k = l + (k - l)
        OBVIOUS
      <3> QED
        BY <3>1
    <2>2. k * Resolution = l * Resolution + d * Resolution /\ d * Resolution \in Nat
      BY <1>0, <2>1
    <2> QED
      BY <1>1, <1>2, <1>3, <2>2
  <1>5. PICK d \in Nat : l = k + 1 + d
    <2>1. l - k - 1 \in Nat /\ l = k + 1 + (l - k - 1)
      BY <1>4
    <2> QED
      BY <2>1
  <1>6. /\ l * Resolution = k * Resolution + Resolution + d * Resolution
        /\ d * Resolution \in Nat
    BY <1>0, <1>5
  <1> QED
    BY <1>0, <1>1, <1>2, <1>3, <1>6

LEMMA NextReading ==
  ASSUME TypeOK, NEW a, Reading(a)
  PROVE  Reading(a + Resolution)
  <1>1. PICK k \in Nat : a = k * Resolution
    BY DEF Reading
  <1>2. a + Resolution = (k + 1) * Resolution
    BY <1>1, SettingKnown
  <1> QED
    BY <1>2 DEF Reading

LEMMA ReadingOfSet ==
  ASSUME TypeOK, NEW r \in Readings
  PROVE  Reading(r) /\ r \in Nat /\ r >= Resolution
  <1>1. PICK t \in 1..MaxTime : r = Resolution * t
    BY DEF Readings
  <1>2. PICK k \in Nat : t = k + 1
    <2>1. t - 1 \in Nat /\ t = (t - 1) + 1
      BY MaxTimeAssumption
    <2> QED
      BY <2>1
  <1>3. r = k * Resolution + Resolution /\ k * Resolution \in Nat
    BY <1>1, <1>2, SettingKnown
  <1>4. Reading(k * Resolution)
    BY DEF Reading
  <1> QED
    BY <1>3, <1>4, NextReading, SettingKnown

----------------------------------------------------------------------------
(* The inductive invariant.                                                *)

GoesBack == "back" \in setting.events

(* Sequences come one after the other, and timestamps in each of them. *)
Precedes(u, v) ==
  \/ u.draw < v.draw
  \/ u.draw = v.draw /\ u.inc < v.inc
  \/ u.draw = v.draw /\ u.inc = v.inc /\ u.ts <= v.ts

Clocks ==
  /\ Reading(clock) /\ clock >= Resolution
  /\ Reading(time_last)
  /\ \A u \in issued : u.draw <= draws
  /\ st.draw <= draws /\ stored.draw <= draws

(* Before and after the first UUID of a run of the program. *)
Started ==
  /\ save_inited =>
       /\ st # NoState /\ st.ts = time_last + this_tick /\ 0 < time_last
       /\ setting.callbacks \/ loaded \/ emptied \/ stored \in {st, NoState}
  /\ ~save_inited => \A u \in issued : ~GoesBack /\ u.ts < clock

(* While the clock goes on, no timestamp is further ahead than the limit,  *)
(* and as long as no reading was overrun, none is after the last.          *)
Forwards ==
  ~GoesBack =>
    /\ time_last <= clock
    /\ \A u \in issued : u.ts <= clock + UUIDS_PER_TICK
    /\ ~overran /\ save_inited => \A u \in issued : u.ts <= time_last + this_tick

(* In a file: every UUID is older than the start of this run, or comes     *)
(* before the last state in the order of sequences and timestamps.         *)
Since(boot) ==
  /\ GoesBack => boot = 0
  /\ \A u \in issued : u.ts < boot \/ (save_inited /\ Precedes(u, st))
InOrder == ~setting.callbacks => \E boot \in 0..clock : Since(boot)

(* The last save is the one that next_save is counted from. *)
Saved ==
  "nowrite" \notin setting.events =>
    /\ save_inited => stored # NoState /\ next_save = stored.ts + SavePeriod
    /\ stored # NoState /\ 0 < SavePeriod => \A u \in issued : u.ts < stored.ts + SavePeriod

(* Only a fine clock is overrun, and no UUID is counted twice before.      *)
Counted ==
  /\ overran => Resolution <= UUIDS_PER_TICK
  /\ IsFiniteSet(issued)
  /\ ~overran => Cardinality(issued) = created

UuidInv == TypeOK /\ Clocks /\ Started /\ Forwards /\ InOrder /\ Saved /\ Counted

LEMMA UuidInitially == Init => UuidInv
  <1> SUFFICES ASSUME Init PROVE UuidInv
    OBVIOUS
  <1> USE PerTickAssumption, SavePeriodAssumption
  <1>1. NoState \in State /\ NoState.draw = 0
    BY DEF NoState, State
  <1>2. setting \in Settings /\ Resolution \in Nat
    BY SettingsAssumption DEF Init, Resolution
  <1>3. TypeOK
    <2>1. /\ time_last = 0 /\ this_tick = UUIDS_PER_TICK /\ st = NoState /\ loaded = FALSE
          /\ save_inited = FALSE /\ next_save = 0
      BY DEF Init, FreshClock, FreshState, FreshSave
    <2>2. loaded \in BOOLEAN /\ emptied \in BOOLEAN /\ save_inited \in BOOLEAN
          /\ overran \in BOOLEAN
      BY <2>1 DEF Init
    <2> QED
      BY <1>1, <1>2, <2>1, <2>2 DEF Init, TypeOK
  <1>4. Clocks
    <2>1. Reading(Resolution) /\ Reading(0)
      <3>1. Resolution = 1 * Resolution /\ 0 = 0 * Resolution
        BY <1>2
      <3> QED
        BY <3>1 DEF Reading
    <2> QED
      BY <1>1, <1>2, <2>1 DEF Init, FreshClock, FreshState, Clocks
  <1>5. Started /\ Forwards /\ Saved
    BY <1>2 DEF Init, FreshClock, FreshState, FreshSave, Started, Forwards, Saved
  <1>6. InOrder
    <2>1. 0 \in 0..clock /\ Since(0)
      BY <1>2 DEF Init, Since
    <2> QED
      BY <2>1 DEF InOrder
  <1>7. Counted
    BY FS_EmptySet DEF Init, Counted
  <1> QED
    BY <1>3, <1>4, <1>5, <1>6, <1>7 DEF UuidInv

(* The next state, and that an overrun needs a clock as fine as the limit. *)
LEMMA NextStateIs ==
  ASSUME UuidInv, ~Overrun
  PROVE  /\ NextState \in State /\ ThisTick \in 0..UUIDS_PER_TICK
         /\ NextState.ts = clock + ThisTick /\ Timestamp = clock + ThisTick
         /\ NextState # NoState /\ 0 < clock
         /\ time_last = clock => ThisTick = this_tick + 1
         /\ time_last # clock => ThisTick = 0
         /\ NextState.draw = IF Known THEN LastState.draw ELSE draws + 1
         /\ Known => NextState.draw <= draws
         /\ Known => NextState.inc = IF Timestamp < LastState.ts THEN LastState.inc + 1
                                                                 ELSE LastState.inc
         /\ Overruns => Resolution <= UUIDS_PER_TICK
  <1> USE PerTickAssumption
  <1>1. /\ TypeOK
        /\ clock \in Nat /\ time_last \in Nat /\ this_tick \in 0..UUIDS_PER_TICK
        /\ draws \in Nat /\ st \in State /\ stored \in State
    BY DEF UuidInv, TypeOK
  <1>2. Resolution \in Nat /\ 0 < Resolution /\ Resolution <= clock
    BY <1>1, SettingKnown DEF UuidInv, Clocks
  <1>3. /\ ThisTick \in 0..UUIDS_PER_TICK
        /\ time_last = clock => ThisTick = this_tick + 1
        /\ time_last # clock => ThisTick = 0
    BY <1>1 DEF ThisTick, Overrun
  <1>4. Timestamp = clock + ThisTick /\ Timestamp \in Nat /\ 0 < Timestamp
    BY <1>1, <1>2, <1>3 DEF Timestamp
  <1>5. PICK last \in State : last = LastState /\ last.draw <= draws
    BY <1>1 DEF LastState, UuidInv, Clocks
  <1>6. last.ts \in Nat /\ last.draw \in Nat /\ last.inc \in Nat
    BY DEF State
  <1>7. /\ NextState \in State /\ NextState.ts = Timestamp
        /\ NextState.draw = IF Known THEN last.draw ELSE draws + 1
        /\ Known => NextState.inc = IF Timestamp < last.ts THEN last.inc + 1 ELSE last.inc
    <2>1. CASE ~Known
      <3>1. NextState = [ts |-> Timestamp, draw |-> draws + 1, inc |-> 0]
        BY <2>1 DEF NextState
      <3> QED
        BY <1>1, <1>4, <2>1, <3>1 DEF State
    <2>2. CASE Known
      <3>1. NextState = [ts |-> Timestamp, draw |-> last.draw,
                         inc |-> IF Timestamp < last.ts THEN last.inc + 1 ELSE last.inc]
        BY <1>5, <2>2 DEF NextState
      <3> QED
        BY <1>4, <1>6, <2>2, <3>1 DEF State
    <2> QED
      BY <2>1, <2>2
  <1>8. NextState # NoState
    BY <1>4, <1>7 DEF NoState
  <1>9. ASSUME Overruns PROVE Resolution <= UUIDS_PER_TICK
    <2>1. time_last < clock /\ clock <= time_last + this_tick
      BY <1>9 DEF Overruns
    <2>2. time_last + Resolution <= clock
      BY <1>1, <2>1, TicksApart DEF UuidInv, Clocks
    <2> QED
      BY <1>1, <1>2, <2>1, <2>2
  <1>10. /\ NextState.draw = IF Known THEN LastState.draw ELSE draws + 1
         /\ Known => NextState.draw <= draws
         /\ Known => NextState.inc = IF Timestamp < LastState.ts THEN LastState.inc + 1
                                                                 ELSE LastState.inc
    BY <1>5, <1>7
  <1>11. 0 < clock
    BY <1>1, <1>2
  <1>12. NextState \in State /\ NextState.ts = clock + ThisTick
    BY <1>4, <1>7
  <1> QED
    BY <1>3, <1>4, <1>8, <1>9, <1>10, <1>11, <1>12

(* While the clock goes on and is not overrun, timestamps do, whatever is  *)
(* stored.                                                                 *)
LEMMA NextIsLater ==
  ASSUME UuidInv, ~Overrun, ~GoesBack, ~overran, ~Overruns
  PROVE  \A u \in issued : u.ts < NextState.ts
  <1> SUFFICES ASSUME NEW u \in issued PROVE u.ts < NextState.ts
    OBVIOUS
  <1>1. /\ clock \in Nat /\ time_last \in Nat /\ this_tick \in Nat /\ u.ts \in Nat
        /\ save_inited \in BOOLEAN
    BY PerTickAssumption DEF UuidInv, TypeOK, State
  <1>2. /\ NextState.ts = clock + ThisTick /\ ThisTick \in Nat
        /\ time_last = clock => ThisTick = this_tick + 1
    BY PerTickAssumption, NextStateIs
  <1>3. CASE save_inited
    <2>1. time_last <= clock /\ u.ts <= time_last + this_tick /\ 0 < time_last
      BY <1>3 DEF UuidInv, Forwards, Started
    <2>2. time_last = clock \/ time_last + this_tick < clock
      BY <1>1, <2>1 DEF Overruns
    <2> QED
      BY <1>1, <1>2, <2>1, <2>2
  <1>4. CASE ~save_inited
    BY <1>1, <1>2, <1>4 DEF UuidInv, Started
  <1> QED
    BY <1>1, <1>3, <1>4

(* In a file: what comes next comes after all of this run in the order of  *)
(* sequences and timestamps, and is only the last one at a new reading.    *)
LEMMA NextInFile ==
  ASSUME Supportable, UuidInv, ~Overrun, ~setting.callbacks,
         NEW boot \in 0..clock, Since(boot)
  PROVE  /\ \A u \in issued : u.ts < boot \/ Precedes(u, NextState)
         /\ NextState \in issued => NextState = st /\ ThisTick = 0 /\ Overruns
  <1>1. /\ clock \in Nat /\ time_last \in Nat /\ this_tick \in Nat
        /\ st \in State /\ stored \in State /\ draws \in Nat /\ save_inited \in BOOLEAN
    BY PerTickAssumption DEF UuidInv, TypeOK
  <1>2. /\ NextState \in State /\ ThisTick \in Nat /\ NextState.ts = clock + ThisTick
        /\ Timestamp = clock + ThisTick
        /\ time_last = clock => ThisTick = this_tick + 1
        /\ time_last # clock => ThisTick = 0
    BY PerTickAssumption, NextStateIs
  <1>3. /\ ~Known => NextState.draw = draws + 1
        /\ Known => NextState.draw = LastState.draw
        /\ Known /\ Timestamp < LastState.ts => NextState.inc = LastState.inc + 1
        /\ Known /\ ~(Timestamp < LastState.ts) => NextState.inc = LastState.inc
    BY NextStateIs
  <1>4. /\ NextState.ts \in Nat /\ NextState.draw \in Nat /\ NextState.inc \in Nat
        /\ st.ts \in Nat /\ st.draw \in Nat /\ st.inc \in Nat
    BY <1>1, <1>2 DEF State
  <1>5. ASSUME NEW u \in issued
        PROVE  /\ u.ts < boot \/ Precedes(u, NextState)
               /\ u = NextState => NextState = st /\ ThisTick = 0 /\ Overruns
    <2>1. /\ u \in State /\ u.ts \in Nat /\ u.draw \in Nat /\ u.inc \in Nat
          /\ u.draw <= draws
      BY DEF UuidInv, TypeOK, State, Clocks
    <2>2. CASE u.ts < boot
      BY <1>1, <1>2, <2>1, <2>2
    <2>3. CASE save_inited /\ Precedes(u, st)
      <3>1. CASE ~Known
        BY <1>1, <1>3, <1>4, <2>1, <3>1 DEF Precedes
      <3>2. CASE Known
        <4>1. LastState = st /\ st.ts = time_last + this_tick /\ 0 < time_last
          BY <2>3, <3>2 DEF Known, LastState, UuidInv, Started
        <4>2. CASE Timestamp < st.ts
          <5>1. NextState.draw = st.draw /\ NextState.inc = st.inc + 1
            BY <1>3, <3>2, <4>1, <4>2
          <5>2. u # NextState
            BY <1>4, <2>1, <2>3, <5>1 DEF Precedes
          <5> QED
            BY <1>4, <2>1, <2>3, <5>1, <5>2 DEF Precedes
        <4>3. CASE st.ts < Timestamp
          <5>1. NextState.draw = st.draw /\ NextState.inc = st.inc
            BY <1>1, <1>2, <1>3, <1>4, <3>2, <4>1, <4>3
          <5>2. NextState.ts = Timestamp
            BY <1>2
          <5>3. u # NextState
            BY <1>4, <2>1, <2>3, <4>3, <5>1, <5>2 DEF Precedes
          <5> QED
            BY <1>4, <2>1, <2>3, <4>3, <5>1, <5>2, <5>3 DEF Precedes
        <4>4. CASE Timestamp = st.ts
          <5>1. NextState.draw = st.draw /\ NextState.inc = st.inc /\ NextState.ts = st.ts
            BY <1>2, <1>3, <1>4, <3>2, <4>1, <4>4
          <5>2. NextState = st
            BY <1>1, <1>2, <5>1 DEF State
          <5>3. time_last # clock /\ ThisTick = 0
            BY <1>1, <1>2, <4>1, <4>4
          <5>4. Overruns
            BY <1>1, <1>2, <4>1, <4>4, <5>3 DEF Overruns
          <5> QED
            BY <2>3, <5>2, <5>3, <5>4
        <4> QED
          BY <1>2, <1>4, <4>2, <4>3, <4>4
      <3> QED
        BY <3>1, <3>2
    <2> QED
      BY <2>2, <2>3 DEF Since
  <1> QED
    BY <1>5

LEMMA CreateKeeps ==
  ASSUME Supportable, UuidInv, uuid_create
  PROVE  UuidInv'
  <1> USE PerTickAssumption, SavePeriodAssumption
  <1>1. /\ ~Overrun /\ UNCHANGED <<setting, clock>>
        /\ this_tick' = ThisTick /\ time_last' = clock
        /\ draws' = IF Known THEN draws ELSE draws + 1
        /\ loaded' = (loaded \/ Opens)
        /\ st' = NextState /\ save_inited' = TRUE
        /\ next_save' = IF SaveDue THEN Timestamp + SavePeriod ELSE next_save
        /\ issued' = issued \cup {NextState} /\ created' = created + 1
        /\ overran' = (overran \/ Overruns)
    BY DEF uuid_create
  <1>2. /\ clock \in Nat /\ time_last \in Nat /\ this_tick \in 0..UUIDS_PER_TICK
        /\ draws \in Nat /\ issued \subseteq State /\ st \in State /\ stored \in State
        /\ setting \in Settings /\ save_inited \in BOOLEAN /\ next_save \in Nat
        /\ created \in Nat /\ loaded \in BOOLEAN /\ emptied \in BOOLEAN
        /\ overran \in BOOLEAN
    BY DEF UuidInv, TypeOK
  <1>3. PICK new \in State :
          /\ new = NextState /\ new.ts = clock + ThisTick
          /\ Timestamp = new.ts /\ new # NoState
          /\ Known => new.draw <= draws
          /\ ~Known => new.draw = draws + 1
    BY <1>1, NextStateIs
  <1>4. ThisTick \in 0..UUIDS_PER_TICK /\ 0 < clock
    BY <1>1, NextStateIs
  <1>5. new.ts \in Nat /\ new.draw \in Nat /\ new.inc \in Nat
    BY DEF State
  <1>6. issued' = issued \cup {new} /\ st' = new
    BY <1>1, <1>3
  <1>7. \A u \in issued : u.ts \in Nat /\ u.draw \in Nat /\ u.inc \in Nat
    BY <1>2 DEF State
  <1>8. /\ stored' \in State /\ emptied' \in BOOLEAN
        /\ SaveDue => stored' \in {new, NoState, stored}
        /\ ~SaveDue => stored' = stored
        /\ emptied' = emptied \/ stored' = NoState \/ stored' = new
    <2>1. Saves /\ NoState \in State
      BY DEF uuid_create, NoState, State
    <2> QED
      BY <1>2, <1>3, <2>1 DEF Saves, StoreSaved, StoreKept, StoreEmptied, storeVars
  <1>9. TypeOK'
    <2>1. /\ loaded' \in BOOLEAN /\ overran' \in BOOLEAN /\ save_inited' \in BOOLEAN
          /\ emptied' \in BOOLEAN
      BY <1>1, <1>2, <1>8
    <2>2. /\ setting' \in Settings /\ clock' \in Nat /\ time_last' \in Nat
          /\ this_tick' \in 0..UUIDS_PER_TICK /\ draws' \in Nat /\ created' \in Nat
          /\ next_save' \in Nat
      BY <1>1, <1>2, <1>3, <1>4, <1>5
    <2>3. st' \in State /\ stored' \in State /\ issued' \in SUBSET State
      BY <1>2, <1>6, <1>8
    <2> QED
      BY <2>1, <2>2, <2>3 DEF TypeOK
  <1>10. Clocks'
    <2>1. new.draw <= draws' /\ draws <= draws'
      BY <1>1, <1>2, <1>3, <1>5
    <2>2. \A u \in issued : u.draw <= draws'
      BY <1>1, <1>2, <1>7, <2>1 DEF UuidInv, Clocks
    <2>3. Reading(clock) /\ clock >= Resolution
      BY DEF UuidInv, Clocks
    <2>4. stored'.draw <= draws'
      BY <1>1, <1>2, <1>8, <2>1 DEF UuidInv, Clocks, State, NoState
    <2> QED
      BY <1>1, <1>6, <2>1, <2>2, <2>3, <2>4 DEF Clocks, Reading, Resolution
  <1>11. Started'
    <2>1. setting.callbacks \/ loaded' \/ emptied' \/ stored' \in {new, NoState}
      <3> SUFFICES ASSUME ~setting.callbacks, ~loaded', ~emptied'
                   PROVE  stored' \in {new, NoState}
        OBVIOUS
      <3>1. stored = NoState
        BY <1>1 DEF Opens
      <3> QED
        BY <1>8, <3>1
    <2> QED
      BY <1>1, <1>3, <1>4, <1>6, <2>1 DEF Started
  <1>12. Forwards'
    <2> SUFFICES ASSUME ~GoesBack
                 PROVE  /\ clock <= clock
                        /\ \A u \in issued' : u.ts <= clock + UUIDS_PER_TICK
                        /\ ~overran' => \A u \in issued' : u.ts <= clock + ThisTick
      BY <1>1, Zenon DEF Forwards, GoesBack
    <2>1. \A u \in issued' : u.ts <= clock + UUIDS_PER_TICK
      BY <1>2, <1>3, <1>4, <1>6 DEF UuidInv, Forwards
    <2>2. ASSUME ~overran' PROVE \A u \in issued' : u.ts <= clock + ThisTick
      <3>1. \A u \in issued : u.ts < new.ts
        BY <1>1, <1>3, <2>2, NextIsLater, Zenon
      <3> QED
        BY <1>3, <1>5, <1>6, <1>7, <3>1
    <2> QED
      BY <1>2, <2>1, <2>2
  <1>13. InOrder'
    <2> SUFFICES ASSUME ~setting.callbacks PROVE \E boot \in 0..clock : Since(boot)'
      BY <1>1 DEF InOrder
    <2>1. PICK boot \in 0..clock : Since(boot)
      BY DEF UuidInv, InOrder
    <2>2. \A u \in issued : u.ts < boot \/ Precedes(u, new)
      BY <1>1, <1>3, <2>1, NextInFile
    <2>3. Precedes(new, new)
      BY <1>5 DEF Precedes
    <2>4. Since(boot)'
      BY <1>1, <1>6, <2>1, <2>2, <2>3 DEF Since, GoesBack, Precedes
    <2> QED
      BY <2>4
  <1>14. Saved'
    <2> SUFFICES ASSUME "nowrite" \notin setting.events
                 PROVE  /\ stored' # NoState /\ next_save' = stored'.ts + SavePeriod
                        /\ 0 < SavePeriod => \A u \in issued' : u.ts < stored'.ts + SavePeriod
      BY <1>1 DEF Saved
    <2>1. IF SaveDue THEN stored' = new ELSE stored' = stored
      BY <1>3 DEF uuid_create, Saves, StoreSaved, StoreKept, storeVars
    <2>2. CASE SaveDue
      <3>1. stored' = new /\ next_save' = new.ts + SavePeriod
        BY <1>1, <1>3, <2>1, <2>2
      <3>2. ASSUME 0 < SavePeriod, NEW u \in issued PROVE u.ts < new.ts + SavePeriod
        <4>1. CASE save_inited
          <5>1. u.ts < next_save /\ new.ts >= next_save
            BY <1>3, <2>2, <3>2, <4>1 DEF UuidInv, Saved, SaveDue
          <5> QED
            BY <1>2, <1>5, <1>7, <5>1
        <4>2. CASE ~save_inited
          BY <1>2, <1>3, <1>4, <1>7, <4>2 DEF UuidInv, Started
        <4> QED
          BY <1>2, <4>1, <4>2
      <3> QED
        BY <1>3, <1>5, <1>6, <3>1, <3>2
    <2>3. CASE ~SaveDue
      <3>1. save_inited /\ ~(new.ts >= next_save) /\ stored' = stored /\ next_save' = next_save
        BY <1>1, <1>3, <2>1, <2>3 DEF SaveDue
      <3>2. stored # NoState /\ next_save = stored.ts + SavePeriod
        BY <3>1 DEF UuidInv, Saved
      <3>3. new.ts < stored.ts + SavePeriod
        BY <1>2, <1>5, <3>1, <3>2
      <3>4. 0 < SavePeriod => \A u \in issued : u.ts < stored.ts + SavePeriod
        BY <3>2 DEF UuidInv, Saved
      <3> QED
        BY <1>6, <3>1, <3>2, <3>3, <3>4
    <2> QED
      BY <2>2, <2>3
  <1>15. Counted'
    <2>1. overran' => Resolution <= UUIDS_PER_TICK
      BY <1>1, NextStateIs DEF UuidInv, Counted
    <2>2. IsFiniteSet(issued')
      BY <1>6, FS_AddElement DEF UuidInv, Counted
    <2>3. ASSUME ~overran' PROVE Cardinality(issued') = created'
      <3>1. ~overran /\ ~Overruns /\ Cardinality(issued) = created /\ IsFiniteSet(issued)
        BY <1>1, <2>3 DEF UuidInv, Counted
      <3>2. new \notin issued
        <4>1. CASE GoesBack
          <5>1. ~setting.callbacks
            BY <1>2, <4>1 DEF Supportable, GoesBack
          <5>2. PICK boot \in 0..clock : Since(boot)
            BY <5>1 DEF UuidInv, InOrder
          <5> QED
            BY <1>1, <1>3, <3>1, <5>1, <5>2, NextInFile
        <4>2. CASE ~GoesBack
          <5>1. \A u \in issued : u.ts < new.ts
            BY <1>1, <1>3, <3>1, <4>2, NextIsLater
          <5> QED
            BY <1>5, <5>1
        <4> QED
          BY <4>1, <4>2
      <3>3. Cardinality(issued \cup {new}) = created + 1
        BY <3>1, <3>2, FS_AddElement
      <3> QED
        BY <1>1, <1>6, <3>3
    <2> QED
      BY <1>1, <2>1, <2>2, <2>3 DEF Counted, Resolution
  <1> QED
    BY <1>9, <1>10, <1>11, <1>12, <1>13, <1>14, <1>15 DEF UuidInv

LEMMA CrashKeeps ==
  ASSUME Supportable, UuidInv, Crash
  PROVE  UuidInv'
  <1> USE PerTickAssumption, SavePeriodAssumption
  <1>1. PICK r \in Readings : clock + UUIDS_PER_TICK < r /\ clock' = r
    BY DEF Crash
  <1>2. /\ "crash" \in setting.events
        /\ time_last' = 0 /\ this_tick' = UUIDS_PER_TICK /\ st' = NoState /\ loaded' = FALSE
        /\ save_inited' = FALSE /\ next_save' = 0
        /\ UNCHANGED <<setting, draws, issued, created, overran>>
    BY DEF Crash, FreshClock, FreshState, FreshSave, history
  <1>3. /\ TypeOK /\ clock \in Nat /\ issued \subseteq State /\ setting \in Settings
        /\ draws \in Nat
        /\ \A u \in issued : u.ts \in Nat /\ u.draw <= draws
    BY DEF UuidInv, TypeOK, State, Clocks
  <1>4. ~GoesBack
    BY <1>2, <1>3 DEF Supportable, GoesBack
  <1>5. Reading(r) /\ r \in Nat /\ r >= Resolution
    BY <1>3, ReadingOfSet
  <1>6. NoState \in State /\ NoState.draw = 0
    BY DEF NoState, State
  <1>7. /\ stored' \in State /\ emptied' \in BOOLEAN
        /\ stored' \in {stored, NoState}
    <2>1. stored \in State /\ emptied \in BOOLEAN
      BY DEF UuidInv, TypeOK
    <2>2. StoreKept \/ StoreEmptied
      BY DEF Crash
    <2> QED
      BY <1>6, <2>1, <2>2 DEF StoreKept, StoreEmptied, storeVars
  <1>8. TypeOK'
    <2>1. /\ setting' \in Settings /\ loaded' \in BOOLEAN /\ save_inited' \in BOOLEAN
          /\ emptied' \in BOOLEAN /\ overran' \in BOOLEAN
      BY <1>2, <1>7, Zenon DEF UuidInv, TypeOK
    <2>2. st' \in State /\ stored' \in State /\ issued' \in SUBSET State
      BY <1>2, <1>3, <1>6, <1>7
    <2>3. /\ clock' \in Nat /\ time_last' \in Nat /\ this_tick' \in 0..UUIDS_PER_TICK
          /\ next_save' \in Nat /\ draws' \in Nat /\ created' \in Nat
      BY <1>1, <1>2, <1>5 DEF UuidInv, TypeOK
    <2> QED
      BY <2>1, <2>2, <2>3 DEF TypeOK
  <1>9. Clocks'
    <2>1. Reading(0)
      <3>1. 0 = 0 * Resolution
        BY <1>3, SettingKnown
      <3> QED
        BY <3>1 DEF Reading
    <2>2. st'.draw <= draws' /\ stored'.draw <= draws'
      BY <1>2, <1>3, <1>6, <1>7 DEF UuidInv, Clocks
    <2> QED
      BY <1>1, <1>2, <1>3, <1>5, <2>1, <2>2 DEF Clocks, Reading, Resolution
  <1>10. \A u \in issued : u.ts < r
    BY <1>1, <1>3, <1>4, <1>5 DEF UuidInv, Forwards
  <1>11. Started'
    BY <1>1, <1>2, <1>4, <1>10 DEF Started, GoesBack
  <1>12. Forwards'
    <2>1. \A u \in issued : u.ts <= r + UUIDS_PER_TICK
      BY <1>3, <1>5, <1>10
    <2> QED
      BY <1>1, <1>2, <1>5, <2>1 DEF Forwards
  <1>13. InOrder'
    <2>1. r \in 0..r /\ Since(r)'
      BY <1>2, <1>4, <1>5, <1>10 DEF Since, GoesBack
    <2> QED
      BY <1>1, <2>1 DEF InOrder
  <1>14. Saved' /\ Counted'
    <2>1. Saved'
      BY <1>2, <1>7 DEF UuidInv, Saved
    <2>2. Counted'
      BY <1>2 DEF UuidInv, Counted, Resolution
    <2> QED
      BY <2>1, <2>2
  <1> QED
    BY <1>8, <1>9, <1>11, <1>12, <1>13, <1>14 DEF UuidInv

(* A clock that ticks, or goes back where it may, changes nothing else.    *)
LEMMA ClockKeeps ==
  ASSUME Supportable, UuidInv, NEW r, clock' = r, Reading(r), r \in Nat, r >= Resolution,
         r > clock \/ GoesBack,
         UNCHANGED <<setting, timeVars, st, loaded, storeVars, saveVars, history>>
  PROVE  UuidInv'
  <1> USE PerTickAssumption
  <1>1. UNCHANGED <<setting, time_last, this_tick, st, loaded, stored, emptied, save_inited,
                    next_save, draws, issued, created, overran>>
    BY DEF timeVars, storeVars, saveVars, history
  <1>2. /\ clock \in Nat /\ time_last \in Nat /\ issued \subseteq State
        /\ \A u \in issued : u.ts \in Nat
    BY DEF UuidInv, TypeOK, State
  <1>3. TypeOK'
    BY <1>1 DEF UuidInv, TypeOK
  <1>4. Clocks'
    BY <1>1 DEF UuidInv, Clocks, Reading, Resolution
  <1>5. Started'
    <2>1. ASSUME ~save_inited, NEW u \in issued PROVE ~GoesBack /\ u.ts < r
      BY <1>2, <2>1 DEF UuidInv, Started
    <2> QED
      BY <1>1, <2>1 DEF UuidInv, Started, GoesBack
  <1>6. Forwards'
    <2>1. ASSUME ~GoesBack PROVE time_last <= r /\ \A u \in issued : u.ts <= r + UUIDS_PER_TICK
      BY <1>2, <2>1 DEF UuidInv, Forwards
    <2> QED
      BY <1>1, <2>1 DEF UuidInv, Forwards, GoesBack
  <1>7. InOrder'
    <2> SUFFICES ASSUME ~setting.callbacks PROVE \E boot \in 0..r : Since(boot)'
      BY <1>1 DEF InOrder
    <2>1. PICK boot \in 0..clock : Since(boot)
      BY DEF UuidInv, InOrder
    <2>2. boot \in 0..r
      BY <1>2, <2>1 DEF Since
    <2>3. Since(boot)'
      BY <1>1, <2>1 DEF Since, GoesBack, Precedes
    <2> QED
      BY <2>2, <2>3
  <1>8. Saved' /\ Counted'
    BY <1>1 DEF UuidInv, Saved, Counted, Resolution
  <1> QED
    BY <1>3, <1>4, <1>5, <1>6, <1>7, <1>8 DEF UuidInv

LEMMA UuidStep ==
  ASSUME Supportable, UuidInv, [Next]_vars
  PROVE  UuidInv'
  <1>1. TypeOK /\ clock \in Nat /\ Reading(clock) /\ clock >= Resolution
    BY DEF UuidInv, TypeOK, Clocks
  <1>2. CASE uuid_create
    BY <1>2, CreateKeeps
  <1>3. CASE ClockTicks
    <2>1. /\ clock' = clock + Resolution
          /\ UNCHANGED <<setting, timeVars, st, loaded, storeVars, saveVars, history>>
      BY <1>3 DEF ClockTicks
    <2>2. /\ Reading(clock + Resolution) /\ clock + Resolution \in Nat
          /\ clock + Resolution >= Resolution /\ clock + Resolution > clock
      BY <1>1, NextReading, SettingKnown
    <2> QED
      BY <2>1, <2>2, ClockKeeps
  <1>4. CASE ClockSetBack
    <2>1. PICK r \in Readings : clock' = r
      BY <1>4 DEF ClockSetBack
    <2>2. /\ GoesBack
          /\ UNCHANGED <<setting, timeVars, st, loaded, storeVars, saveVars, history>>
      BY <1>4 DEF ClockSetBack, GoesBack
    <2>3. Reading(r) /\ r \in Nat /\ r >= Resolution
      BY <1>1, ReadingOfSet
    <2> QED
      BY <2>1, <2>2, <2>3, ClockKeeps
  <1>5. CASE Crash
    BY <1>5, CrashKeeps
  <1>6. CASE UNCHANGED vars
    BY <1>6 DEF vars, UuidInv, TypeOK, Clocks, Started, Forwards, InOrder, Since, GoesBack,
                Precedes, Saved, Counted, timeVars, storeVars, saveVars, history, Reading,
                Resolution
  <1> QED
    BY <1>2, <1>3, <1>4, <1>5, <1>6 DEF Next

----------------------------------------------------------------------------
(* The generator keeps its invariant in every setting it can support.      *)
THEOREM UuidInvariance ==
  ASSUME Supportable
  PROVE  Spec => []UuidInv
  <1>1. Init => UuidInv
    BY UuidInitially
  <1>2. UuidInv /\ [Next]_vars => UuidInv'
    BY UuidStep
  <1> QED
    BY <1>1, <1>2, PTL DEF Spec

(* No two calls of uuid_create give the same UUID, however many there are, *)
(* wherever the clock is set back while the program runs, whatever of the  *)
(* store is lost, and whenever the program crashes while the clock goes on *)
(* - up to the overrun of a clock as fine as UUIDS_PER_TICK.               *)
THEOREM AlwaysUnique ==
  ASSUME Supportable
  PROVE  Spec => []Unique
  <1>1. UuidInv => Unique
    BY DEF UuidInv, TypeOK, Counted, Unique
  <1> QED
    BY <1>1, UuidInvariance, PTL

(* On clocks with more units between two readings than UUIDS_PER_TICK, as  *)
(* that of Windows, there is no such exception.                            *)
THEOREM CoarseClocksNeverRepeat ==
  ASSUME Supportable, \A s \in Settings : UUIDS_PER_TICK < s.resolution
  PROVE  Spec => []NeverTwice
  <1>1. ASSUME UuidInv PROVE NeverTwice
    <2>1. UUIDS_PER_TICK < Resolution /\ Resolution \in Nat
      BY <1>1, SettingKnown DEF UuidInv, TypeOK, Resolution
    <2> QED
      BY <1>1, <2>1, PerTickAssumption DEF UuidInv, TypeOK, Counted, NeverTwice
  <1> QED
    BY <1>1, UuidInvariance, PTL

(* In one clock sequence, a UUID has a later timestamp than all before it, *)
(* on any clock; only callbacks that a clock has overrun break it.         *)
THEOREM SequenceAlwaysChanges ==
  ASSUME Supportable
  PROVE  Spec => SequenceChangesWhenClockGoesBack
  <1>1. ASSUME UuidInv, Next, ~(setting.callbacks /\ overran'),
               NEW new \in issued' \ issued, NEW old \in issued,
               new.draw = old.draw, new.inc = old.inc
        PROVE  new.ts > old.ts
    <2>1. uuid_create
      BY <1>1 DEF Next, ClockTicks, ClockSetBack, Crash, history
    <2>2. ~Overrun /\ new = NextState /\ overran' = (overran \/ Overruns)
      BY <1>1, <2>1 DEF uuid_create
    <2>3. /\ new \in State /\ old \in State /\ clock \in Nat /\ new.ts = clock + ThisTick
          /\ ThisTick \in Nat /\ setting \in Settings
      BY <1>1, <2>2, NextStateIs, PerTickAssumption DEF UuidInv, TypeOK
    <2>4. /\ new.ts \in Nat /\ old.ts \in Nat /\ new.draw \in Nat /\ old.draw \in Nat
          /\ new.inc \in Nat /\ old.inc \in Nat
      BY <2>3 DEF State
    <2>5. CASE setting.callbacks
      <3>1. ~GoesBack
        BY <2>3, <2>5 DEF Supportable, GoesBack
      <3> QED
        BY <1>1, <2>2, <2>4, <2>5, <3>1, NextIsLater
    <2>6. CASE ~setting.callbacks
      <3>1. PICK boot \in 0..clock : Since(boot)
        BY <1>1, <2>6 DEF UuidInv, InOrder
      <3>2. old.ts < boot \/ Precedes(old, new)
        BY <1>1, <2>2, <2>6, <3>1, NextInFile
      <3>3. CASE old.ts < boot
        BY <2>3, <2>4, <3>1, <3>3
      <3>4. CASE Precedes(old, new)
        <4>1. old.ts <= new.ts
          BY <1>1, <2>4, <3>4 DEF Precedes
        <4>2. old.ts # new.ts
          BY <1>1, <2>3 DEF State
        <4> QED
          BY <2>4, <4>1, <4>2
      <3> QED
        BY <3>2, <3>3, <3>4
    <2> QED
      BY <2>5, <2>6
  <1>2. UuidInv /\ [Next]_vars
          => [~(setting.callbacks /\ overran') =>
                \A new \in issued' \ issued : \A old \in issued :
                  new.draw = old.draw /\ new.inc = old.inc => new.ts > old.ts]_vars
    BY <1>1
  <1> QED
    BY <1>2, UuidInvariance, PTL DEF Spec, SequenceChangesWhenClockGoesBack

(* Whatever the clock does, a state in a file never brings back a UUID but *)
(* the last one, and that one only to the first call at a new reading.     *)
THEOREM OnlyTheLastIsRepeated ==
  ASSUME Supportable
  PROVE  Spec => RepeatsOnlyTheLast
  <1>1. ASSUME UuidInv, Next, created' # created, issued' = issued, ~setting.callbacks
        PROVE  ThisTick = 0 /\ st' = st
    <2>1. uuid_create
      BY <1>1 DEF Next, ClockTicks, ClockSetBack, Crash, history
    <2>2. ~Overrun /\ NextState \in issued /\ st' = NextState
      BY <1>1, <2>1 DEF uuid_create
    <2>3. PICK boot \in 0..clock : Since(boot)
      BY <1>1 DEF UuidInv, InOrder
    <2> QED
      BY <1>1, <2>2, <2>3, NextInFile
  <1>2. UuidInv /\ [Next]_vars
          => [created' # created /\ issued' = issued /\ ~setting.callbacks =>
                ThisTick = 0 /\ st' = st]_vars
    BY <1>1
  <1> QED
    BY <1>2, UuidInvariance, PTL DEF Spec, RepeatsOnlyTheLast

(* What a restart reads is less than a save period older than any UUID     *)
(* made so far, unless a write failed.                                     *)
THEOREM StoreAlwaysRecent ==
  ASSUME Supportable, 0 < SavePeriod
  PROVE  Spec => []StoreLagsLessThanAPeriod
  <1>1. UuidInv => StoreLagsLessThanAPeriod
    BY DEF UuidInv, Saved, StoreLagsLessThanAPeriod
  <1> QED
    BY <1>1, UuidInvariance, PTL

----------------------------------------------------------------------------
(* Lemmas about numbers and sequences, for want of an induction theorem that the
   provers can use. *)

(* Induction without an operator: a set that has 0, and with each number   *)
(* the next, has all of them.                                              *)
LEMMA AllNumbers ==
  ASSUME NEW S, 0 \in S, \A n \in Nat : n \in S => n + 1 \in S
  PROVE  \A n \in Nat : n \in S
  <1> DEFINE T == Nat \ S
  <1> SUFFICES ASSUME T # {} PROVE FALSE
    OBVIOUS
  <1>1. PICK x \in T : \A y \in T : <<y, x>> \notin OpToRel(<, Nat)
    <2>1. T \subseteq Nat
      OBVIOUS
    <2> HIDE DEF T
    <2> QED
      BY <2>1, NatLessThanWellFounded, WFMin
  <1>2. \A y \in T : ~(y < x)
    BY <1>1 DEF OpToRel
  <1>3. x \in Nat /\ x # 0
    OBVIOUS
  <1>4. x - 1 \in Nat /\ x - 1 \notin T
    BY <1>2, <1>3
  <1> QED
    BY <1>3, <1>4

(* What is repeated: step[k] takes what there is before the k-th time to   *)
(* what there is after it.                                                 *)
RepeatsUpto(S, a, step, n, f) ==
  /\ f \in [Nat -> S] /\ f[0] = a
  /\ \A k \in Nat : k < n => f[k + 1] = step[k + 1][f[k]]

Repeats(S, a, step, f) ==
  /\ f \in [Nat -> S] /\ f[0] = a
  /\ \A j, k \in Nat : k = j + 1 => f[k] = step[k][f[j]]

RepeatedUpto(S, a, step, n) == CHOOSE f : RepeatsUpto(S, a, step, n, f)

(* A repetition is determined up to each number. *)
LEMMA RepetitionUpto ==
  ASSUME NEW S, NEW a \in S, NEW step \in [Nat -> [S -> S]]
  PROVE  \A n \in Nat : RepeatsUpto(S, a, step, n, RepeatedUpto(S, a, step, n))
  <1> DEFINE Reached == {n \in Nat : \E f : RepeatsUpto(S, a, step, n, f)}
  <1>1. 0 \in Reached
    <2>1. RepeatsUpto(S, a, step, 0, [k \in Nat |-> a])
      BY DEF RepeatsUpto
    <2> QED
      BY <2>1
  <1>2. ASSUME NEW n \in Nat, n \in Reached PROVE n + 1 \in Reached
    <2>1. PICK f : RepeatsUpto(S, a, step, n, f)
      BY <1>2
    <2> DEFINE g == [k \in Nat |-> IF k = n + 1 THEN step[n + 1][f[n]] ELSE f[k]]
    <2>2. f \in [Nat -> S] /\ f[0] = a /\ \A k \in Nat : k < n => f[k + 1] = step[k + 1][f[k]]
      BY <2>1 DEF RepeatsUpto
    <2>3. step[n + 1][f[n]] \in S
      BY <2>2
    <2>4. g \in [Nat -> S] /\ g[0] = a
      BY <2>2, <2>3
    <2>5. ASSUME NEW k \in Nat, k < n + 1 PROVE g[k + 1] = step[k + 1][g[k]]
      BY <2>2, <2>5
    <2>6. RepeatsUpto(S, a, step, n + 1, g)
      BY <2>4, <2>5 DEF RepeatsUpto
    <2> QED
      BY <2>6
  <1>3. \A n \in Nat : n \in Reached
    <2> HIDE DEF Reached
    <2> QED
      BY <1>1, <1>2, AllNumbers
  <1> QED
    BY <1>3 DEF RepeatedUpto

(* And there is one for all numbers. *)
LEMMA Repetition ==
  ASSUME NEW S, NEW a \in S, NEW step \in [Nat -> [S -> S]]
  PROVE  \E f : Repeats(S, a, step, f)
  <1> DEFINE G(n) == RepeatedUpto(S, a, step, n)
             f == [n \in Nat |-> G(n)[n]]
  <1>1. ASSUME NEW n \in Nat
        PROVE  /\ G(n) \in [Nat -> S] /\ G(n)[0] = a
               /\ \A k \in Nat : k < n => G(n)[k + 1] = step[k + 1][G(n)[k]]
    BY RepetitionUpto DEF RepeatsUpto
  <1> HIDE DEF G
  <1>2. \A k, n, m \in Nat : k <= n /\ k <= m => G(n)[k] = G(m)[k]
    <2> DEFINE A == {k \in Nat : \A n, m \in Nat : k <= n /\ k <= m => G(n)[k] = G(m)[k]}
    <2>1. 0 \in A
      BY <1>1
    <2>2. ASSUME NEW k \in Nat, k \in A PROVE k + 1 \in A
      <3> SUFFICES ASSUME NEW n \in Nat, NEW m \in Nat, k + 1 <= n, k + 1 <= m
                   PROVE  G(n)[k + 1] = G(m)[k + 1]
        OBVIOUS
      <3>1. G(n)[k] = G(m)[k]
        BY <2>2
      <3>2. G(n)[k + 1] = step[k + 1][G(n)[k]] /\ G(m)[k + 1] = step[k + 1][G(m)[k]]
        BY <1>1
      <3> QED
        BY <3>1, <3>2
    <2>3. \A k \in Nat : k \in A
      <3> HIDE DEF A
      <3> QED
        BY <2>1, <2>2, AllNumbers
    <2> QED
      BY <2>3
  <1>3. f \in [Nat -> S] /\ f[0] = a
    BY <1>1
  <1>4. ASSUME NEW j \in Nat, NEW k \in Nat, k = j + 1 PROVE f[k] = step[k][f[j]]
    <2>1. G(k)[j + 1] = step[j + 1][G(k)[j]]
      BY <1>1, <1>4
    <2>2. G(k)[j] = G(j)[j]
      BY <1>2, <1>4
    <2> QED
      BY <1>4, <2>1, <2>2
  <1> HIDE DEF f
  <1>5. Repeats(S, a, step, f)
    BY <1>3, <1>4 DEF Repeats
  <1> QED
    BY <1>5

(* The texts of ss joined, one after the other. *)
Joins(T, n, ss, f) ==
  /\ f[0] = <<>>
  /\ \A k \in 0..n : f[k] \in Seq(T)
  /\ \A i, j \in 0..n : j = i + 1 => f[j] = f[i] \o ss[j]

(* The texts can be joined, one after the other. *)
LEMMA Joined ==
  ASSUME NEW T, NEW n \in Nat, NEW ss, \A k \in 1..n : ss[k] \in Seq(T)
  PROVE  \E f : Joins(T, n, ss, f)
  <1> DEFINE step == [k \in Nat |-> [x \in Seq(T) |-> IF k \in 1..n THEN x \o ss[k] ELSE x]]
  <1>1. PICK f : Repeats(Seq(T), <<>>, step, f)
    <2>1. <<>> \in Seq(T)
      OBVIOUS
    <2>2. step \in [Nat -> [Seq(T) -> Seq(T)]]
      OBVIOUS
    <2> HIDE DEF step
    <2> QED
      BY <2>1, <2>2, Repetition
  <1>2. f[0] = <<>> /\ \A k \in Nat : f[k] \in Seq(T)
    BY <1>1 DEF Repeats
  <1>3. ASSUME NEW i \in 0..n, NEW j \in 0..n, j = i + 1 PROVE f[j] = f[i] \o ss[j]
    <2>2. f[j] = step[j][f[i]]
      <3> HIDE DEF step
      <3>1. i \in Nat /\ j \in Nat
        OBVIOUS
      <3> QED
        BY <1>1, <1>3, <3>1, Zenon DEF Repeats
    <2>3. PICK x \in Seq(T) : x = f[i]
      BY <1>2
    <2>4. step[j][x] = x \o ss[j]
      BY <1>3
    <2> HIDE DEF step
    <2> QED
      BY <2>2, <2>3, <2>4
  <1> HIDE DEF step
  <1>4. \A k \in 0..n : f[k] \in Seq(T)
    BY <1>2
  <1>5. Joins(T, n, ss, f)
    BY <1>2, <1>3, <1>4, Zenon DEF Joins
  <1> QED
    BY <1>5

(* What is joined is kept: it is at the same place later. *)
Grows(n, ss, f) ==
  /\ \A k \in 0..n : Len(f[k]) \in Nat
  /\ \A i, j \in 0..n : j = i + 1 =>
       /\ Len(f[j]) = Len(f[i]) + Len(ss[j])
       /\ \A p \in 1..Len(f[i]) : f[j][p] = f[i][p]
       /\ \A p \in 1..Len(ss[j]) : f[j][Len(f[i]) + p] = ss[j][p]
  /\ \A i, j \in 0..n : i <= j =>
       Len(f[i]) <= Len(f[j]) /\ \A p \in 1..Len(f[i]) : f[j][p] = f[i][p]

(* It is kept indeed. *)
LEMMA JoinsGrow ==
  ASSUME NEW T, NEW n \in Nat, NEW ss, \A k \in 1..n : ss[k] \in Seq(T), NEW f, Joins(T, n, ss, f)
  PROVE  Grows(n, ss, f)
  <1>1. ASSUME NEW k \in 0..n PROVE Len(f[k]) \in Nat
    BY DEF Joins
  <1>2. ASSUME NEW i \in 0..n, NEW j \in 0..n, j = i + 1
        PROVE  /\ Len(f[j]) = Len(f[i]) + Len(ss[j])
               /\ \A p \in 1..Len(f[i]) : f[j][p] = f[i][p]
               /\ \A p \in 1..Len(ss[j]) : f[j][Len(f[i]) + p] = ss[j][p]
    <2>1. PICK x \in Seq(T) : x = f[i]
      BY DEF Joins
    <2>2. PICK y \in Seq(T) : y = ss[j]
      BY <1>2
    <2>3. f[j] = x \o y
      BY <1>2, <2>1, <2>2 DEF Joins
    <2>4. /\ Len(x \o y) = Len(x) + Len(y)
          /\ \A p \in 1..Len(x) : (x \o y)[p] = x[p]
          /\ \A p \in 1..Len(y) : (x \o y)[Len(x) + p] = y[p]
      OBVIOUS
    <2> QED
      BY <2>1, <2>2, <2>3, <2>4
  <1>3. \A m \in Nat : \A i, j \in 0..n : j = i + m =>
          Len(f[i]) <= Len(f[j]) /\ \A p \in 1..Len(f[i]) : f[j][p] = f[i][p]
    <2> DEFINE A == {m \in Nat : \A i, j \in 0..n : j = i + m =>
                       Len(f[i]) <= Len(f[j]) /\ \A p \in 1..Len(f[i]) : f[j][p] = f[i][p]}
    <2>1. 0 \in A
      BY <1>1
    <2>2. ASSUME NEW m \in Nat, m \in A PROVE m + 1 \in A
      <3> SUFFICES ASSUME NEW i \in 0..n, NEW j \in 0..n, j = i + (m + 1)
                   PROVE  Len(f[i]) <= Len(f[j]) /\ \A p \in 1..Len(f[i]) : f[j][p] = f[i][p]
        OBVIOUS
      <3>1. PICK k \in 0..n : k = i + m /\ j = k + 1
        <4>1. j - 1 \in 0..n /\ j - 1 = i + m /\ j = (j - 1) + 1
          OBVIOUS
        <4> QED
          BY <4>1
      <3>2. Len(f[i]) <= Len(f[k]) /\ \A p \in 1..Len(f[i]) : f[k][p] = f[i][p]
        BY <2>2, <3>1
      <3>3. Len(f[j]) = Len(f[k]) + Len(ss[j]) /\ \A p \in 1..Len(f[k]) : f[j][p] = f[k][p]
        BY <1>2, <3>1
      <3>4. PICK a \in Nat, b \in Nat, c \in Nat, d \in Nat :
              a = Len(f[i]) /\ b = Len(f[k]) /\ c = Len(f[j]) /\ d = Len(ss[j])
        <4>1. Len(ss[j]) \in Nat
          <5>1. ss[j] \in Seq(T)
            BY <3>1
          <5> QED
            BY <5>1
        <4> QED
          BY <1>1, <4>1
      <3>5. a <= c /\ \A p \in 1..a : p \in 1..b
        <4>1. a <= b /\ c = b + d
          BY <3>2, <3>3, <3>4, Zenon
        <4> QED
          BY <4>1
      <3>6. ASSUME NEW p \in 1..a PROVE f[j][p] = f[i][p]
        <4>1. f[k][p] = f[i][p] /\ f[j][p] = f[k][p]
          BY <3>2, <3>3, <3>4, <3>5
        <4> QED
          BY <4>1
      <3> QED
        BY <3>4, <3>5, <3>6
    <2> HIDE DEF A
    <2>3. \A m \in Nat : m \in A
      BY <2>1, <2>2, AllNumbers
    <2> USE DEF A
    <2> QED
      BY <2>3
  <1>4. ASSUME NEW i \in 0..n, NEW j \in 0..n, i <= j
        PROVE  Len(f[i]) <= Len(f[j]) /\ \A p \in 1..Len(f[i]) : f[j][p] = f[i][p]
    <2>1. j - i \in Nat /\ j = i + (j - i)
      BY <1>4
    <2> QED
      BY <1>3, <2>1
  <1> QED
    BY <1>1, <1>2, <1>4, Zenon DEF Grows

(* Where each text of ss begins in all of them, joined. *)
IsLayout(ss, o) ==
  /\ o \in [0..Len(ss) -> Nat] /\ o[0] = 0 /\ o[Len(ss)] = Len(FlattenSeq(ss))
  /\ \A i, j \in 0..Len(ss) : j = i + 1 =>
       /\ o[j] = o[i] + Len(ss[j]) /\ o[j] <= Len(FlattenSeq(ss))
       /\ \A p \in 1..Len(ss[j]) : FlattenSeq(ss)[o[i] + p] = ss[j][p]

(* What the fold of FlattenSeq computes. *)
IsJoin(ss, f) == f = [i \in 1..Len(ss) |-> IF i = 1 THEN ss[i] ELSE f[i - 1] \o ss[i]]

(* FlattenSeq joins the texts. *)
LEMMA FlattenJoins ==
  ASSUME NEW T, NEW n \in Nat, NEW ss, Len(ss) = n, \A k \in 1..n : ss[k] \in Seq(T),
         NEW f, Joins(T, n, ss, f), n # 0
  PROVE  FlattenSeq(ss) = f[n]
  <1> DEFINE h == [i \in 1..n |-> f[i]]
             F == CHOOSE g : IsJoin(ss, g)
  <1>1. f[1] = ss[1]
    <2>1. 1 \in 0..n /\ 0 \in 0..n /\ 1 \in 1..n
      OBVIOUS
    <2>2. f[1] = f[0] \o ss[1] /\ f[0] = <<>> /\ ss[1] \in Seq(T)
      BY <2>1, 1 = 0 + 1, Zenon DEF Joins
    <2> QED
      BY <2>2, ConcatEmptySeq
  <1>2. IsJoin(ss, h)
    <2>1. ASSUME NEW i \in 1..n
          PROVE  f[i] = IF i = 1 THEN ss[i] ELSE h[i - 1] \o ss[i]
      <3>1. CASE i = 1
        BY <1>1, <3>1
      <3>2. CASE i # 1
        <4>1. PICK k \in 1..n : k = i - 1 /\ i = k + 1
          BY <3>2
        <4>2. f[i] = f[k] \o ss[i]
          <5>1. k \in 0..n /\ i \in 0..n
            OBVIOUS
          <5> QED
            BY <4>1, <5>1, Zenon DEF Joins
        <4>3. h[k] = f[k]
          BY <4>1
        <4> QED
          BY <3>2, <4>1, <4>2, <4>3, Zenon
      <3> QED
        BY <3>1, <3>2
    <2>2. h = [i \in 1..n |-> IF i = 1 THEN ss[i] ELSE h[i - 1] \o ss[i]]
      BY <2>1, Zenon
    <2> HIDE DEF h
    <2> QED
      BY <2>2, Zenon DEF IsJoin
  <1>3. IsJoin(ss, F)
    BY <1>2, Zenon
  <1>4. FlattenSeq(ss) = F[n]
    BY DEF FlattenSeq, IsJoin
  <1> HIDE DEF F, h
  <1>5. \A i \in 1..n : F[i] = IF i = 1 THEN ss[i] ELSE F[i - 1] \o ss[i]
    BY <1>3, Zenon DEF IsJoin
  <1>6. \A i \in Nat : \A j \in 1..n : j = i + 1 => F[j] = f[j]
    <2> DEFINE A == {i \in Nat : \A j \in 1..n : j = i + 1 => F[j] = f[j]}
    <2>1. 0 \in A
      <3>1. F[1] = ss[1]
        BY <1>5
      <3> QED
        BY <1>1, <3>1
    <2>2. ASSUME NEW i \in Nat, i \in A PROVE i + 1 \in A
      <3> SUFFICES ASSUME NEW j \in 1..n, j = (i + 1) + 1 PROVE F[j] = f[j]
        OBVIOUS
      <3>1. PICK k \in 1..n : k = j - 1 /\ j = k + 1 /\ k = i + 1 /\ j # 1
        OBVIOUS
      <3>2. F[k] = f[k]
        BY <2>2, <3>1
      <3>3. F[j] = F[k] \o ss[j]
        BY <1>5, <3>1
      <3>4. f[j] = f[k] \o ss[j]
        <4>1. k \in 0..n /\ j \in 0..n
          OBVIOUS
        <4> QED
          BY <3>1, <4>1, Zenon DEF Joins
      <3> QED
        BY <3>2, <3>3, <3>4
    <2> HIDE DEF A
    <2>3. \A i \in Nat : i \in A
      BY <2>1, <2>2, AllNumbers
    <2> USE DEF A
    <2> QED
      BY <2>3
  <1>7. n - 1 \in Nat /\ n = (n - 1) + 1 /\ n \in 1..n
    OBVIOUS
  <1> QED
    BY <1>4, <1>6, <1>7

(* In what FlattenSeq gives, the texts have a layout. *)
LEMMA FlattenLayout ==
  ASSUME NEW T, NEW ss \in Seq(Seq(T))
  PROVE  FlattenSeq(ss) \in Seq(T) /\ \E o : IsLayout(ss, o)
  <1>1. PICK n \in Nat : n = Len(ss)
    OBVIOUS
  <1>2. \A k \in 1..n : ss[k] \in Seq(T)
    BY <1>1
  <1>3. PICK f : Joins(T, n, ss, f)
    BY <1>2, Joined
  <1>4. Grows(n, ss, f)
    BY <1>2, <1>3, JoinsGrow
  <1>5. FlattenSeq(ss) = f[n]
    <2>1. CASE n = 0
      <3>1. FlattenSeq(ss) = ss
        BY <1>1, <2>1 DEF FlattenSeq
      <3>2. ss = <<>>
        BY <1>1, <2>1, EmptySeq
      <3> QED
        BY <1>3, <2>1, <3>1, <3>2 DEF Joins
    <2>2. CASE n # 0
      BY <1>1, <1>2, <1>3, <2>2, FlattenJoins
    <2> QED
      BY <2>1, <2>2
  <1> DEFINE o == [k \in 0..n |-> Len(f[k])]
  <1>6. FlattenSeq(ss) \in Seq(T)
    BY <1>3, <1>5 DEF Joins
  <1>7. o \in [0..n -> Nat] /\ o[0] = 0 /\ o[n] = Len(f[n])
    <2>1. f[0] = <<>>
      BY <1>3 DEF Joins
    <2> QED
      BY <1>4, <2>1 DEF Grows
  <1>8. ASSUME NEW i \in 0..n, NEW j \in 0..n, j = i + 1
        PROVE  /\ o[j] = o[i] + Len(ss[j]) /\ o[j] <= Len(f[n])
               /\ \A p \in 1..Len(ss[j]) : f[n][o[i] + p] = ss[j][p]
    <2>1. o[j] = Len(f[j]) /\ o[i] = Len(f[i])
      OBVIOUS
    <2>2. Len(f[j]) <= Len(f[n]) /\ \A p \in 1..Len(f[j]) : f[n][p] = f[j][p]
      <3>1. n \in 0..n /\ j <= n
        OBVIOUS
      <3> QED
        BY <1>4, <3>1, Zenon DEF Grows
    <2>3. /\ Len(f[j]) = Len(f[i]) + Len(ss[j])
          /\ \A p \in 1..Len(ss[j]) : f[j][Len(f[i]) + p] = ss[j][p]
      BY <1>4, <1>8, Zenon DEF Grows
    <2>4. PICK a \in Nat, b \in Nat, c \in Nat : a = Len(f[i]) /\ b = Len(f[j]) /\ c = Len(ss[j])
      <3>1. ss[j] \in Seq(T)
        BY <1>2, <1>8
      <3>2. Len(ss[j]) \in Nat
        BY <3>1
      <3> QED
        BY <1>4, <3>2 DEF Grows
    <2>5. ASSUME NEW p \in 1..c PROVE f[n][a + p] = ss[j][p]
      <3>1. a + p \in 1..b
        <4>1. b = a + c
          BY <2>3, <2>4, Zenon
        <4> QED
          BY <4>1
      <3>2. f[n][a + p] = f[j][a + p] /\ f[j][a + p] = ss[j][p]
        BY <2>2, <2>3, <2>4, <3>1
      <3> QED
        BY <3>2
    <2> HIDE DEF o
    <2> QED
      BY <2>1, <2>2, <2>3, <2>4, <2>5
  <1>9. IsLayout(ss, o)
    <2> HIDE DEF o
    <2> QED
      BY <1>1, <1>5, <1>7, <1>8 DEF IsLayout
  <1> QED
    BY <1>6, <1>9

----------------------------------------------------------------------------
(* The parser of marshalled dictionaries: where what was written is in the bytes. *)

(* A number of four bytes is read as it was written. *)
LEMMA LowByte == \A n \in Nat : \E m \in Nat, r \in 0..255 : n = 256 * m + r
  <1> SUFFICES ASSUME NEW n \in Nat PROVE \E m \in Nat, r \in 0..255 : n = 256 * m + r
    OBVIOUS
  <1>1. n = 256 * (n \div 256) + (n % 256) /\ n \div 256 \in Nat /\ n % 256 \in 0..255
    BY SMT
  <1> QED
    BY <1>1, SMT

(* The four bytes of a number, and the number they make. *)
LEMMA FourBytes ==
  ASSUME NEW n \in Nat, n <= MaxU32
  PROVE  /\ n % 256 \in Byte /\ (n \div 256) % 256 \in Byte
         /\ (n \div 65536) % 256 \in Byte /\ n \div 16777216 \in Byte
         /\ (n % 256) + 256 * ((n \div 256) % 256) + 65536 * ((n \div 65536) % 256)
              + 16777216 * (n \div 16777216) = n
  <1>1. PICK a \in Nat, r \in 0..255 : n = 256 * a + r
    BY LowByte
  <1>2. PICK b \in Nat, s \in 0..255 : a = 256 * b + s
    BY LowByte
  <1>3. PICK c \in Nat, t \in 0..255 : b = 256 * c + t
    BY LowByte, ZenonT(60)
  <1>4. n % 256 = r /\ n \div 256 = a
    BY <1>1, SMT
  <1>5. a % 256 = s /\ b % 256 = t
    BY <1>2, <1>3, SMT
  <1>6. n \div 65536 = b
    BY <1>1, <1>2, SMT
  <1>7. n \div 16777216 = c
    BY <1>1, <1>2, <1>3, SMT
  <1>8. r + 256 * s + 65536 * t + 16777216 * c = n
    BY <1>1, <1>2, <1>3, SMT
  <1>9. c \in 0..255
    BY <1>8, SMT DEF MaxU32
  <1> QED
    BY <1>4, <1>5, <1>6, <1>7, <1>8, <1>9, SMT DEF Byte

(* The text s is in d at the position at. *)
Holds(d, at, s) ==
  at + Len(s) <= Len(d) /\ \A p \in 1..Len(s) : d[at + p] = s[p]

(* What is joined of two texts is held when both are, next to each other. *)
LEMMA HoldsParts ==
  ASSUME NEW T, NEW d \in Seq(T), NEW at \in Nat, NEW s \in Seq(T), NEW t \in Seq(T),
         Holds(d, at, s \o t)
  PROVE  /\ Holds(d, at, s) /\ Holds(d, at + Len(s), t)
         /\ Len(s \o t) = Len(s) + Len(t)
  <1>1. PICK m \in Nat, n \in Nat, l \in Nat : m = Len(s) /\ n = Len(t) /\ l = Len(d)
    OBVIOUS
  <1>2. /\ Len(s \o t) = m + n
        /\ \A p \in 1..m : (s \o t)[p] = s[p]
        /\ \A p \in 1..n : (s \o t)[m + p] = t[p]
    BY <1>1
  <1>3. at + (m + n) <= l /\ \A p \in 1..(m + n) : d[at + p] = (s \o t)[p]
    BY <1>1, <1>2 DEF Holds
  <1>4. ASSUME NEW p \in 1..m PROVE d[at + p] = s[p]
    <2>1. p \in 1..(m + n)
      OBVIOUS
    <2> QED
      BY <1>2, <1>3, <2>1
  <1>5. ASSUME NEW p \in 1..n PROVE d[(at + m) + p] = t[p]
    <2>1. PICK q \in 1..(m + n) : q = m + p
      OBVIOUS
    <2>2. d[at + q] = (s \o t)[q] /\ (s \o t)[q] = t[p]
      BY <1>2, <1>3, <2>1
    <2>3. at + q = (at + m) + p
      BY <2>1
    <2> QED
      BY <2>2, <2>3
  <1>6. Holds(d, at, s)
    BY <1>1, <1>3, <1>4 DEF Holds
  <1>7. Holds(d, at + m, t)
    BY <1>1, <1>3, <1>5 DEF Holds
  <1> QED
    BY <1>1, <1>2, <1>6, <1>7

(* All texts are where their layout says. *)
LEMMA HoldsFlatten ==
  ASSUME NEW T, NEW d \in Seq(T), NEW at \in Nat, NEW ss \in Seq(Seq(T)), NEW o,
         IsLayout(ss, o), Holds(d, at, FlattenSeq(ss)),
         NEW i \in 0..Len(ss), NEW j \in 0..Len(ss), j = i + 1
  PROVE  Holds(d, at + o[i], ss[j])
  <1>1. PICK w \in Seq(T) : w = FlattenSeq(ss)
    BY FlattenLayout
  <1>2. PICK x \in Seq(T) : x = ss[j]
    OBVIOUS
  <1>3. PICK l \in Nat, m \in Nat, n \in Nat, a \in Nat, b \in Nat :
          l = Len(d) /\ m = Len(w) /\ n = Len(x) /\ a = o[i] /\ b = o[j]
    <2>1. o[i] \in Nat /\ o[j] \in Nat
      BY DEF IsLayout
    <2>2. Len(d) \in Nat /\ Len(w) \in Nat /\ Len(x) \in Nat
      OBVIOUS
    <2> QED
      BY <2>1, <2>2
  <1>4. b = a + n /\ b <= m /\ \A p \in 1..n : w[a + p] = x[p]
    BY <1>1, <1>2, <1>3, Zenon DEF IsLayout
  <1>5. at + m <= l /\ \A p \in 1..m : d[at + p] = w[p]
    BY <1>1, <1>3, Zenon DEF Holds
  <1>6. ASSUME NEW p \in 1..n PROVE d[(at + a) + p] = x[p]
    <2>1. PICK q \in 1..m : q = a + p
      BY <1>4
    <2>2. d[at + q] = w[q] /\ w[q] = x[p]
      BY <1>4, <1>5, <2>1
    <2>3. at + q = (at + a) + p
      BY <2>1
    <2> QED
      BY <2>2, <2>3
  <1>7. (at + a) + n <= l
    BY <1>4, <1>5
  <1>8. Holds(d, at + a, x)
    BY <1>3, <1>6, <1>7, Zenon DEF Holds
  <1> QED
    BY <1>2, <1>3, <1>8

(* A number is written in four bytes. *)
LEMMA WrittenU32 ==
  ASSUME NEW n \in Nat, n <= MaxU32
  PROVE  WriteU32(n) \in Text /\ Len(WriteU32(n)) = 4
  <1>1. PICK a \in Byte, b \in Byte, c \in Byte, d \in Byte :
          a = n % 256 /\ b = (n \div 256) % 256 /\ c = (n \div 65536) % 256
          /\ d = n \div 16777216
    BY FourBytes
  <1>2. WriteU32(n) = <<a, b, c, d>>
    BY <1>1, SMT DEF WriteU32
  <1> QED
    BY <1>2 DEF Text

(* And read from them. *)
LEMMA ReadU32 ==
  ASSUME data \in Text, NEW at \in Nat, NEW n \in Nat, n <= MaxU32, Holds(data, at, WriteU32(n))
  PROVE  U32(at) = n /\ at + 4 <= Len(data)
  <1>1. PICK a \in Byte, b \in Byte, c \in Byte, d \in Byte :
          a = n % 256 /\ b = (n \div 256) % 256 /\ c = (n \div 65536) % 256
          /\ d = n \div 16777216
    BY FourBytes
  <1>2. WriteU32(n) = <<a, b, c, d>>
    BY <1>1, SMT DEF WriteU32
  <1>3. a + 256 * b + 65536 * c + 16777216 * d = n
    BY <1>1, FourBytes, SMT
  <1>4. PICK w : w = WriteU32(n)
    OBVIOUS
  <1>5. Len(w) = 4 /\ w[1] = a /\ w[2] = b /\ w[3] = c /\ w[4] = d
    BY <1>2, <1>4, SMT
  <1>6. at + 4 <= Len(data) /\ \A p \in 1..4 : data[at + p] = w[p]
    BY <1>4, <1>5, Zenon DEF Holds
  <1>7. data[at + 1] = a /\ data[at + 2] = b /\ data[at + 3] = c /\ data[at + 4] = d
    BY <1>5, <1>6, SMT
  <1> QED
    BY <1>3, <1>6, <1>7, SMT DEF U32

(* What is cut out of d where s is, is s. *)
LEMMA Cutting ==
  ASSUME NEW T, NEW d, NEW at \in Nat, NEW s \in Seq(T), Holds(d, at, s)
  PROVE  SubSeq(d, at + 1, at + Len(s)) = s
  <1> DEFINE n == Len(s)
  <1>0. n \in Nat /\ \A p \in 1..n : d[at + p] = s[p]
    BY Zenon, LenProperties DEF Holds
  <1> HIDE DEF n
  <1>1. PICK j \in Int, k \in Int : j = at + 1 /\ k = at + n
    BY <1>0
  <1>2. \A i \in j..k : d[i] \in T
    <2> SUFFICES ASSUME NEW i \in j..k PROVE d[i] \in T
      OBVIOUS
    <2>1. PICK p \in 1..n : i = at + p
      <3>1. i - at \in 1..n /\ i = at + (i - at)
        BY <1>0, <1>1
      <3> QED
        BY <3>1
    <2>2. s[p] \in T /\ d[at + p] = s[p]
      BY <1>0, <2>1 DEF n
    <2> QED
      BY <2>1, <2>2
  <1>3. PICK v : v = SubSeq(d, j, k)
    OBVIOUS
  <1>4. v \in Seq(T)
    BY <1>2, <1>3, SubSeqProperties
  <1>5. Len(v) = IF j <= k THEN k - j + 1 ELSE 0
    BY <1>2, <1>3, SubSeqProperties
  <1>6. \A i \in 1..(k - j + 1) : v[i] = d[j + i - 1]
    BY <1>2, <1>3, SubSeqProperties
  <1>7. Len(v) = n
    BY <1>0, <1>1, <1>5
  <1>8. ASSUME NEW i \in 1..n PROVE v[i] = s[i]
    <2>1. v[i] = d[j + i - 1]
      BY <1>0, <1>1, <1>6
    <2>2. j + i - 1 = at + i
      BY <1>0, <1>1
    <2> QED
      BY <1>0, <2>1, <2>2
  <1>9. v = s
    BY <1>4, <1>7, <1>8, SeqEqual DEF n
  <1> QED
    BY <1>1, <1>3, <1>9 DEF n

(* A string or a number is read where it was written. *)
LEMMA WrittenString ==
  ASSUME NEW t \in Byte, NEW s \in Text, Len(s) <= MaxU32
  PROVE  \E x, w \in Text :
           /\ x[1] = t /\ Len(x) = 1 /\ w = WriteU32(Len(s)) /\ Len(w) = 4
           /\ x \o w \in Text /\ Len(x \o w) = 5
           /\ WriteString(t, s) = (x \o w) \o s
           /\ WriteString(t, s) \in Text /\ Len(WriteString(t, s)) = 5 + Len(s)
  <1>1. Len(s) \in Nat
    BY DEF Text
  <1>2. PICK w \in Text : w = WriteU32(Len(s)) /\ Len(w) = 4
    BY <1>1, WrittenU32
  <1>3. PICK x : x = <<t>>
    OBVIOUS
  <1>4. x \in Text /\ Len(x) = 1 /\ x[1] = t
    BY <1>3 DEF Text
  <1>5. WriteString(t, s) = (x \o w) \o s
    BY <1>2, <1>3, Zenon DEF WriteString
  <1>6. PICK v : v = x \o w
    OBVIOUS
  <1>7. v \in Seq(Byte) /\ Len(v) = 5
    <2>1. x \in Seq(Byte) /\ w \in Seq(Byte)
      BY <1>4 DEF Text
    <2>2. v \in Seq(Byte) /\ Len(v) = Len(x) + Len(w)
      BY <1>6, <2>1, ConcatProperties
    <2> QED
      BY <1>2, <1>4, <2>2
  <1>8. s \in Seq(Byte)
    BY Zenon DEF Text
  <1>9. v \o s \in Seq(Byte) /\ Len(v \o s) = 5 + Len(s)
    <2>1. v \o s \in Seq(Byte) /\ Len(v \o s) = Len(v) + Len(s)
      BY <1>7, <1>8, ConcatProperties, Zenon
    <2> QED
      BY <1>7, <2>1, Zenon
  <1> QED
    BY <1>2, <1>4, <1>5, <1>6, <1>7, <1>9, Zenon DEF Text

(* It ends where it was written to, and says what was written. *)
LEMMA ReadString ==
  ASSUME data \in Text, NEW at \in Nat, NEW t \in Byte, NEW s \in Text, Len(s) <= MaxU32,
         Holds(data, at, WriteString(t, s))
  PROVE  /\ data[at + 1] = t /\ U32(at + 1) = Len(s) /\ StringAt(at + 1) = s
         /\ at + 5 + Len(s) <= Len(data)
  <1>1. PICK x \in Text, w \in Text :
           /\ x[1] = t /\ Len(x) = 1 /\ w = WriteU32(Len(s)) /\ Len(w) = 4
           /\ x \o w \in Text /\ Len(x \o w) = 5
           /\ WriteString(t, s) = (x \o w) \o s
    BY WrittenString, ZenonT(60)
  <1>2. /\ data \in Seq(Byte) /\ s \in Seq(Byte) /\ x \in Seq(Byte) /\ w \in Seq(Byte)
        /\ x \o w \in Seq(Byte)
    BY <1>1, Zenon DEF Text
  <1>3. PICK v \in Seq(Byte) : v = x \o w /\ Len(v) = 5
    BY <1>1, <1>2
  <1>4. Holds(data, at, v) /\ Holds(data, at + 5, s)
    <2>1. Holds(data, at, v \o s)
      BY <1>1, <1>3
    <2> QED
      <3>1. Holds(data, at, v) /\ Holds(data, at + Len(v), s)
        BY <1>2, <2>1, HoldsParts, Zenon
      <3> QED
        BY <1>3, <3>1, Zenon
  <1>5. Holds(data, at, x) /\ Holds(data, at + 1, w)
    <2>1. Holds(data, at, x \o w)
      BY <1>3, <1>4
    <2> QED
      <3>1. Holds(data, at, x) /\ Holds(data, at + Len(x), w)
        BY <1>2, <2>1, HoldsParts, Zenon
      <3> QED
        BY <1>1, <3>1, Zenon
  <1>6. data[at + 1] = t
    <2>1. \A p \in 1..1 : data[at + p] = x[p]
      BY <1>1, <1>5, Zenon DEF Holds
    <2> QED
      BY <1>1, <2>1
  <1>7. U32(at + 1) = Len(s)
    <2>1. Len(s) \in Nat /\ at + 1 \in Nat
      BY <1>2
    <2> QED
      BY <1>1, <1>5, <2>1, ReadU32
  <1>8. PICK l \in Nat, m \in Nat : l = Len(s) /\ m = Len(data)
    BY <1>2
  <1>9. (at + 5) + l <= m /\ \A p \in 1..l : data[(at + 5) + p] = s[p]
    BY <1>4, <1>8, Zenon DEF Holds
  <1>10. StringAt(at + 1) = SubSeq(data, (at + 5) + 1, (at + 5) + l)
    BY <1>7, <1>8, SMT DEF StringAt, Chars
  <1>11. SubSeq(data, (at + 5) + 1, (at + 5) + l) = s
    <2>1. at + 5 \in Nat /\ s \in Seq(Byte)
      BY <1>2
    <2>2. SubSeq(data, (at + 5) + 1, (at + 5) + Len(s)) = s
      BY <1>4, <2>1, Cutting, Zenon
    <2> QED
      BY <1>8, <2>2, Zenon
  <1> QED
    BY <1>6, <1>7, <1>8, <1>9, <1>10, <1>11

(* The numbers and lengths that occur. *)
LEMMA UptoMaxU32 == \A n \in 0..MaxU32 : n \in Nat /\ n <= MaxU32
  <1>1. MaxU32 \in Nat
    BY DEF MaxU32
  <1> QED
    BY <1>1

(* An entry that a text can hold. *)
Fits(e) ==
  /\ e.type \in Byte /\ e.key \in Text /\ Len(e.key) <= MaxU32
  /\ e.type = ANumber => e.value \in 0..MaxU32
  /\ e.type # ANumber => e.value \in Text /\ Len(e.value) <= MaxU32

(* What p4 may print is dicts of entries that fit. *)
LEMMA PrintableFits ==
  ASSUME NEW p \in Printable
  PROVE  /\ p.rest \in Text /\ (p.rest = <<>> \/ p.rest[1] # BeginOfDict)
         /\ p.dicts \in Seq(Seq(Entry))
         /\ \A j \in 1..Len(p.dicts) :
              p.dicts[j] \in Seq(Entry) /\ \A i \in 1..Len(p.dicts[j]) : Fits(p.dicts[j][i])
  <1>1. /\ p.dicts \in Seq(Seq(Entry))
        /\ \A d \in ToSet(p.dicts) : \A e \in ToSet(d) :
             Len(e.key) <= MaxU32 /\ (e.type # ANumber => Len(e.value) <= MaxU32)
        /\ p.rest \in Text /\ (p.rest = <<>> \/ p.rest[1] # BeginOfDict)
    BY PrintableAssumption, Zenon
  <1>2. ASSUME NEW j \in 1..Len(p.dicts)
        PROVE  p.dicts[j] \in Seq(Entry) /\ \A i \in 1..Len(p.dicts[j]) : Fits(p.dicts[j][i])
    <2>1. PICK d \in Seq(Entry) : d = p.dicts[j]
      BY <1>1, ElementOfSeq
    <2>2. d \in ToSet(p.dicts)
      <3>1. DOMAIN p.dicts = 1..Len(p.dicts)
        BY <1>1
      <3> QED
        BY <2>1, <3>1 DEF ToSet
    <2>3. ASSUME NEW i \in 1..Len(d) PROVE Fits(d[i])
      <3>1. PICK e \in Entry : e = d[i]
        BY ElementOfSeq
      <3>2. e \in ToSet(d)
        <4>1. DOMAIN d = 1..Len(d)
          OBVIOUS
        <4> QED
          BY <3>1, <4>1 DEF ToSet
      <3>3. Len(e.key) <= MaxU32 /\ (e.type # ANumber => Len(e.value) <= MaxU32)
        BY <1>1, <2>2, <3>2, Zenon
      <3>4. \/ e \in [type : {ANumber}, key : Text, value : 0..MaxU32]
            \/ e \in [type : Byte \ {ANumber}, key : Text, value : Text]
        BY Zenon DEF Entry
      <3>5. /\ e.type \in Byte /\ e.key \in Text
            /\ e.type = ANumber => e.value \in 0..MaxU32
            /\ e.type # ANumber => e.value \in Text
        BY <3>4, SMT DEF Byte, ANumber
      <3> QED
        BY <3>1, <3>3, <3>5, Zenon DEF Fits
    <2> QED
      BY <2>1, <2>3
  <1> QED
    BY <1>1, <1>2

(* An entry is a key and, behind it, the value with its type. *)
WriteValue(e) ==
  IF e.type = ANumber THEN <<ANumber>> \o WriteU32(e.value) ELSE WriteString(e.type, e.value)

(* Both are texts. *)
LEMMA WrittenEntry ==
  ASSUME NEW e, Fits(e)
  PROVE  \E k, v \in Text : /\ k = WriteString(AString, e.key) /\ v = WriteValue(e)
                            /\ WriteEntry(e) = k \o v /\ WriteEntry(e) \in Text
                            /\ Len(k) = 5 + Len(e.key)
                            /\ Len(v) = 5 + IF e.type = ANumber THEN 0 ELSE Len(e.value)
  <1>1. PICK k \in Text : k = WriteString(AString, e.key) /\ Len(k) = 5 + Len(e.key)
    <2>1. AString \in Byte /\ e.key \in Text /\ Len(e.key) <= MaxU32
      BY SMT DEF Fits, Byte, AString
    <2> QED
      BY <2>1, WrittenString
  <1>2. PICK v \in Text :
          v = WriteValue(e) /\ Len(v) = 5 + IF e.type = ANumber THEN 0 ELSE Len(e.value)
    <2>1. CASE e.type = ANumber
      <3>1. e.value \in Nat /\ e.value <= MaxU32
        <4>1. e.value \in 0..MaxU32
          BY <2>1, Zenon DEF Fits
        <4> QED
          BY <4>1, UptoMaxU32, Zenon
      <3>2. PICK w \in Text : w = WriteU32(e.value) /\ Len(w) = 4
        BY <3>1, WrittenU32
      <3>3. PICK x : x = <<ANumber>>
        OBVIOUS
      <3>4. x \in Seq(Byte) /\ Len(x) = 1 /\ w \in Seq(Byte)
        BY <3>3 DEF Text, Byte, ANumber
      <3>5. x \o w \in Seq(Byte) /\ Len(x \o w) = Len(x) + Len(w)
        BY <3>4, ConcatProperties, Zenon
      <3>6. x \o w = WriteValue(e)
        BY <2>1, <3>2, <3>3, Zenon DEF WriteValue
      <3>7. Len(x \o w) = 5 + 0
        BY <3>2, <3>4, <3>5
      <3> QED
        BY <2>1, <3>5, <3>6, <3>7, Zenon DEF Text
    <2>2. CASE e.type # ANumber
      <3>1. e.type \in Byte /\ e.value \in Text /\ Len(e.value) <= MaxU32
        BY <2>2, Zenon DEF Fits
      <3>2. WriteString(e.type, e.value) \in Text
            /\ Len(WriteString(e.type, e.value)) = 5 + Len(e.value)
        BY <3>1, WrittenString
      <3> QED
        BY <2>2, <3>2, Zenon DEF WriteValue
    <2> QED
      BY <2>1, <2>2
  <1>3. WriteEntry(e) = k \o v
    BY <1>1, <1>2, Zenon DEF WriteEntry, WriteValue
  <1>4. k \o v \in Text
    BY <1>1, <1>2, ConcatProperties, Zenon DEF Text
  <1> QED
    BY <1>1, <1>2, <1>3, <1>4, Zenon

(* Where the parts of an entry are, and what they are read as. *)
EntryPlaces(at, e, l, v, z) ==
  /\ l = Len(e.key) /\ v = at + 5 + l /\ z = at + Len(WriteEntry(e)) /\ z <= Len(data)
  /\ v + 5 <= z
  /\ data[at + 1] = AString /\ U32(at + 1) = l /\ StringAt(at + 1) = e.key
  /\ data[v + 1] = e.type
  /\ e.type = ANumber => z = v + 5 /\ U32(v + 1) = e.value
  /\ e.type # ANumber => z = v + 5 + U32(v + 1) /\ StringAt(v + 1) = e.value
                           /\ U32(v + 1) \in Nat

(* They are there, wherever a text holds the entry. *)
LEMMA ReadEntry ==
  ASSUME data \in Text, NEW at \in Nat, NEW e, Fits(e), Holds(data, at, WriteEntry(e))
  PROVE  \E l, v, z \in Nat : EntryPlaces(at, e, l, v, z)
  <1>1. PICK k \in Text, w \in Text :
          /\ k = WriteString(AString, e.key) /\ w = WriteValue(e)
          /\ WriteEntry(e) = k \o w /\ WriteEntry(e) \in Text
          /\ Len(k) = 5 + Len(e.key) /\ Len(w) = 5 + IF e.type = ANumber THEN 0 ELSE Len(e.value)
    BY WrittenEntry
  <1>2. /\ data \in Seq(Byte) /\ k \in Seq(Byte) /\ w \in Seq(Byte) /\ e.key \in Seq(Byte)
        /\ AString \in Byte /\ ANumber \in Byte
    <2>1. AString \in Byte /\ ANumber \in Byte
      BY SMT DEF AString, ANumber, Byte
    <2> QED
      BY <1>1, <2>1, Zenon DEF Text, Fits
  <1>3. /\ Holds(data, at, k) /\ Holds(data, at + Len(k), w)
        /\ Len(WriteEntry(e)) = Len(k) + Len(w)
    <2>1. Holds(data, at, k \o w) /\ Len(WriteEntry(e)) = Len(k \o w)
      BY <1>1, Zenon
    <2>2. Holds(data, at, k) /\ Holds(data, at + Len(k), w)
      BY <1>2, <2>1, HoldsParts, Zenon
    <2>3. Len(k \o w) = Len(k) + Len(w)
      BY <1>2, ConcatProperties, Zenon
    <2> QED
      BY <2>1, <2>2, <2>3, Zenon
  <1>4. PICK l \in Nat, m \in Nat, v \in Nat, z \in Nat :
          /\ l = Len(e.key) /\ v = at + 5 + l /\ m = Len(w) /\ z = v + m /\ at + Len(k) = v
          /\ z = at + Len(WriteEntry(e))
    <2>1. PICK l \in Nat, m \in Nat : l = Len(e.key) /\ m = Len(w)
      BY <1>2
    <2>2. Len(k) = 5 + l /\ Len(WriteEntry(e)) = (5 + l) + m
      BY <1>1, <1>3, <2>1, Zenon
    <2>3. PICK v \in Nat, z \in Nat : v = at + 5 + l /\ z = v + m
      OBVIOUS
    <2>4. at + Len(k) = v /\ z = at + Len(WriteEntry(e))
      BY <2>2, <2>3
    <2> QED
      BY <2>1, <2>3, <2>4, Zenon
  <1>5. Holds(data, v, w)
    BY <1>3, <1>4
  <1>6. z <= Len(data)
    BY <1>4, <1>5, Zenon DEF Holds
  <1>7. data[at + 1] = AString /\ U32(at + 1) = l /\ StringAt(at + 1) = e.key
    <2>1. e.key \in Text /\ Len(e.key) <= MaxU32
      BY Zenon DEF Fits
    <2> QED
      BY <1>1, <1>2, <1>3, <1>4, <2>1, ReadString, Zenon
  <1>8. CASE e.type = ANumber
    <2>1. m = 5 /\ w = <<ANumber>> \o WriteU32(e.value)
      <3>1. m = 5 + 0
        BY <1>1, <1>4, <1>8, Zenon
      <3> QED
        BY <1>1, <1>8, <3>1, SMT DEF WriteValue
    <2>2. e.value \in Nat /\ e.value <= MaxU32
      <3>1. e.value \in 0..MaxU32
        BY <1>8, Zenon DEF Fits
      <3> QED
        BY <3>1, UptoMaxU32, Zenon
    <2>3. PICK x : x = <<ANumber>>
      OBVIOUS
    <2>4. x \in Seq(Byte) /\ Len(x) = 1 /\ x[1] = ANumber
      BY <1>2, <2>3
    <2>5. PICK u \in Seq(Byte) : u = WriteU32(e.value)
      BY <2>2, WrittenU32 DEF Text
    <2>6. Holds(data, v, x) /\ Holds(data, v + Len(x), u)
      <3>1. Holds(data, v, x \o u)
        BY <1>5, <2>1, <2>3, <2>5
      <3> QED
        BY <1>2, <2>4, <2>5, <3>1, HoldsParts, Zenon
    <2>7. \A p \in 1..1 : data[v + p] = x[p]
      BY <2>4, <2>6, Zenon DEF Holds
    <2>8. data[v + 1] = ANumber
      BY <2>4, <2>7
    <2>9. U32(v + 1) = e.value
      <3>1. v + 1 \in Nat /\ Holds(data, v + 1, WriteU32(e.value))
        BY <2>4, <2>5, <2>6
      <3> QED
        BY <2>2, <3>1, ReadU32
    <2>10. z = v + 5 /\ v + 5 <= z
      <3>1. z = v + m
        BY <1>4, Zenon
      <3> QED
        BY <2>1, <3>1
    <2> QED
      BY <1>4, <1>6, <1>7, <1>8, <2>8, <2>9, <2>10, Zenon DEF EntryPlaces
  <1>9. CASE e.type # ANumber
    <2>1. e.type \in Byte /\ e.value \in Text /\ Len(e.value) <= MaxU32
      BY <1>9, Zenon DEF Fits
    <2>2. w = WriteString(e.type, e.value)
      BY <1>1, <1>9, Zenon DEF WriteValue
    <2>3. data[v + 1] = e.type /\ U32(v + 1) = Len(e.value) /\ StringAt(v + 1) = e.value
      BY <1>5, <2>1, <2>2, ReadString, Zenon
    <2>4. PICK n \in Nat : n = Len(e.value) /\ m = 5 + n
      <3>1. Len(e.value) \in Nat
        BY <2>1 DEF Text
      <3>2. m = 5 + Len(e.value)
        BY <1>1, <1>4, <1>9, Zenon
      <3> QED
        BY <3>1, <3>2
    <2>5. z = v + 5 + n /\ v + 5 <= z
      <3>1. z = v + m
        BY <1>4, Zenon
      <3>2. m = 5 + n
        BY <2>4, Zenon
      <3> QED
        BY <3>1, <3>2
    <2> QED
      BY <1>4, <1>6, <1>7, <1>9, <2>3, <2>4, <2>5, Zenon DEF EntryPlaces
  <1> QED
    BY <1>8, <1>9

(* The entries of a dict and the dicts of a text, written; and where each begins. *)
Entries(d) == [i \in DOMAIN d |-> WriteEntry(d[i])]
Dicts(ds) == [i \in DOMAIN ds |-> WriteDict(ds[i])]
Layout(ss) == CHOOSE o : IsLayout(ss, o)

(* Texts have a layout. *)
LEMMA LaidOut ==
  ASSUME NEW ss \in Seq(Text)
  PROVE  FlattenSeq(ss) \in Seq(Byte) /\ IsLayout(ss, Layout(ss))
  <1>1. ss \in Seq(Seq(Byte))
    BY Zenon DEF Text
  <1> QED
    BY <1>1, FlattenLayout, Zenon DEF Layout

(* The entries of a dict are texts. *)
LEMMA WrittenEntries ==
  ASSUME NEW d \in Seq(Entry), \A i \in 1..Len(d) : Fits(d[i])
  PROVE  /\ Entries(d) \in Seq(Text) /\ Len(Entries(d)) = Len(d)
         /\ \A i \in 1..Len(d) : Entries(d)[i] = WriteEntry(d[i])
  <1>1. PICK n \in Nat : n = Len(d) /\ DOMAIN d = 1..n
    OBVIOUS
  <1>2. \A i \in 1..n : WriteEntry(d[i]) \in Text
    BY <1>1, WrittenEntry, Zenon
  <1>3. Entries(d) = [i \in 1..n |-> WriteEntry(d[i])]
    BY <1>1, Zenon DEF Entries
  <1>4. Entries(d) \in [1..n -> Text] /\ \A i \in 1..n : Entries(d)[i] = WriteEntry(d[i])
    BY <1>2, <1>3
  <1>5. Entries(d) \in Seq(Text) /\ Len(Entries(d)) = n
    BY <1>4, SMT
  <1> QED
    BY <1>1, <1>4, <1>5, Zenon

(* The first byte, the entries and the last byte of a dict. *)
LEMMA WrittenDict ==
  ASSUME NEW d \in Seq(Entry), \A i \in 1..Len(d) : Fits(d[i])
  PROVE  \E b, f, c \in Seq(Byte) :
           /\ f = FlattenSeq(Entries(d)) /\ Len(b) = 1 /\ Len(c) = 1
           /\ b[1] = BeginOfDict /\ c[1] = EndOfDict
           /\ b \o f \in Seq(Byte) /\ WriteDict(d) = (b \o f) \o c /\ WriteDict(d) \in Text
           /\ Len(b \o f) = 1 + Len(f) /\ Len(WriteDict(d)) = Len(f) + 2
  <1>1. PICK f \in Seq(Byte) : f = FlattenSeq(Entries(d))
    BY WrittenEntries, LaidOut, Zenon
  <1>2. PICK b, c : b = <<BeginOfDict>> /\ c = <<EndOfDict>>
    OBVIOUS
  <1>3. /\ b \in Seq(Byte) /\ c \in Seq(Byte) /\ Len(b) = 1 /\ Len(c) = 1
        /\ b[1] = BeginOfDict /\ c[1] = EndOfDict
    BY <1>2 DEF Byte, BeginOfDict, EndOfDict
  <1>4. PICK g : g = b \o f
    OBVIOUS
  <1>5. g \in Seq(Byte) /\ Len(g) = Len(b) + Len(f)
    BY <1>3, <1>4, ConcatProperties
  <1>6. g \o c \in Seq(Byte) /\ Len(g \o c) = Len(g) + Len(c)
    BY <1>3, <1>5, ConcatProperties, Zenon
  <1>7. WriteDict(d) = g \o c
    BY <1>1, <1>2, <1>4, Zenon DEF WriteDict, Entries
  <1>8. PICK n \in Nat : n = Len(f)
    OBVIOUS
  <1>9. Len(g) = 1 + n /\ Len(g \o c) = n + 2
    <2>1. Len(g) = 1 + n /\ Len(g \o c) = Len(g) + 1
      BY <1>3, <1>5, <1>6, <1>8, Zenon
    <2> QED
      BY <2>1
  <1> QED
    BY <1>1, <1>3, <1>4, <1>5, <1>6, <1>7, <1>8, <1>9, Zenon DEF Text

(* Where the parts of a dict are. *)
DictFacts(at, d, n, f, o) ==
  /\ n = Len(d) /\ o = Layout(Entries(d))
  /\ o \in [0..n -> Nat] /\ o[0] = 0 /\ o[n] = f
  /\ f + 2 = Len(WriteDict(d)) /\ at + (f + 2) <= Len(data)
  /\ data[at + 1] = BeginOfDict /\ data[(at + 1 + f) + 1] = EndOfDict
  /\ \A i, j \in 0..n : j = i + 1 =>
       /\ Holds(data, at + 1 + o[i], WriteEntry(d[j]))
       /\ o[j] = o[i] + Len(WriteEntry(d[j]))

(* They are there, wherever a text holds the dict. *)
LEMMA ReadDict ==
  ASSUME data \in Text, NEW at \in Nat, NEW d \in Seq(Entry), \A i \in 1..Len(d) : Fits(d[i]),
         Holds(data, at, WriteDict(d))
  PROVE  \E n, f \in Nat, o \in [0..Len(d) -> Nat] : DictFacts(at, d, n, f, o)
  <1>1. PICK b \in Seq(Byte), w \in Seq(Byte), c \in Seq(Byte) :
           /\ w = FlattenSeq(Entries(d)) /\ Len(b) = 1 /\ Len(c) = 1
           /\ b[1] = BeginOfDict /\ c[1] = EndOfDict
           /\ b \o w \in Seq(Byte) /\ WriteDict(d) = (b \o w) \o c /\ WriteDict(d) \in Text
           /\ Len(b \o w) = 1 + Len(w) /\ Len(WriteDict(d)) = Len(w) + 2
    BY WrittenDict, Zenon
  <1>2. PICK n \in Nat, f \in Nat : n = Len(d) /\ f = Len(w)
    OBVIOUS
  <1>3. PICK ss \in Seq(Text) :
          ss = Entries(d) /\ Len(ss) = n /\ \A i \in 1..n : ss[i] = WriteEntry(d[i])
    BY <1>2, WrittenEntries, Zenon
  <1>4. ss \in Seq(Seq(Byte)) /\ data \in Seq(Byte)
    BY <1>3, Zenon DEF Text
  <1>5. PICK o : o = Layout(ss) /\ IsLayout(ss, o)
    BY LaidOut, Zenon
  <1>6. /\ o \in [0..n -> Nat] /\ o[0] = 0 /\ o[n] = f
        /\ \A i, j \in 0..n : j = i + 1 => o[j] = o[i] + Len(ss[j])
    <2>1. /\ o \in [0..Len(ss) -> Nat] /\ o[0] = 0 /\ o[Len(ss)] = Len(FlattenSeq(ss))
          /\ \A i, j \in 0..Len(ss) : j = i + 1 => o[j] = o[i] + Len(ss[j])
      BY <1>5, Zenon DEF IsLayout
    <2>2. Len(FlattenSeq(ss)) = f /\ Len(ss) = n
      BY <1>1, <1>2, <1>3, Zenon
    <2> QED
      BY <2>1, <2>2
  <1>7. PICK g \in Seq(Byte) : g = b \o w /\ Len(g) = 1 + f
    BY <1>1, <1>2, Zenon
  <1>8. Holds(data, at, g) /\ Holds(data, at + Len(g), c)
    <2>1. Holds(data, at, g \o c)
      BY <1>1, <1>7, Zenon
    <2> QED
      BY <1>4, <1>7, <2>1, HoldsParts, Zenon
  <1>9. Holds(data, at, b) /\ Holds(data, at + Len(b), w)
    <2>1. Holds(data, at, b \o w)
      BY <1>7, <1>8, Zenon
    <2> QED
      BY <1>4, <2>1, HoldsParts, Zenon
  <1>10. data[at + 1] = BeginOfDict
    <2>1. \A p \in 1..1 : data[at + p] = b[p]
      BY <1>1, <1>9, Zenon DEF Holds
    <2>2. 1 \in 1..1
      OBVIOUS
    <2> QED
      BY <1>1, <2>1, <2>2, Zenon
  <1>11. data[(at + 1 + f) + 1] = EndOfDict /\ at + (f + 2) <= Len(data)
    <2>1. Holds(data, at + (1 + f), c)
      BY <1>7, <1>8, Zenon
    <2>2. /\ at + (1 + f) + 1 <= Len(data)
          /\ \A p \in 1..1 : data[at + (1 + f) + p] = c[p]
      BY <1>1, <2>1, Zenon DEF Holds
    <2>3. 1 \in 1..1 /\ at + (1 + f) + 1 = (at + 1 + f) + 1 /\ at + (1 + f) + 1 = at + (f + 2)
      OBVIOUS
    <2>4. data[at + (1 + f) + 1] = EndOfDict
      BY <1>1, <2>2, <2>3, Zenon
    <2> QED
      BY <2>2, <2>3, <2>4, Zenon
  <1>12. ASSUME NEW i \in 0..n, NEW j \in 0..n, j = i + 1
         PROVE  /\ Holds(data, at + 1 + o[i], WriteEntry(d[j]))
                /\ o[j] = o[i] + Len(WriteEntry(d[j]))
    <2>1. ss[j] = WriteEntry(d[j])
      <3>1. j \in 1..n
        BY <1>12
      <3> QED
        BY <1>3, <3>1, Zenon
    <2>2. Holds(data, at + 1, FlattenSeq(ss))
      BY <1>1, <1>3, <1>9, Zenon
    <2>3. at + 1 \in Nat
      OBVIOUS
    <2>4. Holds(data, at + 1 + o[i], ss[j])
      BY <1>3, <1>4, <1>5, <1>12, <2>2, <2>3, HoldsFlatten, Zenon
    <2> QED
      BY <1>6, <1>12, <2>1, <2>4, Zenon
  <1>13. f + 2 = Len(WriteDict(d))
    BY <1>1, <1>2, Zenon
  <1>14. DictFacts(at, d, n, f, o)
    BY <1>2, <1>3, <1>5, <1>6, <1>10, <1>11, <1>12, <1>13, Zenon DEF DictFacts
  <1>15. o \in [0..Len(d) -> Nat]
    BY <1>2, <1>6, Zenon
  <1> QED
    BY <1>14, <1>15, Zenon

(* Where a dict begins, and the m-th entry of a dict d. *)
DictAt(ds, k) == Layout(Dicts(ds))[k]
EntryAt(ds, k, d, m) == DictAt(ds, k) + 1 + Layout(Entries(d))[m]

(* Where the n dicts are in data, and the rest behind them at z. *)
TextFacts(n, z, o) ==
  /\ data \in Text /\ n = Len(sent.dicts) /\ o = Layout(Dicts(sent.dicts))
  /\ o \in [0..n -> Nat] /\ o[0] = 0 /\ o[n] = z /\ z <= Len(data)
  /\ z < Len(data) => sent.rest # <<>> /\ data[z + 1] # BeginOfDict
  /\ \A k, j \in 0..n : j = k + 1 =>
       /\ Holds(data, o[k], WriteDict(sent.dicts[j]))
       /\ o[j] = o[k] + Len(WriteDict(sent.dicts[j]))

(* The bytes are those of what was sent. *)
Written == sent \in Printable /\ data = WriteDicts(sent.dicts) \o sent.rest

(* They are there. *)
LEMMA ReadText ==
  ASSUME Written
  PROVE  \E n, z \in Nat, o \in [0..Len(sent.dicts) -> Nat] : TextFacts(n, z, o)
  <1>1. /\ sent.rest \in Text /\ (sent.rest = <<>> \/ sent.rest[1] # BeginOfDict)
        /\ sent.dicts \in Seq(Seq(Entry))
        /\ \A j \in 1..Len(sent.dicts) :
             /\ sent.dicts[j] \in Seq(Entry)
             /\ \A i \in 1..Len(sent.dicts[j]) : Fits(sent.dicts[j][i])
    BY PrintableFits, Zenon DEF Written
  <1>2. PICK n \in Nat : n = Len(sent.dicts) /\ DOMAIN sent.dicts = 1..n
    BY <1>1
  <1>3. PICK ss : ss = Dicts(sent.dicts)
    OBVIOUS
  <1>4. ss = [j \in 1..n |-> WriteDict(sent.dicts[j])]
    BY <1>2, <1>3, Zenon DEF Dicts
  <1>5. \A j \in 1..n : WriteDict(sent.dicts[j]) \in Text
    BY <1>1, <1>2, WrittenDict, Zenon
  <1>6. /\ ss \in [1..n -> Text] /\ \A j \in 1..n : ss[j] = WriteDict(sent.dicts[j])
    BY <1>4, <1>5
  <1>7. ss \in Seq(Text) /\ Len(ss) = n
    BY <1>6, SMT
  <1>8. PICK o : o = Layout(ss) /\ IsLayout(ss, o)
    BY <1>7, LaidOut, Zenon
  <1>9. PICK w \in Seq(Byte), r \in Seq(Byte) : w = FlattenSeq(ss) /\ r = sent.rest /\ data = w \o r
    <2>1. FlattenSeq(ss) \in Seq(Byte) /\ sent.rest \in Seq(Byte)
      BY <1>1, <1>7, LaidOut, Zenon DEF Text
    <2>2. data = FlattenSeq(ss) \o sent.rest
      BY <1>3, Zenon DEF Written, WriteDicts, Dicts
    <2> QED
      BY <2>1, <2>2
  <1>10. PICK z \in Nat, t \in Nat : z = Len(w) /\ t = Len(r)
    OBVIOUS
  <1>11. data \in Seq(Byte) /\ Len(data) = z + t
         /\ (\A p \in 1..z : data[p] = w[p]) /\ (\A p \in 1..t : data[z + p] = r[p])
    BY <1>9, <1>10
  <1>12. o \in [0..n -> Nat] /\ o[0] = 0 /\ o[n] = z
         /\ \A k, j \in 0..n : j = k + 1 => o[j] = o[k] + Len(ss[j])
    <2>1. /\ o \in [0..Len(ss) -> Nat] /\ o[0] = 0 /\ o[Len(ss)] = Len(FlattenSeq(ss))
          /\ \A k, j \in 0..Len(ss) : j = k + 1 => o[j] = o[k] + Len(ss[j])
      BY <1>8, Zenon DEF IsLayout
    <2>2. Len(FlattenSeq(ss)) = z /\ Len(ss) = n
      BY <1>7, <1>9, <1>10, Zenon
    <2> QED
      BY <2>1, <2>2
  <1>13. z <= Len(data) /\ (z < Len(data) => sent.rest # <<>> /\ data[z + 1] # BeginOfDict)
    <2>1. z <= Len(data) /\ (z < Len(data) => t # 0)
      BY <1>11
    <2>2. ASSUME t # 0 PROVE r # <<>> /\ data[z + 1] = r[1]
      <3>1. 1 \in 1..t
        BY <2>2
      <3>2. r # <<>>
        BY <1>10, <2>2
      <3> QED
        BY <1>11, <3>1, <3>2, Zenon
    <2> QED
      BY <1>1, <1>9, <2>1, <2>2, Zenon
  <1>14. Holds(data, 0, FlattenSeq(ss))
    <2>1. 0 + z <= Len(data) /\ \A p \in 1..z : data[0 + p] = w[p]
      BY <1>11
    <2> QED
      BY <1>9, <1>10, <2>1, Zenon DEF Holds
  <1>15. ASSUME NEW k \in 0..n, NEW j \in 0..n, j = k + 1
         PROVE  /\ Holds(data, o[k], WriteDict(sent.dicts[j]))
                /\ o[j] = o[k] + Len(WriteDict(sent.dicts[j]))
    <2>1. ss[j] = WriteDict(sent.dicts[j])
      <3>1. j \in 1..n
        BY <1>15
      <3> QED
        BY <1>6, <3>1, Zenon
    <2>2. 0 \in Nat /\ ss \in Seq(Seq(Byte)) /\ data \in Seq(Byte)
      BY <1>7, <1>11, Zenon DEF Text
    <2>3. Holds(data, 0 + o[k], ss[j])
      BY <1>7, <1>8, <1>14, <1>15, <2>2, HoldsFlatten, Zenon
    <2>4. 0 + o[k] = o[k]
      BY <1>12
    <2> QED
      BY <1>12, <1>15, <2>1, <2>3, <2>4, Zenon
  <1>16. TextFacts(n, z, o)
    BY <1>2, <1>3, <1>8, <1>11, <1>12, <1>13, <1>15, Zenon DEF TextFacts, Text
  <1>17. o \in [0..Len(sent.dicts) -> Nat]
    BY <1>2, <1>12, Zenon
  <1> QED
    BY <1>16, <1>17, Zenon

(* Where the k-th dict and the entries of the next one, d, are. *)
DictPlaces(k, j, d, n, f, a, b, c, o) ==
  /\ d = sent.dicts[j] /\ (\A i \in 1..n : Fits(d[i])) /\ DictFacts(a, d, n, f, o)
  /\ a = DictAt(sent.dicts, k) /\ a + 1 = EntryAt(sent.dicts, k, d, 0)
  /\ b = EntryAt(sent.dicts, k, d, n) /\ b = a + 1 + f /\ b < Len(data)
  /\ c = DictAt(sent.dicts, j) /\ c = b + 1

(* They are there, for every dict. *)
LEMMA PlacesOfDict ==
  ASSUME Written, NEW k \in 0..Len(sent.dicts), NEW j \in 0..Len(sent.dicts), j = k + 1
  PROVE  \E d \in Seq(Entry), n, f, a, b, c \in Nat, o \in [0..Len(sent.dicts[j]) -> Nat] :
            DictPlaces(k, j, d, n, f, a, b, c, o)
  <1>1. PICK n \in Nat, z \in Nat, o \in [0..Len(sent.dicts) -> Nat] : TextFacts(n, z, o)
    BY ReadText
  <1>2. /\ data \in Text /\ n = Len(sent.dicts) /\ o = Layout(Dicts(sent.dicts))
        /\ o \in [0..n -> Nat]
        /\ Holds(data, o[k], WriteDict(sent.dicts[j]))
        /\ o[j] = o[k] + Len(WriteDict(sent.dicts[j]))
    BY <1>1, Zenon DEF TextFacts
  <1>3. PICK a \in Nat, c \in Nat :
          a = o[k] /\ c = o[j] /\ a = DictAt(sent.dicts, k) /\ c = DictAt(sent.dicts, j)
    BY <1>2, Zenon DEF DictAt
  <1>4. PICK d \in Seq(Entry) : d = sent.dicts[j] /\ \A i \in 1..Len(d) : Fits(d[i])
    <2>1. j \in 1..Len(sent.dicts)
      BY <1>2
    <2> QED
      BY <2>1, PrintableFits, Zenon DEF Written
  <1>5. PICK m \in Nat, f \in Nat, p \in [0..Len(d) -> Nat] : DictFacts(a, d, m, f, p)
    BY <1>2, <1>3, <1>4, ReadDict, Zenon
  <1>6. m = Len(d) /\ p = Layout(Entries(d)) /\ p[0] = 0 /\ p[m] = f
        /\ f + 2 = Len(WriteDict(d)) /\ a + (f + 2) <= Len(data)
    BY <1>5, Zenon DEF DictFacts
  <1>7. /\ EntryAt(sent.dicts, k, d, 0) = a + 1 + 0 /\ EntryAt(sent.dicts, k, d, m) = a + 1 + f
    BY <1>3, <1>6, Zenon DEF EntryAt
  <1>8. PICK b \in Nat : b = a + 1 + f
    OBVIOUS
  <1>9. c = a + (f + 2)
    BY <1>2, <1>3, <1>4, <1>6, Zenon
  <1>10. c = b + 1 /\ a + 1 + 0 = a + 1
    BY <1>8, <1>9
  <1>11. b < Len(data)
    <2>1. PICK l \in Nat : l = Len(data)
      BY <1>2 DEF Text
    <2> QED
      BY <1>6, <1>8, <2>1
  <1>12. \A i \in 1..m : Fits(d[i])
    BY <1>4, <1>6, Zenon
  <1>13. b = EntryAt(sent.dicts, k, d, m) /\ a + 1 = EntryAt(sent.dicts, k, d, 0)
    BY <1>7, <1>8, <1>10, Zenon
  <1>14. DictPlaces(k, j, d, m, f, a, b, c, p)
    BY <1>3, <1>4, <1>5, <1>8, <1>10, <1>11, <1>12, <1>13, Zenon DEF DictPlaces
  <1>15. p \in [0..Len(sent.dicts[j]) -> Nat]
    BY <1>4, Zenon
  <1> QED
    BY <1>14, <1>15, Zenon

(* Where the m-th entry of d begins, and the next one. *)
EntryStep(k, d, m, i, x, y, l) ==
  /\ x = EntryAt(sent.dicts, k, d, m) /\ y = EntryAt(sent.dicts, k, d, i)
  /\ Fits(d[i]) /\ Holds(data, x, WriteEntry(d[i]))
  /\ l = Len(WriteEntry(d[i])) /\ y = x + l

(* It is there, for every entry. *)
LEMMA PlacesOfEntry ==
  ASSUME NEW k \in Nat, NEW j \in Nat, NEW d \in Seq(Entry), NEW n \in Nat, NEW f \in Nat,
         NEW a \in Nat,
         NEW b \in Nat, NEW c \in Nat, NEW o, DictPlaces(k, j, d, n, f, a, b, c, o),
         NEW m \in 0..n, NEW i \in 0..n, i = m + 1
  PROVE  \E x, y, l \in Nat : EntryStep(k, d, m, i, x, y, l)
  <1>1. /\ o = Layout(Entries(d)) /\ o \in [0..n -> Nat] /\ a = DictAt(sent.dicts, k)
        /\ Holds(data, a + 1 + o[m], WriteEntry(d[i]))
        /\ o[i] = o[m] + Len(WriteEntry(d[i]))
    BY Zenon DEF DictPlaces, DictFacts
  <1>2. PICK x \in Nat, y \in Nat, p \in Nat, q \in Nat :
          p = o[m] /\ q = o[i] /\ x = a + 1 + o[m] /\ y = a + 1 + o[i]
    <2>1. PICK p \in Nat, q \in Nat : p = o[m] /\ q = o[i]
      BY <1>1, Zenon
    <2>2. a + 1 + p \in Nat /\ a + 1 + q \in Nat
      OBVIOUS
    <2> QED
      BY <2>1, <2>2
  <1>3. x = EntryAt(sent.dicts, k, d, m) /\ y = EntryAt(sent.dicts, k, d, i)
    BY <1>1, <1>2, Zenon DEF EntryAt
  <1>4. i \in 1..n
    OBVIOUS
  <1>5. Fits(d[i])
    BY <1>4, Zenon DEF DictPlaces
  <1>6. PICK l \in Nat : l = Len(WriteEntry(d[i]))
    <2>1. WriteEntry(d[i]) \in Seq(Byte)
      BY <1>5, WrittenEntry, Zenon DEF Text
    <2> QED
      BY <2>1
  <1>7. y = x + l
    <2>1. q = p + l
      BY <1>1, <1>2, <1>6, Zenon
    <2>2. x = a + 1 + p /\ y = a + 1 + q
      BY <1>2, Zenon
    <2> QED
      BY <2>1, <2>2
  <1>8. Holds(data, x, WriteEntry(d[i]))
    BY <1>1, <1>2, Zenon
  <1> QED
    BY <1>3, <1>5, <1>6, <1>7, <1>8, Zenon DEF EntryStep

(* What the parser makes of an entry that begins at consumed. *)
ParsedEntry(e) ==
  [key |-> e.key, text |-> IF e.type = ANumber THEN Decimal(e.value) ELSE e.value]

(* It takes a pair when it is complete, and only then; and it rejects a foreign one. *)
LEMMA ReadPair ==
  ASSUME data \in Text, count \in 0..Len(data), NEW e, Fits(e), consumed \in Nat,
         Holds(data, consumed, WriteEntry(e))
  PROVE  /\ data[consumed + 1] = AString
         /\ Pair.end <= count =>
              /\ Pair.end = consumed + Len(WriteEntry(e))
              /\ [key |-> StringAt(consumed + 1),
                  text |-> IF Pair.value = "string" THEN StringAt(ValueAt + 1)
                                                    ELSE Decimal(U32(ValueAt + 1))]
                   = ParsedEntry(e)
         /\ ValueAt < count /\ Pair.value = "none" => Foreign(e)
         /\ count = Len(data) /\ ~Foreign(e) => Pair.end <= count
  <1>0. PICK l \in Nat, v \in Nat, z \in Nat : EntryPlaces(consumed, e, l, v, z)
    BY ReadEntry
  <1>1. /\ v = consumed + 5 + l /\ z = consumed + Len(WriteEntry(e))
        /\ z <= Len(data) /\ v + 5 <= z
        /\ data[consumed + 1] = AString /\ U32(consumed + 1) = l /\ StringAt(consumed + 1) = e.key
        /\ data[v + 1] = e.type
        /\ e.type = ANumber => z = v + 5 /\ U32(v + 1) = e.value
        /\ e.type # ANumber => z = v + 5 + U32(v + 1) /\ StringAt(v + 1) = e.value
                                 /\ U32(v + 1) \in Nat
    BY <1>0, Zenon DEF EntryPlaces
  <1>2. count \in Nat /\ AString # ANumber
    BY SMT DEF Text, AString, ANumber
  <1>3. CASE consumed + 5 <= count
    <2>1. ValueAt = v
      <3>1. ValueAt = consumed + 1 + 4 + U32(consumed + 1)
        <4>1. consumed + 1 + 4 <= count
          BY <1>2, <1>3
        <4> QED
          BY <4>1, Zenon DEF ValueAt, StringEnd, Has
      <3>2. U32(consumed + 1) = l /\ v = consumed + 5 + l
        BY <1>1, Zenon
      <3> QED
        BY <3>1, <3>2
    <2>2. CASE v < count
      <3>1. CASE e.type = AString
        <4>1. Pair = [value |-> "string", end |-> StringEnd(v + 1)]
          BY <1>1, <1>2, <2>1, <2>2, <3>1, Zenon DEF Pair, Peek
        <4>2. StringEnd(v + 1) = IF v + 1 + 4 <= count THEN v + 1 + 4 + U32(v + 1) ELSE count + 1
          BY Zenon DEF StringEnd, Has
        <4>3. z = v + 5 + U32(v + 1) /\ StringAt(v + 1) = e.value /\ U32(v + 1) \in Nat
          BY <1>1, <1>2, <3>1, Zenon
        <4>4. StringEnd(v + 1) = (IF v + 5 <= count THEN z ELSE count + 1)
          BY <1>2, <4>2, <4>3
        <4>5. StringEnd(v + 1) <= count => StringEnd(v + 1) = z
          BY <1>2, <4>4
        <4>6. z <= count => StringEnd(v + 1) <= count
          BY <1>1, <1>2, <4>4
        <4>7. Pair.end = StringEnd(v + 1) /\ Pair.value = "string"
          BY <4>1, Zenon
        <4>8. [key |-> StringAt(consumed + 1),
               text |-> IF Pair.value = "string" THEN StringAt(ValueAt + 1)
                                                 ELSE Decimal(U32(ValueAt + 1))] = ParsedEntry(e)
          BY <1>1, <1>2, <2>1, <3>1, <4>3, <4>7, Zenon DEF ParsedEntry
        <4> QED
          BY <1>1, <4>5, <4>6, <4>7, <4>8, Zenon
      <3>2. CASE e.type = ANumber
        <4>1. Pair = [value |-> "number", end |-> v + 5]
          BY <1>1, <1>2, <2>1, <2>2, <3>2, Zenon DEF Pair, Peek
        <4>2. Pair.end = z /\ Pair.value = "number"
          BY <1>1, <3>2, <4>1, Zenon
        <4>3. [key |-> StringAt(consumed + 1),
               text |-> IF Pair.value = "string" THEN StringAt(ValueAt + 1)
                                                 ELSE Decimal(U32(ValueAt + 1))] = ParsedEntry(e)
          BY <1>1, <2>1, <3>2, <4>2, Zenon DEF ParsedEntry
        <4> QED
          BY <1>1, <4>2, <4>3, Zenon
      <3>3. CASE Foreign(e)
        <4>1. Pair = [value |-> "none", end |-> count + 1]
          BY <1>1, <1>2, <2>1, <2>2, <3>3, Zenon DEF Pair, Peek, Foreign
        <4>2. ~(Pair.end <= count)
          BY <1>2, <4>1
        <4> QED
          BY <1>1, <3>3, <4>2, Zenon
      <3> QED
        BY <3>1, <3>2, <3>3 DEF Foreign
    <2>3. CASE ~(v < count)
      <3>1. Pair = [value |-> "none", end |-> count + 1]
        BY <2>1, <2>3, Zenon DEF Pair, Peek
      <3>2. ~(Pair.end <= count)
        BY <1>2, <3>1
      <3>3. count # Len(data)
        BY <1>1, <1>2, <2>3
      <3> QED
        BY <1>1, <2>1, <2>3, <3>2, <3>3, Zenon
    <2> QED
      BY <2>2, <2>3
  <1>4. CASE ~(consumed + 5 <= count)
    <2>1. ValueAt = count + 1
      <3>1. ~(consumed + 1 + 4 <= count)
        BY <1>2, <1>4
      <3> QED
        BY <3>1, Zenon DEF ValueAt, StringEnd, Has
    <2>2. Pair = [value |-> "none", end |-> count + 1]
      <3>1. ~(ValueAt < count)
        BY <1>2, <2>1
      <3> QED
        BY <3>1, Zenon DEF Pair, Peek
    <2>3. ~(Pair.end <= count) /\ ~(ValueAt < count)
      BY <1>2, <2>1, <2>2
    <2>4. count # Len(data)
      BY <1>1, <1>2, <1>4
    <2> QED
      BY <1>1, <2>3, <2>4, Zenon
  <1> QED
    BY <1>3, <1>4

(* The first k of what F has. *)
First(F, k) == [i \in 1..k |-> F[i]]

(* They are a prefix of it, of that length. *)
LEMMA FirstOnes ==
  ASSUME NEW F
  PROVE  /\ First(F, 0) = <<>>
         /\ \A k, j \in Nat : j = k + 1 => Append(First(F, k), F[j]) = First(F, j)
         /\ \A n \in Nat : F = [i \in 1..n |-> F[i]] =>
              First(F, n) = F /\ \A k \in 0..n : Len(First(F, k)) = k /\ IsPrefix(First(F, k), F)
  <1> DEFINE T == {F[i] : i \in Nat}
  <1>1. ASSUME NEW k \in Nat
        PROVE  /\ First(F, k) \in Seq(T) /\ Len(First(F, k)) = k
                /\ \A i \in 1..k : First(F, k)[i] = F[i]
    <2>1. First(F, k) \in [1..k -> T] /\ \A i \in 1..k : First(F, k)[i] = F[i]
      BY DEF First
    <2> HIDE DEF T
    <2>2. First(F, k) \in Seq(T) /\ Len(First(F, k)) = k
      BY <2>1, SMT
    <2> QED
      BY <2>1, <2>2
  <1>2. First(F, 0) = <<>>
    BY <1>1, EmptySeq
  <1>3. ASSUME NEW k \in Nat, NEW j \in Nat, j = k + 1
        PROVE  Append(First(F, k), F[j]) = First(F, j)
    <2>1. F[j] \in T
      OBVIOUS
    <2> HIDE DEF T
    <2>2. PICK s \in Seq(T) : s = First(F, k) /\ Len(s) = k /\ \A i \in 1..k : s[i] = F[i]
      BY <1>1
    <2>3. PICK t \in Seq(T) : t = First(F, j) /\ Len(t) = j /\ \A i \in 1..j : t[i] = F[i]
      BY <1>1
    <2>4. PICK u \in Seq(T) : u = Append(s, F[j])
      BY <2>1, AppendProperties, Zenon
    <2>5. Len(u) = j /\ (\A i \in 1..k : u[i] = s[i]) /\ u[j] = F[j]
      BY <1>3, <2>1, <2>2, <2>4
    <2>6. ASSUME NEW i \in 1..j PROVE u[i] = t[i]
      <3>1. CASE i = j
        BY <2>3, <2>5, <3>1
      <3>2. CASE i \in 1..k
        BY <2>2, <2>3, <2>5, <3>2
      <3> QED
        BY <1>3, <3>1, <3>2
    <2>7. u = t
      BY <2>3, <2>5, <2>6, SeqEqual
    <2> QED
      BY <2>2, <2>3, <2>4, <2>7
  <1>4. ASSUME NEW n \in Nat, F = [i \in 1..n |-> F[i]]
        PROVE  First(F, n) = F /\ \A k \in 0..n : Len(First(F, k)) = k /\ IsPrefix(First(F, k), F)
    <2>1. First(F, n) = F
      BY <1>4, Zenon DEF First
    <2> HIDE DEF T
    <2>2. ASSUME NEW k \in 0..n PROVE Len(First(F, k)) = k /\ IsPrefix(First(F, k), F)
      <3>1. PICK s \in Seq(T) : s = First(F, k) /\ Len(s) = k /\ \A i \in 1..k : s[i] = F[i]
        <4>1. k \in Nat
          OBVIOUS
        <4> QED
          BY <1>1, <4>1, Zenon
      <3>2. Holds(s, 0, s) /\ Holds(F, 0, s)
        <4>1. Len(F) = n
          BY <1>1, <2>1
        <4>2. /\ 0 + k <= n /\ 0 + k <= k
              /\ \A i \in 1..k : F[0 + i] = s[i]
              /\ \A i \in 1..k : s[0 + i] = s[i]
          BY <3>1
        <4> QED
          BY <3>1, <4>1, <4>2, Zenon DEF Holds
      <3>3. SubSeq(s, 0 + 1, 0 + Len(s)) = s /\ SubSeq(F, 0 + 1, 0 + Len(s)) = s
        <4>1. 0 \in Nat
          OBVIOUS
        <4> QED
          BY <3>2, <4>1, Cutting, Zenon
      <3>4. SubSeq(s, 1, Len(s)) = SubSeq(F, 1, Len(s)) /\ Len(s) <= Len(F)
        <4>1. 0 + 1 = 1 /\ 0 + k = k
          OBVIOUS
        <4>2. SubSeq(s, 1, k) = SubSeq(F, 1, k)
          BY <3>1, <3>3, <4>1, Zenon
        <4>3. Len(F) = n
          BY <1>1, <2>1
        <4> QED
          BY <3>1, <4>2, <4>3
      <3> QED
        BY <3>1, <3>4, Zenon DEF IsPrefix
    <2> QED
      BY <2>1, <2>2
  <1> QED
    BY <1>2, <1>3, <1>4

----------------------------------------------------------------------------
(* What the parser has read. *)

(* All that the parser should read. *)
Whole(ds) == [i \in DOMAIN ds |-> Parsed(ds[i])]

(* The parser has read k dicts, or k and the first m entries of the next.  *)
BetweenDicts(k) ==
  /\ k \in 0..Len(sent.dicts) /\ consumed = DictAt(sent.dicts, k)
  /\ dict = <<>> /\ dicts = First(Whole(sent.dicts), k)
Inside(k, j, d, m) ==
  /\ k \in 0..Len(sent.dicts) /\ j \in 0..Len(sent.dicts) /\ j = k + 1 /\ d = sent.dicts[j]
  /\ m \in 0..Len(d) /\ consumed = EntryAt(sent.dicts, k, d, m)
  /\ dict = First(Parsed(d), m) /\ dicts = First(Whole(sent.dicts), k)

(* How far it has read; in an error, the rest or a foreign entry is next. *)
ReadUpto ==
  \/ state = "Idle" /\ \E k \in Nat : BetweenDicts(k)
  \/ state = "Dict" /\ \E k, j, m \in Nat, d \in Seq(Entry) : Inside(k, j, d, m)
  \/ state = "Error" /\ sent.rest # <<>> /\ BetweenDicts(Len(sent.dicts))
  \/ state = "Error" /\ \E k, j, m, i \in Nat, d \in Seq(Entry) :
                          Inside(k, j, d, m) /\ i = m + 1 /\ i \in 0..Len(d) /\ Foreign(d[i])

(* The inductive invariant of the parser: unless memory ran out, it stands     *)
(* where a dict or an entry begins or a dict ends, and has read what is before. *)
ParserInv == Written /\ count \in 0..Len(data) /\ (~lost => ReadUpto)

(* It stands at the first dict. *)
LEMMA ParserInitially == ParserInit => ParserInv
  <1> SUFFICES ASSUME ParserInit PROVE ParserInv
    OBVIOUS
  <1>1. /\ Written /\ count = 0 /\ consumed = 0 /\ state = "Idle" /\ dict = <<>> /\ dicts = <<>>
    BY Zenon DEF ParserInit, Written
  <1>2. PICK n \in Nat, z \in Nat, o \in [0..Len(sent.dicts) -> Nat] : TextFacts(n, z, o)
    BY <1>1, ReadText
  <1>3. /\ data \in Text /\ n = Len(sent.dicts) /\ o = Layout(Dicts(sent.dicts)) /\ o[0] = 0
    BY <1>2, Zenon DEF TextFacts
  <1>4. count \in 0..Len(data)
    <2>1. Len(data) \in Nat
      BY <1>3 DEF Text
    <2> QED
      BY <1>1, <2>1
  <1>5. 0 \in 0..n /\ 0 \in Nat
    OBVIOUS
  <1>6. BetweenDicts(0)
    BY <1>1, <1>3, <1>5, FirstOnes, Zenon DEF BetweenDicts, DictAt
  <1> QED
    BY <1>1, <1>4, <1>5, <1>6, Zenon DEF ParserInv, ReadUpto

(* TickBegin enters the next dict. *)
LEMMA StepBegin ==
  ASSUME ParserInv, TickBegin, ~lost
  PROVE  ReadUpto'
  <1>1. /\ Written /\ count \in 0..Len(data) /\ state = "Idle" /\ consumed < count
        /\ data[consumed + 1] = BeginOfDict
    BY Zenon DEF ParserInv, TickBegin, Peek
  <1>2. PICK k \in Nat : BetweenDicts(k)
    BY <1>1, Zenon DEF ParserInv, ReadUpto
  <1>3. PICK n \in Nat, z \in Nat, o \in [0..Len(sent.dicts) -> Nat] : TextFacts(n, z, o)
    BY <1>1, ReadText
  <1>4. /\ k \in 0..n /\ n = Len(sent.dicts) /\ consumed = o[k] /\ o[n] = z
        /\ dict = <<>> /\ dicts = First(Whole(sent.dicts), k) /\ data \in Text
    BY <1>2, <1>3, Zenon DEF BetweenDicts, DictAt, TextFacts
  <1>5. k # n
    <2> SUFFICES ASSUME k = n PROVE FALSE
      OBVIOUS
    <2>1. consumed = z
      BY <1>4, Zenon
    <2>2. z < Len(data)
      <3>1. PICK l \in Nat : l = Len(data)
        BY <1>4 DEF Text
      <3> QED
        BY <1>1, <2>1, <3>1
    <2> QED
      BY <1>1, <1>3, <2>1, <2>2, Zenon DEF TextFacts
  <1>6. PICK j \in 0..n : j = k + 1
    BY <1>4, <1>5
  <1>7. PICK d \in Seq(Entry), p \in Nat, f \in Nat, a \in Nat, b \in Nat, c \in Nat,
          e \in [0..Len(sent.dicts[j]) -> Nat] : DictPlaces(k, j, d, p, f, a, b, c, e)
    BY <1>1, <1>4, <1>6, PlacesOfDict
  <1>8. d = sent.dicts[j] /\ consumed = a /\ a + 1 = EntryAt(sent.dicts, k, d, 0)
    BY <1>2, <1>7, Zenon DEF DictPlaces, BetweenDicts
  <1>9. 0 \in 0..Len(d) /\ 0 \in Nat /\ j \in Nat
    OBVIOUS
  <1>10. /\ state' = "Dict" /\ consumed' = consumed + 1
         /\ sent' = sent /\ dict' = dict /\ dicts' = dicts
    BY Zenon DEF TickBegin
  <1>11. consumed' = EntryAt(sent.dicts, k, d, 0) /\ dict = First(Parsed(d), 0)
    BY <1>4, <1>8, <1>10, FirstOnes, Zenon
  <1>12. Inside(k, j, d, 0)'
    BY <1>4, <1>6, <1>8, <1>9, <1>10, <1>11, Zenon DEF Inside
  <1> QED
    BY <1>9, <1>10, <1>12, Zenon DEF ReadUpto

(* What the parser is about to read in a dict: an entry or its end. *)
InsideFacts(k, j, d, m, n) ==
  /\ k \in Nat /\ j \in Nat /\ j = k + 1
  /\ d \in Seq(Entry) /\ n \in Nat /\ n = Len(d) /\ m \in 0..n
  /\ data \in Text /\ consumed \in Nat /\ consumed < Len(data)
  /\ m = n => data[consumed + 1] = EndOfDict /\ consumed + 1 = DictAt(sent.dicts, j)
  /\ \A i \in 0..n : i = m + 1 =>
       /\ Fits(d[i]) /\ Holds(data, consumed, WriteEntry(d[i]))
       /\ consumed + Len(WriteEntry(d[i])) = EntryAt(sent.dicts, k, d, i)

(* They are so. *)
LEMMA FactsInside ==
  ASSUME Written, NEW k, NEW j, NEW d, NEW m, Inside(k, j, d, m)
  PROVE  \E n \in Nat : InsideFacts(k, j, d, m, n)
  <1>1. /\ k \in 0..Len(sent.dicts) /\ j \in 0..Len(sent.dicts) /\ j = k + 1 /\ d = sent.dicts[j]
        /\ m \in 0..Len(d) /\ consumed = EntryAt(sent.dicts, k, d, m)
    BY Zenon DEF Inside
  <1>2. PICK e \in Seq(Entry), n \in Nat, f \in Nat, a \in Nat, b \in Nat, c \in Nat,
          o \in [0..Len(sent.dicts[j]) -> Nat] : DictPlaces(k, j, e, n, f, a, b, c, o)
    BY <1>1, PlacesOfDict
  <1>3. e = d /\ n = Len(d) /\ d \in Seq(Entry)
    BY <1>1, <1>2, Zenon DEF DictPlaces, DictFacts
  <1>4. DictPlaces(k, j, d, n, f, a, b, c, o)
    BY <1>2, <1>3
  <1>5. /\ b = EntryAt(sent.dicts, k, d, n) /\ b < Len(data) /\ b = a + 1 + f
        /\ data[(a + 1 + f) + 1] = EndOfDict /\ c = DictAt(sent.dicts, j) /\ c = b + 1
    BY <1>4, Zenon DEF DictPlaces, DictFacts
  <1>6. data \in Text
    BY ReadText, Zenon DEF TextFacts
  <1>7. PICK l \in Nat : l = Len(data)
    BY <1>6 DEF Text
  <1>8. k \in Nat /\ j \in Nat /\ m \in 0..n
    BY <1>1, <1>3
  <1>9. ASSUME NEW i \in 0..n, i = m + 1
        PROVE  /\ consumed \in Nat /\ consumed < Len(data)
               /\ Fits(d[i]) /\ Holds(data, consumed, WriteEntry(d[i]))
               /\ consumed + Len(WriteEntry(d[i])) = EntryAt(sent.dicts, k, d, i)
    <2>0. PICK x \in Nat, y \in Nat, w \in Nat : EntryStep(k, d, m, i, x, y, w)
      BY <1>3, <1>4, <1>8, <1>9, PlacesOfEntry
    <2>1. /\ x = EntryAt(sent.dicts, k, d, m) /\ y = EntryAt(sent.dicts, k, d, i)
          /\ Fits(d[i]) /\ Holds(data, x, WriteEntry(d[i]))
          /\ w = Len(WriteEntry(d[i])) /\ y = x + w
      BY <2>0, Zenon DEF EntryStep
    <2>2. x + w <= l /\ w # 0
      <3>1. x + w <= l
        BY <1>7, <2>1, Zenon DEF Holds
      <3>2. PICK u \in Nat, v \in Nat, z \in Nat : EntryPlaces(x, d[i], u, v, z)
        BY <1>6, <2>1, ReadEntry
      <3>3. v = x + 5 + u /\ z = x + w /\ v + 5 <= z
        BY <2>1, <3>2, Zenon DEF EntryPlaces
      <3> QED
        BY <3>1, <3>3
    <2>3. x < l
      BY <2>2
    <2> QED
      BY <1>1, <1>7, <2>1, <2>3, Zenon
  <1>10. CASE m = n
    <2>1. consumed = b
      BY <1>1, <1>5, <1>10, Zenon
    <2>2. ASSUME NEW i \in 0..n, i = m + 1 PROVE FALSE
      BY <1>10, <2>2
    <2> QED
      BY <1>3, <1>5, <1>6, <1>1, <1>8, <2>1, <2>2, Zenon DEF InsideFacts
  <1>11. CASE m # n
    <2>1. PICK i \in 0..n : i = m + 1
      BY <1>8, <1>11
    <2> QED
      BY <1>1, <1>3, <1>6, <1>8, <1>9, <1>11, <2>1, Zenon DEF InsideFacts
  <1> QED
    BY <1>10, <1>11

(* One more of what F has. *)
LEMMA FirstMore ==
  ASSUME NEW F, NEW k \in Nat, NEW j \in Nat, j = k + 1
  PROVE  Append(First(F, k), F[j]) = First(F, j)
  BY FirstOnes, SMTT(30)

(* The first ones are a prefix, and all of them are all. *)
LEMMA FirstAll ==
  ASSUME NEW F, NEW n \in Nat, F = [i \in 1..n |-> F[i]]
  PROVE  First(F, n) = F /\ \A k \in 0..n : Len(First(F, k)) = k /\ IsPrefix(First(F, k), F)
  BY FirstOnes

(* A dict is parsed entry by entry. *)
LEMMA ParsedFacts ==
  ASSUME NEW d \in Seq(Entry), NEW n \in Nat, n = Len(d)
  PROVE  /\ Parsed(d) = [i \in 1..n |-> Parsed(d)[i]]
         /\ \A i \in 1..n : Parsed(d)[i] = ParsedEntry(d[i])
  <1>1. DOMAIN d = 1..n
    OBVIOUS
  <1>2. Parsed(d) = [i \in 1..n |-> ParsedEntry(d[i])]
    BY <1>1, Zenon DEF Parsed, ParsedEntry
  <1> QED
    BY <1>2, Zenon

(* And a text dict by dict. *)
LEMMA WholeFacts ==
  ASSUME sent \in Printable, NEW n \in Nat, n = Len(sent.dicts)
  PROVE  /\ Whole(sent.dicts) = [j \in 1..n |-> Whole(sent.dicts)[j]]
         /\ \A j \in 1..n : Whole(sent.dicts)[j] = Parsed(sent.dicts[j])
  <1>1. DOMAIN sent.dicts = 1..n
    <2>1. sent.dicts \in Seq(Seq(Entry))
      BY PrintableFits
    <2> QED
      BY <2>1
  <1>2. Whole(sent.dicts) = [j \in 1..n |-> Parsed(sent.dicts[j])]
    BY <1>1, Zenon DEF Whole
  <1> QED
    BY <1>2, Zenon

(* The bytes that say what follows differ. *)
LEMMA Marks == BeginOfDict # EndOfDict /\ AString # EndOfDict /\ AString # BeginOfDict
  BY SMT DEF BeginOfDict, EndOfDict, AString

(* What the parser finds where it stands in a dict. *)
LEMMA AtAnEntry ==
  ASSUME NEW k, NEW j, NEW d, NEW m, NEW n \in Nat, InsideFacts(k, j, d, m, n),
         count \in 0..Len(data)
  PROVE  /\ m # n => data[consumed + 1] = AString
         /\ m = n => data[consumed + 1] = EndOfDict
         /\ \A i \in 0..n : i = m + 1 =>
              /\ Pair.end <= count =>
                   /\ Pair.end = EntryAt(sent.dicts, k, d, i)
                   /\ [key |-> StringAt(consumed + 1),
                       text |-> IF Pair.value = "string" THEN StringAt(ValueAt + 1)
                                                         ELSE Decimal(U32(ValueAt + 1))]
                        = ParsedEntry(d[i])
              /\ ValueAt < count /\ Pair.value = "none" => Foreign(d[i])
              /\ count = Len(data) /\ ~Foreign(d[i]) => Pair.end <= count
  <1>1. ASSUME NEW i \in 0..n, i = m + 1
        PROVE  /\ data[consumed + 1] = AString
               /\ Pair.end <= count =>
                    /\ Pair.end = EntryAt(sent.dicts, k, d, i)
                    /\ [key |-> StringAt(consumed + 1),
                        text |-> IF Pair.value = "string" THEN StringAt(ValueAt + 1)
                                                          ELSE Decimal(U32(ValueAt + 1))]
                         = ParsedEntry(d[i])
               /\ ValueAt < count /\ Pair.value = "none" => Foreign(d[i])
               /\ count = Len(data) /\ ~Foreign(d[i]) => Pair.end <= count
    <2>1. /\ Fits(d[i]) /\ Holds(data, consumed, WriteEntry(d[i]))
          /\ data \in Text /\ consumed \in Nat
          /\ consumed + Len(WriteEntry(d[i])) = EntryAt(sent.dicts, k, d, i)
      BY <1>1, Zenon DEF InsideFacts
    <2>2. PICK e : e = d[i]
      OBVIOUS
    <2>3. Fits(e) /\ Holds(data, consumed, WriteEntry(e))
          /\ consumed + Len(WriteEntry(e)) = EntryAt(sent.dicts, k, d, i)
      BY <2>1, <2>2, Zenon
    <2> QED
      BY <2>1, <2>2, <2>3, ReadPair, Zenon
  <1>2. m \in 0..n /\ (m = n => data[consumed + 1] = EndOfDict)
    BY Zenon DEF InsideFacts
  <1>3. ASSUME m # n PROVE \E i \in 0..n : i = m + 1
    BY <1>2, <1>3
  <1> QED
    BY <1>1, <1>2, <1>3, Zenon

(* TickEnd leaves the dict behind its last entry. *)
LEMMA StepEnd ==
  ASSUME ParserInv, TickEnd, ~lost, ~lost'
  PROVE  ReadUpto'
  <1>1. /\ Written /\ count \in 0..Len(data) /\ state = "Dict" /\ data[consumed + 1] = EndOfDict
        /\ state' = "Idle" /\ consumed' = consumed + 1
        /\ dict' = <<>> /\ dicts' = Append(dicts, dict)
        /\ sent' = sent /\ sent \in Printable
    BY Zenon DEF ParserInv, TickEnd, InDict, Peek, Written
  <1>2. PICK k \in Nat, j \in Nat, m \in Nat, d \in Seq(Entry) : Inside(k, j, d, m)
    BY <1>1, Zenon DEF ParserInv, ReadUpto
  <1>3. PICK n \in Nat : InsideFacts(k, j, d, m, n)
    BY <1>1, <1>2, FactsInside
  <1>4. m = n
    BY <1>1, <1>3, AtAnEntry, Marks, Zenon
  <1>5. /\ d \in Seq(Entry) /\ n = Len(d) /\ consumed + 1 = DictAt(sent.dicts, j) /\ j = k + 1
    BY <1>3, <1>4, Zenon DEF InsideFacts
  <1>6. /\ j \in 0..Len(sent.dicts) /\ d = sent.dicts[j] /\ dict = First(Parsed(d), n)
        /\ dicts = First(Whole(sent.dicts), k)
    BY <1>2, <1>4, Zenon DEF Inside
  <1>7. dict = Parsed(d)
    BY <1>5, <1>6, ParsedFacts, FirstOnes, ZenonT(60)
  <1>8. PICK N \in Nat : N = Len(sent.dicts)
    <2>1. sent.dicts \in Seq(Seq(Entry))
      BY <1>1, PrintableFits
    <2> QED
      BY <2>1
  <1>9. j \in 1..N
    BY <1>5, <1>6, <1>8
  <1>10. Whole(sent.dicts)[j] = dict
    BY <1>1, <1>6, <1>7, <1>8, <1>9, WholeFacts, Zenon
  <1>11. dicts' = First(Whole(sent.dicts), j)
    <2>1. Append(First(Whole(sent.dicts), k), Whole(sent.dicts)[j]) = First(Whole(sent.dicts), j)
      BY <1>5, FirstMore, Zenon
    <2> QED
      BY <1>1, <1>6, <1>10, <2>1, Zenon
  <1>12. BetweenDicts(j)'
    BY <1>1, <1>5, <1>6, <1>11, Zenon DEF BetweenDicts
  <1> QED
    BY <1>1, <1>12, Zenon DEF ReadUpto

(* TickPair takes the next entry. *)
LEMMA StepPair ==
  ASSUME ParserInv, TickPair, ~lost, ~lost'
  PROVE  ReadUpto'
  <1>1. /\ Written /\ count \in 0..Len(data) /\ state = "Dict" /\ data[consumed + 1] = AString
        /\ Pair.end <= count /\ state' = state /\ consumed' = Pair.end /\ Add(Pair.value)
        /\ sent' = sent /\ dicts' = dicts
    BY Zenon DEF ParserInv, TickPair, InDict, Peek
  <1>2. PICK k \in Nat, j \in Nat, m \in Nat, d \in Seq(Entry) : Inside(k, j, d, m)
    BY <1>1, Zenon DEF ParserInv, ReadUpto
  <1>3. PICK n \in Nat : InsideFacts(k, j, d, m, n)
    BY <1>1, <1>2, FactsInside
  <1>4. m # n
    BY <1>1, <1>3, AtAnEntry, Marks, Zenon
  <1>5. d \in Seq(Entry) /\ n = Len(d) /\ m \in 0..n
    BY <1>3, Zenon DEF InsideFacts
  <1>6. PICK i \in 0..n : i = m + 1 /\ i \in 1..n
    BY <1>4, <1>5
  <1>7. /\ Pair.end = EntryAt(sent.dicts, k, d, i)
        /\ [key |-> StringAt(consumed + 1),
            text |-> IF Pair.value = "string" THEN StringAt(ValueAt + 1)
                                              ELSE Decimal(U32(ValueAt + 1))] = ParsedEntry(d[i])
    BY <1>1, <1>3, <1>6, AtAnEntry, ZenonT(60)
  <1>8. dict' = Append(dict, ParsedEntry(d[i]))
    BY <1>1, <1>7, Zenon DEF Add
  <1>9. Parsed(d)[i] = ParsedEntry(d[i])
    BY <1>5, <1>6, ParsedFacts, Zenon
  <1>10. /\ k \in 0..Len(sent.dicts) /\ j \in 0..Len(sent.dicts) /\ j = k + 1 /\ d = sent.dicts[j]
         /\ dict = First(Parsed(d), m) /\ dicts = First(Whole(sent.dicts), k)
    BY <1>2, Zenon DEF Inside
  <1>11. i \in Nat
    BY <1>6
  <1>12. dict' = First(Parsed(d), i)
    <2>1. Append(First(Parsed(d), m), Parsed(d)[i]) = First(Parsed(d), i)
      BY <1>6, <1>11, FirstMore, Zenon
    <2> QED
      BY <1>8, <1>9, <1>10, <2>1, Zenon
  <1>13. Inside(k, j, d, i)'
    BY <1>1, <1>5, <1>6, <1>7, <1>10, <1>12, Zenon DEF Inside
  <1> QED
    BY <1>1, <1>11, <1>13, Zenon DEF ReadUpto

(* TickError fails at the rest or at a foreign entry. *)
LEMMA StepError ==
  ASSUME ParserInv, TickError, ~lost
  PROVE  ReadUpto'
  <1>1. /\ Written /\ count \in 0..Len(data) /\ consumed < count /\ state' = "Error"
        /\ sent' = sent /\ dicts' = dicts /\ dict' = dict /\ consumed' = consumed
    BY Zenon DEF ParserInv, TickError
  <1>2. CASE state = "Idle"
    <2>1. data[consumed + 1] # BeginOfDict
      BY <1>1, <1>2, Zenon DEF TickError, Peek, InDict
    <2>2. PICK k \in Nat : BetweenDicts(k)
      BY <1>2, Zenon DEF ParserInv, ReadUpto
    <2>3. PICK N \in Nat, z \in Nat, o \in [0..Len(sent.dicts) -> Nat] : TextFacts(N, z, o)
      BY <1>1, ReadText
    <2>4. /\ k \in 0..N /\ N = Len(sent.dicts) /\ consumed = o[k] /\ o[N] = z /\ data \in Text
      BY <2>2, <2>3, Zenon DEF BetweenDicts, DictAt, TextFacts
    <2>5. CASE k = N
      <3>1. z < Len(data)
        <4>1. PICK l \in Nat : l = Len(data)
          BY <2>4 DEF Text
        <4>2. consumed = z
          BY <2>4, <2>5, Zenon
        <4> QED
          BY <1>1, <4>1, <4>2
      <3>2. sent.rest # <<>>
        BY <2>3, <3>1, Zenon DEF TextFacts
      <3>3. BetweenDicts(Len(sent.dicts))
        BY <2>2, <2>4, <2>5, Zenon
      <3>4. BetweenDicts(Len(sent.dicts))'
        BY <1>1, <3>3, Zenon DEF BetweenDicts
      <3> QED
        BY <1>1, <3>2, <3>4, Zenon DEF ReadUpto
    <2>6. CASE k # N
      <3>1. PICK j \in 0..N : j = k + 1
        BY <2>4, <2>6
      <3>2. PICK d \in Seq(Entry), p \in Nat, f \in Nat, a \in Nat, b \in Nat, c \in Nat,
              e \in [0..Len(sent.dicts[j]) -> Nat] : DictPlaces(k, j, d, p, f, a, b, c, e)
        BY <1>1, <2>4, <3>1, PlacesOfDict
      <3>3. consumed = a /\ data[a + 1] = BeginOfDict
        BY <2>2, <3>2, Zenon DEF DictPlaces, DictFacts, BetweenDicts
      <3> QED
        BY <2>1, <3>3, Zenon
    <2> QED
      BY <2>5, <2>6
  <1>3. CASE state = "Dict"
    <2>1. PICK k \in Nat, j \in Nat, m \in Nat, d \in Seq(Entry) : Inside(k, j, d, m)
      BY <1>3, Zenon DEF ParserInv, ReadUpto
    <2>2. PICK n \in Nat : InsideFacts(k, j, d, m, n)
      BY <1>1, <2>1, FactsInside
    <2>3. data[consumed + 1] = AString \/ data[consumed + 1] = EndOfDict
      BY <1>1, <2>2, AtAnEntry, Zenon
    <2>4. data[consumed + 1] = AString /\ ValueAt < count /\ Pair.value = "none"
      BY <1>1, <1>3, <2>3, Zenon DEF TickError, Peek, InDict
    <2>5. m # n
      BY <1>1, <2>2, <2>4, AtAnEntry, Marks, Zenon
    <2>6. m \in 0..n /\ n = Len(d)
      BY <2>2, Zenon DEF InsideFacts
    <2>7. PICK i \in 0..n : i = m + 1 /\ i \in Nat
      BY <2>5, <2>6
    <2>8. Foreign(d[i])
      BY <1>1, <2>2, <2>4, <2>7, AtAnEntry, Zenon
    <2>9. Inside(k, j, d, m)'
      BY <1>1, <2>1, Zenon DEF Inside
    <2> QED
      BY <1>1, <2>6, <2>7, <2>8, <2>9, Zenon DEF ReadUpto
  <1> QED
    BY <1>2, <1>3, Zenon DEF TickError, InDict

(* Every step of the parser keeps its invariant. *)
LEMMA ParserStep == ParserInv /\ [ParserNext]_parserVars => ParserInv'
  <1> SUFFICES ASSUME ParserInv, [ParserNext]_parserVars PROVE ParserInv'
    OBVIOUS
  <1>1. Written' /\ sent' = sent /\ data' = data
    BY Zenon DEF ParserInv, Written, ParserNext, Progress, parserVars, Arrive, TickBegin, TickEnd,
                 TickPair, TickPart, TickError
  <1>2. count' \in 0..Len(data)
    <2>1. CASE Arrive
      <3>1. PICK l \in Nat : l = Len(data)
        <4>1. data \in Text
          BY ReadText, Zenon DEF ParserInv, TextFacts
        <4> QED
          BY <4>1 DEF Text
      <3>2. count \in 0..l /\ count' \in (count + 1)..l
        BY <2>1, <3>1, Zenon DEF ParserInv, Arrive
      <3> QED
        BY <3>1, <3>2
    <2>2. CASE ~Arrive
      <3>1. count' = count
        BY <2>2, Zenon DEF ParserNext, Progress, parserVars, TickBegin, TickEnd, TickPair, TickPart,
                           TickError
      <3> QED
        BY <3>1, Zenon DEF ParserInv
    <2> QED
      BY <2>1, <2>2
  <1>3. ASSUME ~lost' PROVE ReadUpto'
    <2>1. ~lost
      BY <1>3, Zenon DEF ParserNext, Progress, parserVars, Arrive, TickBegin, TickEnd, TickPair,
                         TickPart, TickError
    <2>2. CASE Arrive \/ TickPart \/ UNCHANGED parserVars
      <3>1. /\ state' = state /\ consumed' = consumed /\ dict' = dict /\ dicts' = dicts
        BY <2>2, Zenon DEF Arrive, TickPart, parserVars
      <3>2. ReadUpto
        BY <2>1, Zenon DEF ParserInv
      <3>3. ASSUME NEW k PROVE BetweenDicts(k) => BetweenDicts(k)'
        BY <1>1, <3>1, Zenon DEF BetweenDicts
      <3>4. ASSUME NEW k, NEW j, NEW d, NEW m PROVE Inside(k, j, d, m) => Inside(k, j, d, m)'
        BY <1>1, <3>1, Zenon DEF Inside
      <3>5. CASE state = "Idle" /\ \E k \in Nat : BetweenDicts(k)
        BY <3>1, <3>3, <3>5, Zenon DEF ReadUpto
      <3>6. CASE state = "Dict" /\ \E k, j, m \in Nat, d \in Seq(Entry) : Inside(k, j, d, m)
        <4>1. PICK k \in Nat, j \in Nat, m \in Nat, d \in Seq(Entry) : Inside(k, j, d, m)
          BY <3>6
        <4>2. state' = "Dict" /\ Inside(k, j, d, m)'
          BY <3>1, <3>4, <3>6, <4>1, Zenon
        <4> QED
          BY <4>2, Zenon DEF ReadUpto
      <3>7. CASE state = "Error" /\ sent.rest # <<>> /\ BetweenDicts(Len(sent.dicts))
        BY <1>1, <3>1, <3>3, <3>7, Zenon DEF ReadUpto
      <3>8. CASE state = "Error" /\ \E k, j, m, i \in Nat, d \in Seq(Entry) :
                   Inside(k, j, d, m) /\ i = m + 1 /\ i \in 0..Len(d) /\ Foreign(d[i])
        <4>1. PICK k \in Nat, j \in Nat, m \in Nat, i \in Nat, d \in Seq(Entry) :
                Inside(k, j, d, m) /\ i = m + 1 /\ i \in 0..Len(d) /\ Foreign(d[i])
          BY <3>8
        <4>2. state' = "Error" /\ Inside(k, j, d, m)'
          BY <3>1, <3>4, <3>8, <4>1, Zenon
        <4> QED
          BY <4>1, <4>2, Zenon DEF ReadUpto
      <3> QED
        BY <3>2, <3>5, <3>6, <3>7, <3>8, Zenon DEF ReadUpto
    <2>3. CASE TickBegin
      BY <2>1, <2>3, StepBegin
    <2>4. CASE TickEnd
      BY <1>3, <2>1, <2>4, StepEnd
    <2>5. CASE TickPair
      BY <1>3, <2>1, <2>5, StepPair
    <2>6. CASE TickError
      BY <2>1, <2>6, StepError
    <2> QED
      BY <2>2, <2>3, <2>4, <2>5, <2>6, Zenon DEF ParserNext, Progress
  <1> QED
    BY <1>1, <1>2, <1>3, Zenon DEF ParserInv

(* The invariant says that it reads what was written. *)
LEMMA ReadsAtAll ==
  ASSUME ParserInv
  PROVE  ReadsWhatWasWritten
  <1> DEFINE whole == Whole(sent.dicts)
  <1> DEFINE ReadsGoal ==
        /\ IsPrefix(dicts, whole)
        /\ state = "Dict" => IsPrefix(dict, whole[Len(dicts) + 1])
        /\ Clean => state # "Error"
        /\ Clean /\ count = Len(data) /\ ~Ready => state = "Idle" /\ dicts = whole
        /\ state = "Error" =>
             \/ dicts = whole /\ sent.rest # <<>>
             \/ Foreign(sent.dicts[Len(dicts) + 1][Len(dict) + 1])
  <1> SUFFICES ASSUME ~lost PROVE ReadsGoal
    BY Zenon DEF ReadsWhatWasWritten, Whole
  <1> HIDE DEF whole
  <1>1. Written /\ count \in 0..Len(data) /\ ReadUpto /\ sent \in Printable
    BY Zenon DEF ParserInv, Written
  <1>2. PICK n \in Nat : n = Len(sent.dicts)
    <2>1. sent.dicts \in Seq(Seq(Entry))
      BY <1>1, PrintableFits
    <2> QED
      BY <2>1
  <1>3. /\ whole = [j \in 1..n |-> whole[j]]
        /\ \A j \in 1..n : whole[j] = Parsed(sent.dicts[j])
    BY <1>1, <1>2, WholeFacts, Zenon DEF whole
  <1>4. /\ First(whole, n) = whole
        /\ \A k \in 0..n : Len(First(whole, k)) = k /\ IsPrefix(First(whole, k), whole)
    BY <1>3, FirstOnes, Zenon
  <1>5. ASSUME NEW k \in Nat, BetweenDicts(k),
               \/ state = "Idle"
               \/ state = "Error" /\ k = n /\ sent.rest # <<>>
        PROVE  ReadsGoal
    <2>1. /\ k \in 0..n /\ dicts = First(whole, k) /\ consumed = DictAt(sent.dicts, k)
      BY <1>2, <1>5, Zenon DEF BetweenDicts, whole
    <2>2. IsPrefix(dicts, whole) /\ (k = n => dicts = whole)
      BY <1>4, <2>1, Zenon
    <2>3. CASE state = "Error"
      BY <1>5, <2>2, <2>3, Zenon DEF Clean
    <2>4. CASE state = "Idle"
      <3>1. ASSUME count = Len(data), k # n PROVE Ready
        <4>1. PICK j \in 0..n : j = k + 1
          BY <2>1, <3>1
        <4>2. PICK d \in Seq(Entry), p \in Nat, f \in Nat, a \in Nat, b \in Nat, c \in Nat,
                e \in [0..Len(sent.dicts[j]) -> Nat] : DictPlaces(k, j, d, p, f, a, b, c, e)
          BY <1>1, <1>2, <2>1, <4>1, PlacesOfDict
        <4>3. consumed = a /\ data[a + 1] = BeginOfDict /\ b = a + 1 + f /\ b < Len(data)
          BY <2>1, <4>2, Zenon DEF DictPlaces, DictFacts
        <4>4. a < Len(data)
          <5>1. PICK l \in Nat : l = Len(data)
            <6>1. data \in Text
              BY <1>1, ReadText, Zenon DEF TextFacts
            <6> QED
              BY <6>1 DEF Text
          <5> QED
            BY <4>3, <5>1
        <4> QED
          BY <2>4, <3>1, <4>3, <4>4, Zenon DEF Ready, Peek
      <3> QED
        BY <2>2, <2>4, <3>1, Zenon
    <2> QED
      BY <1>5, <2>3, <2>4
  <1>6. ASSUME NEW k \in Nat, NEW j \in Nat, NEW m \in Nat, NEW d \in Seq(Entry),
               Inside(k, j, d, m),
               \/ state = "Dict"
               \/ state = "Error" /\ \E i \in Nat : i = m + 1 /\ i \in 0..Len(d) /\ Foreign(d[i])
        PROVE  ReadsGoal
    <2>1. /\ k \in 0..n /\ j \in 0..n /\ j = k + 1 /\ d = sent.dicts[j]
          /\ dict = First(Parsed(d), m) /\ dicts = First(whole, k)
      BY <1>2, <1>6, Zenon DEF Inside, whole
    <2>2. PICK p \in Nat : InsideFacts(k, j, d, m, p)
      BY <1>1, <1>6, FactsInside
    <2>3. d \in Seq(Entry) /\ p = Len(d) /\ m \in 0..p
      BY <2>2, Zenon DEF InsideFacts
    <2>4. Len(dict) = m /\ IsPrefix(dict, Parsed(d))
      <3>1. PICK F : F = Parsed(d)
        OBVIOUS
      <3>2. F = [i \in 1..p |-> F[i]]
        BY <2>3, <3>1, ParsedFacts, Zenon
      <3>3. Len(First(F, m)) = m /\ IsPrefix(First(F, m), F)
        BY <2>3, <3>2, FirstAll, Zenon
      <3> QED
        BY <2>1, <3>1, <3>3, Zenon
    <2>5. Len(dicts) = k /\ IsPrefix(dicts, whole)
      BY <1>4, <2>1, Zenon
    <2>6. j \in 1..n
      BY <2>1
    <2>7. IsPrefix(dict, whole[Len(dicts) + 1])
      BY <1>3, <2>1, <2>4, <2>5, <2>6, Zenon
    <2>8. ASSUME Clean, NEW i \in 1..p PROVE ~Foreign(d[i])
      <3>1. d \in ToSet(sent.dicts)
        <4>1. sent.dicts \in Seq(Seq(Entry))
          BY <1>1, PrintableFits
        <4>2. DOMAIN sent.dicts = 1..n
          BY <1>2, <4>1
        <4> QED
          BY <2>1, <2>6, <4>2, Zenon DEF ToSet
      <3>2. d[i] \in ToSet(d)
        <4>1. DOMAIN d = 1..p
          BY <2>3
        <4> QED
          BY <2>8, <4>1, Zenon DEF ToSet
      <3> QED
        BY <2>8, <3>1, <3>2, Zenon DEF Clean
    <2>9. ASSUME NEW i \in 0..p, i = m + 1 PROVE i \in 1..p
      BY <2>3, <2>9
    <2>10. CASE state = "Error"
      <3>1. PICK i \in Nat : i = m + 1 /\ i \in 0..p /\ Foreign(d[i])
        BY <1>6, <2>3, <2>10, Zenon
      <3>2. ~Clean
        BY <2>8, <2>9, <3>1, Zenon
      <3>3. Foreign(sent.dicts[Len(dicts) + 1][Len(dict) + 1])
        BY <2>1, <2>4, <2>5, <3>1, Zenon
      <3> QED
        BY <2>5, <2>10, <3>2, <3>3, Zenon
    <2>11. CASE state = "Dict"
      <3>1. ASSUME Clean, count = Len(data) PROVE Ready
        <4>1. consumed < count
          BY <2>2, <3>1, Zenon DEF InsideFacts
        <4>2. CASE m = p
          <5>1. data[consumed + 1] = EndOfDict
            BY <1>1, <2>2, <4>2, AtAnEntry, Zenon
          <5> QED
            BY <2>11, <4>1, <5>1, Zenon DEF Ready, InDict, Peek
        <4>3. CASE m # p
          <5>1. PICK i \in 0..p : i = m + 1 /\ i \in 1..p
            BY <2>3, <4>3
          <5>2. ~Foreign(d[i])
            BY <2>8, <3>1, <5>1
          <5>3. data[consumed + 1] = AString /\ Pair.end <= count
            <6>1. data[consumed + 1] = AString
              BY <1>1, <2>2, <4>3, AtAnEntry, Zenon
            <6>2. count = Len(data) /\ ~Foreign(d[i]) => Pair.end <= count
              <7>1. i \in 0..p /\ i = m + 1 /\ count \in 0..Len(data)
                BY <1>1, <5>1
              <7> QED
                BY <2>2, <7>1, AtAnEntry, Zenon
            <6> QED
              BY <3>1, <5>2, <6>1, <6>2, Zenon
          <5> QED
            BY <2>11, <4>1, <5>3, Zenon DEF Ready, InDict, Peek
        <4> QED
          BY <4>2, <4>3
      <3> QED
        BY <2>5, <2>7, <2>11, <3>1, Zenon
    <2> QED
      BY <1>6, <2>10, <2>11
  <1> HIDE DEF ReadsGoal
  <1>7. CASE state = "Idle"
    <2>1. PICK k \in Nat : BetweenDicts(k)
      BY <1>1, <1>7, Zenon DEF ReadUpto
    <2> QED
      BY <1>5, <1>7, <2>1, Zenon
  <1>8. CASE state = "Dict"
    <2>1. PICK k \in Nat, j \in Nat, m \in Nat, d \in Seq(Entry) : Inside(k, j, d, m)
      BY <1>1, <1>8, Zenon DEF ReadUpto
    <2> QED
      BY <1>6, <1>8, <2>1
  <1>9. CASE state = "Error" /\ sent.rest # <<>> /\ BetweenDicts(Len(sent.dicts))
    BY <1>2, <1>5, <1>9, Zenon
  <1>10. CASE state = "Error" /\ \E k, j, m, i \in Nat, d \in Seq(Entry) :
                 Inside(k, j, d, m) /\ i = m + 1 /\ i \in 0..Len(d) /\ Foreign(d[i])
    BY <1>6, <1>10, Zenon
  <1> QED
    BY <1>1, <1>7, <1>8, <1>9, <1>10, Zenon DEF ReadUpto

----------------------------------------------------------------------------
(* Random numbers of a range. *)

(* Division by a number: what it is, and that it is unique. *)
LEMMA Division ==
  ASSUME NEW a \in Int, NEW b \in Nat \ {0}
  PROVE  a \div b \in Int /\ a % b \in 0..(b - 1) /\ a = b * (a \div b) + (a % b)
  OBVIOUS

(* A greater factor is greater by at least one time the other. *)
LEMMA Times ==
  ASSUME NEW b \in Nat \ {0}, NEW p \in Int, NEW q \in Int, p < q
  PROVE  b * p + b <= b * q
  <1>1. PICK d \in Nat : q = p + 1 + d
    <2>1. q - p - 1 \in Nat /\ q = p + 1 + (q - p - 1)
      OBVIOUS
    <2> QED
      BY <2>1
  <1>2. b * q = b * p + b + b * d
    BY <1>1
  <1>3. b * d \in Nat
    OBVIOUS
  <1>4. b * p \in Int
    OBVIOUS
  <1> QED
    BY <1>2, <1>3, <1>4

(* There is only one quotient and one remainder. *)
LEMMA UniqueQuotient ==
  ASSUME NEW b \in Nat \ {0}, NEW p \in Int, NEW q \in Int,
         NEW x \in 0..(b - 1), NEW y \in 0..(b - 1), b * p + x = b * q + y
  PROVE  p = q /\ x = y
  <1>1. PICK m \in Int, n \in Int : m = b * p /\ n = b * q
    OBVIOUS
  <1>2. ~(p < q)
    <2> SUFFICES ASSUME p < q PROVE FALSE
      OBVIOUS
    <2>1. m + b <= n
      BY <1>1, Times
    <2> QED
      BY <1>1, <2>1
  <1>3. ~(q < p)
    <2> SUFFICES ASSUME q < p PROVE FALSE
      OBVIOUS
    <2>1. n + b <= m
      BY <1>1, Times
    <2> QED
      BY <1>1, <2>1
  <1>4. p = q
    BY <1>2, <1>3
  <1> QED
    BY <1>4, <1>1

(* Whatever looks like a quotient and a remainder is that. *)
LEMMA Remainder ==
  ASSUME NEW b \in Nat \ {0}, NEW p \in Int, NEW x \in 0..(b - 1), NEW a \in Int, a = b * p + x
  PROVE  a % b = x /\ a \div b = p
  <1>1. PICK q \in Int, y \in 0..(b - 1) : q = a \div b /\ y = a % b /\ a = b * q + y
    BY Division
  <1> QED
    BY <1>1, UniqueQuotient

(* The words that are drawn again are what the ranges do not fill. *)
LEMMA Thresholds ==
  ASSUME NEW r \in Nat, r # 0, r < Words
  PROVE  /\ ToU32(r) = r
         /\ \E t \in Nat, q \in Nat : t = Threshold(r) /\ q # 0 /\ t < r /\ Words = r * q + t
  <1>1. PICK w \in Nat : w = Words /\ w # 0 /\ r < w
    BY HalfAssumption DEF Words
  <1>2. ToU32(r) = r
    BY <1>1 DEF ToU32
  <1>3. ToU32(-ToS32(r)) = w - r
    <2>1. CASE ToS32(r) = r
      <3>1. (-r) % w = w - r
        <4>1. -r = w * (-1) + (w - r) /\ w - r \in 0..(w - 1) /\ -r \in Int
          BY <1>1
        <4> QED
          BY <1>1, <4>1, Remainder
      <3> QED
        BY <1>1, <2>1, <3>1 DEF ToU32
    <2>2. CASE ToS32(r) = r - w
      <3>1. -ToS32(r) = w - r
        BY <1>1, <2>2
      <3>2. (w - r) % w = w - r
        BY <1>1
      <3> QED
        BY <1>1, <3>1, <3>2 DEF ToU32
    <2> QED
      BY <1>1, <1>2, <2>1, <2>2 DEF ToS32
  <1>4. PICK p \in Int, t \in 0..(r - 1) : t = (w - r) % r /\ w - r = r * p + t
    <2>1. w - r \in Int /\ r \in Nat \ {0}
      BY <1>1
    <2> QED
      BY <2>1, Division
  <1>5. t = Threshold(r)
    BY <1>3, <1>4 DEF Threshold
  <1>6. p \in Nat
    <2> SUFFICES ASSUME p < 0 PROVE FALSE
      OBVIOUS
    <2>1. r * p + r <= r * 0
      BY Times
    <2>2. PICK m \in Int : m = r * p
      OBVIOUS
    <2>3. r * 0 = 0
      OBVIOUS
    <2> QED
      BY <1>1, <1>4, <2>1, <2>2, <2>3
  <1>7. w = r * (p + 1) + t
    BY <1>1, <1>4
  <1>8. p + 1 \in Nat /\ p + 1 # 0 /\ t \in Nat /\ t < r
    BY <1>6
  <1> QED
    BY <1>1, <1>2, <1>5, <1>7, <1>8

(* The words behind the threshold that have the remainder x. *)
Sharing(t, w, r, x) == {n \in t..(w - 1) : n % r = x}

(* Every remainder is that of equally many words behind the threshold. *)
LEMMA Shares ==
  ASSUME NEW r \in Nat \ {0}, NEW q \in Nat \ {0}, NEW t \in 0..(r - 1), NEW w \in Nat,
         w = r * q + t,
         NEW x \in 0..(r - 1)
  PROVE  Cardinality(Sharing(t, w, r, x)) = q /\ Sharing(t, w, r, x) # {}
  <1> DEFINE S == {n \in t..(w - 1) : n % r = x}
  <1>1. PICK e \in {0, 1} : e = IF x >= t THEN 0 ELSE 1
    OBVIOUS
  <1> DEFINE f == [j \in 1..q |-> r * (j - 1 + e) + x]
  <1>2. ASSUME NEW j \in 1..q PROVE f[j] \in S /\ f[j] = r * (j - 1 + e) + x
    <2>1. PICK p \in Nat, m \in Nat, k \in Nat :
            p = j - 1 + e /\ m = r * p /\ k = r * q
      <3>1. j - 1 + e \in Nat /\ q \in Nat /\ r \in Nat
        BY <1>1
      <3>2. r * (j - 1 + e) \in Nat /\ r * q \in Nat
        BY <3>1
      <3> QED
        BY <3>1, <3>2
    <2>2. p < q \/ (p = q /\ e = 1)
      BY <1>1, <2>1
    <2>3. m + r <= k \/ (m = k /\ e = 1)
      BY <2>1, <2>2, Times
    <2>4. e = 1 => m >= r
      <3> SUFFICES ASSUME e = 1 PROVE m >= r
        OBVIOUS
      <3>1. 0 < p /\ 0 \in Int /\ p \in Int
        BY <2>1
      <3>2. r * 0 + r <= r * p
        BY <3>1, Times
      <3>3. r * 0 = 0
        OBVIOUS
      <3> QED
        BY <2>1, <3>2, <3>3
    <2>5. m + x \in t..(w - 1)
      BY <1>1, <2>1, <2>3, <2>4
    <2>6. (m + x) % r = x
      BY <2>1, Remainder
    <2> QED
      BY <2>1, <2>5, <2>6
  <1>3. ASSUME NEW n \in S PROVE \E j \in 1..q : f[j] = n
    <2>1. n \in t..(w - 1) /\ n % r = x
      OBVIOUS
    <2>2. PICK p \in Int, k \in Nat, m \in Int : n = m + x /\ m = r * p /\ k = r * q
      <3>1. n \in Int
        BY <2>1
      <3>2. n = r * (n \div r) + x /\ n \div r \in Int
        BY <2>1, <3>1, Division
      <3>3. r * (n \div r) \in Int /\ r * q \in Nat
        BY <3>2
      <3> QED
        BY <3>2, <3>3
    <2>3. ~(p < e)
      <3> SUFFICES ASSUME p < e PROVE FALSE
        OBVIOUS
      <3>1. r * p + r <= r * e
        BY Times
      <3>2. r * e = IF e = 1 THEN r ELSE 0
        BY <1>1
      <3> QED
        BY <1>1, <2>1, <2>2, <3>1, <3>2
    <2>4. p < q + e
      <3> SUFFICES ASSUME ~(p < q + e) PROVE FALSE
        OBVIOUS
      <3>1. p >= q + e
        BY <1>1
      <3>2. r * (q + e) <= m
        <4>1. CASE p = q + e
          BY <2>2, <4>1
        <4>2. CASE q + e < p
          <5>1. r * (q + e) + r <= r * p
            BY <1>1, <4>2, Times
          <5>2. r * (q + e) \in Int
            BY <1>1
          <5> QED
            BY <2>2, <5>1, <5>2
        <4> QED
          BY <3>1, <4>1, <4>2
      <3>3. r * (q + e) = IF e = 1 THEN k + r ELSE k
        BY <1>1, <2>2
      <3> QED
        BY <1>1, <2>1, <2>2, <3>2, <3>3
    <2>5. PICK j \in 1..q : j = p - e + 1
      <3>1. p - e + 1 \in 1..q
        BY <1>1, <2>3, <2>4
      <3> QED
        BY <3>1
    <2>6. f[j] = n
      BY <1>1, <1>2, <2>2, <2>5
    <2> QED
      BY <2>6
  <1>4. ASSUME NEW i \in 1..q, NEW j \in 1..q, f[i] = f[j] PROVE i = j
    <2>1. PICK a \in Int, b \in Int : a = i - 1 + e /\ b = j - 1 + e
      BY <1>1
    <2>2. r * a + x = r * b + x
      BY <1>2, <1>4, <2>1
    <2>3. a = b
      BY <2>2, UniqueQuotient
    <2> QED
      BY <1>1, <2>1, <2>3
  <1>5. f \in Bijection(1..q, S)
    <2>1. f \in [1..q -> S]
      BY <1>2
    <2> HIDE DEF f, S
    <2> QED
      BY <1>3, <1>4, <2>1, Zenon DEF Bijection, Injection, Surjection, IsInjective
  <1> HIDE DEF f, S
  <1>6. ExistsBijection(1..q, S)
    BY <1>5, Zenon DEF ExistsBijection
  <1>7. IsFiniteSet(1..q) /\ Cardinality(1..q) = q
    BY FS_Interval
  <1>8. Cardinality(S) = q
    BY <1>6, <1>7, FS_Bijection
  <1>9. S # {}
    <2>1. 1 \in 1..q
      OBVIOUS
    <2> QED
      BY <1>2, <2>1
  <1> QED
    BY <1>8, <1>9, Zenon DEF S, Sharing

(* The words that give each number of a range. *)
IsFair(f, a, b) ==
  /\ {f[r] : r \in U32s} \ {Again} = a..(b - 1)
  /\ \A n, m \in a..(b - 1) :
       Cardinality({r \in U32s : f[r] = n}) = Cardinality({r \in U32s : f[r] = m})
  /\ 2 * Cardinality({r \in U32s : f[r] = Again}) < Words

(* What random_get_u32_range does is fair, for any two bounds. *)
LEMMA FairRange ==
  ASSUME NEW a \in Int, NEW b \in Int, NEW k \in Nat, k # 0, b = a + k, k < Words, b <= Words,
         NEW f, \A r \in U32s : f[r] = IF r >= Threshold(k) THEN a + (r % k) ELSE Again
  PROVE  IsFair(f, a, b)
  <1>1. PICK t \in Nat, q \in Nat : t = Threshold(k) /\ q # 0 /\ t < k /\ Words = k * q + t
    BY Thresholds
  <1>2. PICK w \in Nat : w = Words /\ w = k * q + t /\ k < w
    <2>1. Words \in Nat
      BY HalfAssumption DEF Words
    <2> QED
      BY <1>1, <2>1
  <1>3. \A r \in 0..(w - 1) : f[r] = IF r >= t THEN a + (r % k) ELSE w
    BY <1>1, <1>2 DEF U32s, Again
  <1>4. ASSUME NEW n \in a..(b - 1)
        PROVE  Cardinality({r \in U32s : f[r] = n}) = q /\ {r \in U32s : f[r] = n} # {}
    <2>1. PICK x \in 0..(k - 1) : n = a + x
      <3>1. n - a \in 0..(k - 1) /\ n = a + (n - a)
        OBVIOUS
      <3> QED
        BY <3>1
    <2>2. n # w
      BY <1>2
    <2>3. ASSUME NEW r \in 0..(w - 1) PROVE f[r] = n <=> r >= t /\ r % k = x
      <3>1. r % k \in Int
        OBVIOUS
      <3>2. PICK y \in Int : y = r % k
        BY <3>1
      <3>3. f[r] = IF r >= t THEN a + y ELSE w
        BY <1>3, <3>2
      <3> QED
        BY <2>1, <2>2, <3>2, <3>3
    <2>4. {r \in U32s : f[r] = n} = {r \in t..(w - 1) : r % k = x}
      <3>1. U32s = 0..(w - 1)
        BY <1>2 DEF U32s
      <3>2. \A r : r \in 0..(w - 1) /\ r >= t <=> r \in t..(w - 1)
        BY <1>1
      <3> QED
        BY <2>3, <3>1, <3>2, Zenon
    <2>5. k \in Nat \ {0} /\ q \in Nat \ {0} /\ t \in 0..(k - 1)
      BY <1>1
    <2> QED
      <3>1. Cardinality(Sharing(t, w, k, x)) = q /\ Sharing(t, w, k, x) # {}
        BY <1>2, <2>5, Shares
      <3> QED
        BY <2>4, <3>1, Zenon DEF Sharing
  <1>5. {r \in U32s : f[r] = Again} = 0..(t - 1)
    <2>1. ASSUME NEW r \in 0..(w - 1) PROVE f[r] = w <=> r < t
      <3>1. PICK y \in 0..(k - 1) : y = r % k
        OBVIOUS
      <3>2. f[r] = IF r >= t THEN a + y ELSE w
        BY <1>3, <3>1
      <3> QED
        BY <1>2, <3>2
    <2>2. U32s = 0..(w - 1) /\ Again = w
      BY <1>2 DEF U32s, Again
    <2>3. \A r : r \in 0..(w - 1) /\ r < t <=> r \in 0..(t - 1)
      <3>1. t < w
        BY <1>1, <1>2
      <3> QED
        BY <3>1
    <2> QED
      BY <2>1, <2>2, <2>3, Zenon
  <1>6. Cardinality(0..(t - 1)) = t
    BY FS_Interval
  <1>7. 2 * t < w
    <2>1. PICK m \in Nat : m = k * q
      OBVIOUS
    <2>2. k * 0 + k <= k * q
      BY <1>1, Times
    <2>3. k * 0 = 0
      OBVIOUS
    <2> QED
      BY <1>1, <1>2, <2>1, <2>2, <2>3
  <1>8. {f[r] : r \in U32s} \ {Again} = a..(b - 1)
    <2>1. ASSUME NEW r \in U32s PROVE f[r] = Again \/ f[r] \in a..(b - 1)
      <3>1. PICK y \in 0..(k - 1) : y = r % k
        <4>1. r \in Int
          BY <1>2 DEF U32s
        <4> QED
          BY <4>1
      <3>2. f[r] = IF r >= t THEN a + y ELSE Again
        BY <1>1, <3>1
      <3>3. a + y \in a..(b - 1)
        OBVIOUS
      <3> QED
        BY <3>2, <3>3, Zenon
    <2>2. ASSUME NEW n \in a..(b - 1) PROVE n # Again /\ \E r \in U32s : f[r] = n
      <3>1. n # Again
        BY <1>2 DEF Again
      <3>2. {r \in U32s : f[r] = n} # {}
        BY <1>4, Zenon
      <3> QED
        BY <3>1, <3>2, Zenon
    <2> QED
      BY <2>1, <2>2, Zenon
  <1> QED
    BY <1>2, <1>4, <1>5, <1>6, <1>7, <1>8 DEF IsFair

(* So it is, for unsigned numbers. *)
LEMMA FairU32 ==
  ASSUME NEW p \in Below(U32s)
  PROVE  IsFair([r \in U32s |-> GetU32Range(r, p[1], p[2])], p[1], p[2])
  <1>1. PICK w \in Nat : w = Words /\ w # 0
    BY HalfAssumption DEF Words
  <1>2. PICK a \in 0..(w - 1), b \in 0..(w - 1), k \in Nat :
          a = p[1] /\ b = p[2] /\ b = a + k /\ k # 0 /\ k < w
    <2>1. PICK a \in 0..(w - 1), b \in 0..(w - 1) : a = p[1] /\ b = p[2] /\ a < b
      BY <1>1 DEF Below, U32s
    <2>2. b - a \in Nat /\ b = a + (b - a) /\ b - a # 0 /\ b - a < w
      BY <2>1
    <2> QED
      BY <2>1, <2>2
  <1> DEFINE f == [r \in U32s |-> GetU32Range(r, a, b)]
  <1>3. ASSUME NEW r \in U32s
        PROVE  f[r] = IF r >= Threshold(k) THEN a + (r % k) ELSE Again
    <2>1. ToU32(b - a) = k
      <3>1. b - a = k
        BY <1>2
      <3>2. ToU32(k) = k
        BY <1>1, <1>2, Thresholds
      <3> QED
        BY <3>1, <3>2
    <2>2. r % k \in 0..(k - 1)
      <3>1. r \in Int
        BY <1>1 DEF U32s
      <3> QED
        BY <1>2, <3>1
    <2>3. ToU32(a + (r % k)) = a + (r % k)
      <3>1. PICK y \in 0..(k - 1) : y = r % k
        BY <2>2
      <3>2. a + y \in 0..(w - 1)
        BY <1>2, <3>1
      <3>3. (a + y) % w = a + y
        BY <1>1, <3>2
      <3> QED
        BY <1>1, <3>1, <3>3 DEF ToU32
    <2>4. f[r] = GetU32Range(r, a, b)
      OBVIOUS
    <2> QED
      BY <2>1, <2>3, <2>4, Zenon DEF GetU32Range
  <1> HIDE DEF f
  <1>4. IsFair(f, a, b)
    <2>1. a \in Int /\ b \in Int /\ k < Words /\ b <= Words
      BY <1>1, <1>2
    <2> QED
      BY <1>2, <1>3, <2>1, FairRange
  <1> QED
    BY <1>2, <1>4 DEF f

(* A signed number that is converted to an unsigned one and back is what it was. *)
LEMMA Signed ==
  ASSUME NEW n \in S32s
  PROVE  ToS32(ToU32(n)) = n
  <1>1. PICK w \in Nat, h \in Nat : w = Words /\ h = Half /\ w = 2 * h /\ h # 0
    BY HalfAssumption DEF Words
  <1>2. n \in (-h)..(h - 1) /\ S32s = (-h)..(h - 1)
    BY <1>1 DEF S32s
  <1>3. CASE n >= 0
    <2>1. n % w = n
      BY <1>1, <1>2, <1>3
    <2>2. ToU32(n) = n
      BY <1>1, <2>1 DEF ToU32
    <2> QED
      BY <2>2 DEF ToS32
  <1>4. CASE n < 0
    <2>1. PICK m \in Nat : m = n + w /\ m < w /\ m >= h
      <3>1. n + w \in Nat /\ n + w < w /\ n + w >= h
        BY <1>1, <1>2, <1>4
      <3> QED
        BY <3>1
    <2>2. n % w = m
      <3>1. n = w * (-1) + m /\ m \in 0..(w - 1) /\ w \in Nat \ {0}
        BY <1>1, <1>2, <2>1
      <3> QED
        BY <1>2, <3>1, Remainder
    <2>3. m % w = m
      BY <1>1, <2>1
    <2>4. ToU32(n) = m /\ ToU32(m) = m
      BY <1>1, <2>2, <2>3 DEF ToU32
    <2>5. m \notin S32s
      BY <1>1, <1>2, <2>1
    <2>6. ToS32(m) = m - w
      BY <1>1, <2>4, <2>5 DEF ToS32
    <2> QED
      BY <1>2, <2>1, <2>4, <2>6
  <1> QED
    BY <1>2, <1>3, <1>4

(* random_get_s32_range is fair, too. *)
LEMMA FairS32 ==
  ASSUME NEW p \in Below(S32s), p[2] - p[1] \in S32s
  PROVE  IsFair([r \in U32s |-> GetS32Range(r, p[1], p[2])], p[1], p[2])
  <1>1. PICK w \in Nat, h \in Nat :
          w = Words /\ h = Half /\ w = 2 * h /\ h # 0 /\ S32s = (-h)..(h - 1)
    BY HalfAssumption DEF Words, S32s
  <1>2. PICK a \in (-h)..(h - 1), b \in (-h)..(h - 1), k \in Nat :
          a = p[1] /\ b = p[2] /\ b = a + k /\ k # 0 /\ k < h
    <2>1. PICK a \in (-h)..(h - 1), b \in (-h)..(h - 1) :
            a = p[1] /\ b = p[2] /\ a < b /\ b - a \in (-h)..(h - 1)
      BY <1>1 DEF Below
    <2>2. b - a \in Nat /\ b = a + (b - a) /\ b - a # 0 /\ b - a < h
      BY <2>1
    <2> QED
      BY <2>1, <2>2
  <1>0. b = a + k /\ k # 0 /\ k < h /\ w = 2 * h
    BY <1>1, <1>2, Zenon
  <1> DEFINE f == [r \in U32s |-> GetS32Range(r, a, b)]
  <1>3. ToU32(k) = k
    <2>1. k < Words
      BY <1>1, <1>2
    <2> QED
      BY <1>2, <2>1, Thresholds
  <1>4. b - a = k /\ k > 0 /\ k - 0 = k
    BY <1>2
  <1>5. ASSUME NEW r \in U32s
        PROVE  f[r] = IF r >= Threshold(k) THEN a + (r % k) ELSE Again
    <2>1. PICK y \in 0..(k - 1) : y = r % k
      <3>1. r \in Int
        BY <1>1 DEF U32s
      <3> QED
        BY <1>0, <3>1
    <2>2. ToU32(0 + y) = y
      <3>1. y % w = y /\ 0 + y = y
        BY <1>0
      <3> QED
        BY <1>1, <3>1 DEF ToU32
    <2>3. GetU32Range(r, 0, k) = IF r >= Threshold(k) THEN y ELSE Again
      BY <1>3, <1>4, <2>1, <2>2, Zenon DEF GetU32Range
    <2>4. y # Again
      BY <1>1, <1>2 DEF Again
    <2>5. ToS32(ToU32(a + y)) = a + y
      <3>1. a + y \in S32s
        BY <1>0, <1>1
      <3> QED
        BY <3>1, Signed
    <2>6. ~(k <= 0)
      BY <1>2
    <2>7. f[r] = GetS32Range(r, a, b)
      OBVIOUS
    <2>8. CASE r >= Threshold(k)
      <3>1. GetU32Range(r, 0, ToU32(k)) = y
        BY <1>3, <2>3, <2>8, Zenon
      <3>2. GetS32Range(r, a, b) = ToS32(ToU32(a + y))
        BY <1>4, <2>4, <2>6, <3>1, Zenon DEF GetS32Range
      <3> QED
        BY <2>1, <2>5, <2>7, <2>8, <3>2, Zenon
    <2>9. CASE ~(r >= Threshold(k))
      <3>1. GetU32Range(r, 0, ToU32(k)) = Again
        BY <1>3, <2>3, <2>9, Zenon
      <3>2. GetS32Range(r, a, b) = Again
        BY <1>4, <2>6, <3>1, Zenon DEF GetS32Range
      <3> QED
        BY <2>7, <2>9, <3>2, Zenon
    <2> QED
      BY <2>8, <2>9
  <1> HIDE DEF f
  <1>6. IsFair(f, a, b)
    <2>1. a \in Int /\ b \in Int /\ k < Words /\ b <= Words
      BY <1>1, <1>2
    <2> QED
      BY <1>2, <1>5, <2>1, FairRange
  <1> QED
    BY <1>2, <1>6 DEF f

----------------------------------------------------------------------------
(* Paths: where the names of a path lead, and what the loop makes of them. *)

(* A function that is defined by recursion over the numbers exists. *)
IsRecursion(S, a, step, f) ==
  f \in [Nat -> S] /\ f = [k \in Nat |-> IF k = 0 THEN a ELSE step[k][f[k - 1]]]

(* There is one. *)
LEMMA Recursion ==
  ASSUME NEW S, NEW a \in S, NEW step \in [Nat -> [S -> S]]
  PROVE  \E f : IsRecursion(S, a, step, f)
  <1>1. PICK f : Repeats(S, a, step, f)
    BY Repetition
  <1>2. f \in [Nat -> S] /\ f[0] = a /\ \A j, k \in Nat : k = j + 1 => f[k] = step[k][f[j]]
    BY <1>1, Zenon DEF Repeats
  <1>3. ASSUME NEW k \in Nat PROVE f[k] = IF k = 0 THEN a ELSE step[k][f[k - 1]]
    <2>1. CASE k = 0
      BY <1>2, <2>1
    <2>2. CASE k # 0
      <3>1. PICK j \in Nat : j = k - 1 /\ k = j + 1
        BY <2>2
      <3>2. f[k] = step[k][f[j]]
        BY <1>2, <3>1
      <3> QED
        BY <2>2, <3>1, <3>2
    <2> QED
      BY <2>1, <2>2
  <1>4. f = [k \in Nat |-> IF k = 0 THEN a ELSE step[k][f[k - 1]]]
    BY <1>2, <1>3
  <1> QED
    BY <1>2, <1>4, Zenon DEF IsRecursion

----------------------------------------------------------------------------
(* What Enter and Erase make of a sequence, name by name. *)
IsErased(s, i, n, e) ==
  /\ Len(s) = Len(e) + n
  /\ \A q \in 1..Len(e) : q < i => e[q] = s[q]
  /\ \A q \in 1..Len(e), r \in 1..Len(s) : q >= i /\ r = q + n => e[q] = s[r]

(* Erase does that. *)
LEMMA Erased ==
  ASSUME NEW S, NEW s \in Seq(S), NEW i \in Nat, NEW n \in Nat, i # 0, i + n <= Len(s) + 1
  PROVE  Erase(s, i, n) \in Seq(S) /\ IsErased(s, i, n, Erase(s, i, n))
  <1>1. PICK l \in Nat : l = Len(s) /\ i + n <= l + 1 /\ \A q \in 1..l : s[q] \in S
    BY ElementOfSeq
  <1>2. PICK a : a = SubSeq(s, 1, i - 1)
    OBVIOUS
  <1>3. PICK b : b = SubSeq(s, i + n, l)
    OBVIOUS
  <1>4. a \in Seq(S) /\ Len(a) = i - 1 /\ \A q \in 1..(i - 1) : a[q] = s[q]
    <2>1. 1 \in Int /\ i - 1 \in Int /\ \A q \in 1..(i - 1) : s[q] \in S
      BY <1>1
    <2>2. /\ a \in Seq(S)
          /\ Len(a) = IF 1 <= i - 1 THEN (i - 1) - 1 + 1 ELSE 0
          /\ \A q \in 1..((i - 1) - 1 + 1) : a[q] = s[1 + q - 1]
      BY <1>2, <2>1, SubSeqProperties
    <2> QED
      BY <2>2
  <1>5. /\ b \in Seq(S) /\ Len(b) = l - (i + n) + 1
        /\ \A q \in 1..(l - (i + n) + 1) : b[q] = s[(i + n) + q - 1]
    <2>1. i + n \in Int /\ l \in Int /\ \A q \in (i + n)..l : s[q] \in S
      BY <1>1
    <2>2. /\ b \in Seq(S)
          /\ Len(b) = IF i + n <= l THEN l - (i + n) + 1 ELSE 0
          /\ \A q \in 1..(l - (i + n) + 1) : b[q] = s[(i + n) + q - 1]
      BY <1>3, <2>1, SubSeqProperties, SMTT(30)
    <2> QED
      BY <1>1, <2>2
  <1>6. PICK e : e = a \o b
    OBVIOUS
  <1>7. /\ e \in Seq(S) /\ Len(e) = Len(a) + Len(b)
        /\ \A q \in 1..Len(a) : e[q] = a[q]
        /\ \A q \in 1..Len(b) : e[Len(a) + q] = b[q]
    <2>1. a \in Seq(S) /\ b \in Seq(S)
      BY <1>4, <1>5
    <2>2. /\ a \o b \in Seq(S) /\ Len(a \o b) = Len(a) + Len(b)
          /\ \A q \in 1..Len(a) : (a \o b)[q] = a[q]
          /\ \A q \in 1..Len(b) : (a \o b)[Len(a) + q] = b[q]
      BY <2>1, ConcatProperties
    <2> QED
      BY <1>6, <2>2, Zenon
  <1>8. Len(e) = l - n
    BY <1>1, <1>4, <1>5, <1>7
  <1>9. ASSUME NEW q \in 1..(l - n), q < i PROVE e[q] = s[q]
    <2>1. q \in 1..(i - 1)
      BY <1>9
    <2> QED
      BY <1>4, <1>7, <2>1, Zenon
  <1>10. ASSUME NEW q \in 1..(l - n), NEW r \in 1..l, q >= i, r = q + n PROVE e[q] = s[r]
    <2>1. PICK m \in 1..(l - (i + n) + 1) :
            m = q - (i - 1) /\ q = (i - 1) + m /\ r = (i + n) + m - 1
      <3>1. q - (i - 1) \in 1..(l - (i + n) + 1)
        BY <1>10
      <3> QED
        BY <1>10, <3>1
    <2>2. e[(i - 1) + m] = b[m]
      BY <1>4, <1>5, <1>7
    <2>3. b[m] = s[(i + n) + m - 1]
      BY <1>5
    <2> QED
      BY <2>1, <2>2, <2>3
  <1>11. IsErased(s, i, n, e)
    <2>1. l = Len(e) + n
      BY <1>1, <1>8
    <2> QED
      BY <1>1, <1>8, <1>9, <1>10, <2>1 DEF IsErased
  <1>12. e = Erase(s, i, n)
    BY <1>1, <1>2, <1>3, <1>6 DEF Erase
  <1> QED
    BY <1>7, <1>11, <1>12

(* The name c leads out of the directory that was entered last. *)
Goes(w, c) == c = ".." /\ w # <<>> /\ w[Len(w)] # ".."

(* The way v is w with one name more. *)
IsEntered(w, c, v) ==
  /\ c = "." => v = w
  /\ c # "." /\ Goes(w, c) => Len(w) = Len(v) + 1 /\ \A q \in 1..Len(v) : v[q] = w[q]
  /\ c # "." /\ ~Goes(w, c) =>
       /\ Len(v) = Len(w) + 1 /\ v[Len(v)] = c /\ \A q \in 1..Len(w) : v[q] = w[q]

(* Enter does that. *)
LEMMA Entered ==
  ASSUME NEW S, NEW w \in Seq(S), NEW c \in S
  PROVE  Enter(w, c) \in Seq(S) /\ IsEntered(w, c, Enter(w, c))
  <1>1. CASE c = "."
    BY <1>1 DEF Enter, IsEntered
  <1>2. CASE c # "." /\ Goes(w, c)
    <2>1. PICK v : v = SubSeq(w, 1, Len(w) - 1)
      OBVIOUS
    <2>2. Enter(w, c) = v
      BY <1>2, <2>1, Zenon DEF Enter, Goes, Last, Front
    <2>3. PICK l \in Nat : l = Len(w) /\ l # 0 /\ \A q \in 1..l : w[q] \in S
      BY <1>2, EmptySeq, ElementOfSeq DEF Goes
    <2>4. v \in Seq(S) /\ Len(v) = l - 1 /\ \A q \in 1..(l - 1) : v[q] = w[q]
      <3>1. 1 \in Int /\ l - 1 \in Int /\ \A q \in 1..(l - 1) : w[q] \in S
        BY <2>3
      <3>2. /\ v \in Seq(S)
            /\ Len(v) = IF 1 <= l - 1 THEN (l - 1) - 1 + 1 ELSE 0
            /\ \A q \in 1..((l - 1) - 1 + 1) : v[q] = w[1 + q - 1]
        BY <2>1, <2>3, <3>1, SubSeqProperties
      <3> QED
        BY <2>3, <3>2
    <2>5. l = (l - 1) + 1
      OBVIOUS
    <2> QED
      BY <1>2, <2>2, <2>3, <2>4, <2>5, Zenon DEF IsEntered
  <1>3. CASE c # "." /\ ~Goes(w, c)
    <2>1. Enter(w, c) = Append(w, c)
      BY <1>3, Zenon DEF Enter, Goes, Last
    <2>2. PICK v \in Seq(S) : v = Append(w, c)
      BY AppendProperties, Zenon
    <2>3. Len(v) = Len(w) + 1 /\ v[Len(w) + 1] = c /\ \A q \in 1..Len(w) : v[q] = w[q]
      BY <2>2, AppendProperties
    <2> QED
      BY <1>3, <2>1, <2>2, <2>3, Zenon DEF IsEntered
  <1> QED
    BY <1>1, <1>2, <1>3


----------------------------------------------------------------------------
(* W[k] is where the first k names lead. *)
IsWalk(S, names, W) ==
  /\ W \in [Nat -> Seq(S)] /\ W[0] = <<>>
  /\ \A j, k \in Nat : k = j + 1 => IsEntered(W[j], names[k], W[k])

(* The loop when it has come to b and j, from a and i. *)
IsRound(a, i, b, j) ==
  /\ i > Len(a) => b = a /\ j = i
  /\ i <= Len(a) /\ a[i] = "." => j = StepBack(i) /\ IsErased(a, i, 1, b)
  /\ i <= Len(a) /\ a[i] # "." /\ IsPair(a, i) => j = StepBack(i) /\ IsErased(a, i, 2, b)
  /\ i <= Len(a) /\ a[i] # "." /\ ~IsPair(a, i) => b = a /\ j = i + 1

(* The invariant of the loop after k rounds: the first p names have become *)
(* where they lead, the others follow; i is at its last name or behind it, *)
(* and then the next name does not lead back.                              *)
AtRound(names, W, a, i, p, k, l, m, n) ==
  /\ l = Len(W[p]) /\ m = Len(a) /\ n = Len(names)
  /\ p \in 0..n /\ m + p = l + n
  /\ \A q \in 1..l : a[q] = W[p][q] /\ a[q] # "."
  /\ \A q \in 1..m, r \in 1..n : q > l /\ q + p = r + l => a[q] = names[r]
  /\ \/ i = l + 1 /\ (i <= m /\ a[i] = ".." /\ l # 0 => a[l] = "..")
     \/ i = l /\ l # 0
  /\ i > m \/ 2 * m + 1 + k <= 2 * n + i

(* Names that lead nowhere go, and the loop steps back. *)
LEMMA NamesGo ==
  ASSUME NEW names, NEW W, NEW a, NEW b, NEW i \in Nat, NEW j \in Nat, NEW p \in Nat, NEW k \in Nat,
         NEW l \in Nat, NEW m \in Nat, NEW n \in Nat, NEW c \in Nat, c = 1 \/ c = 2,
         AtRound(names, W, a, i, p, k, l, m, n), i = l + 1, i + c <= m + 1,
         Len(b) \in Nat, IsErased(a, i, c, b), j = StepBack(i), W[p + c] = W[p]
  PROVE  \E o, u \in Nat : AtRound(names, W, b, j, o, k + 1, l, u, n)
  <1>0. /\ l = Len(W[p]) /\ m = Len(a) /\ n = Len(names)
        /\ p \in 0..n /\ m + p = l + n
        /\ i > m \/ 2 * m + 1 + k <= 2 * n + i
    BY Zenon DEF AtRound
  <1>1. m + p = l + n /\ i = l + 1 /\ i + c <= m + 1 /\ (c = 1 \/ c = 2) /\ i <= m
    <2>1. m + p = l + n
      BY <1>0, Zenon
    <2>2. i <= m
      OBVIOUS
    <2> QED
      BY <2>1, <2>2, Zenon
  <1>2. PICK o \in Nat, u \in Nat : o = p + c /\ u = Len(b)
    <2>1. p + c \in Nat
      OBVIOUS
    <2> QED
      BY <2>1, Zenon
  <1>3. m = u + c
    BY <1>0, <1>2, Zenon DEF IsErased
  <1>4. o \in 0..n /\ u + o = l + n
    BY <1>1, <1>2, <1>3, SMT
  <1>5. ASSUME NEW q \in 1..l PROVE b[q] = W[o][q] /\ b[q] # "."
    <2>1. a[q] = W[p][q] /\ a[q] # "."
      BY DEF AtRound
    <2>2. q \in 1..u /\ q < i
      BY <1>1, <1>3, SMT
    <2>3. b[q] = a[q]
      BY <1>2, <2>2 DEF IsErased
    <2> QED
      BY <1>2, <2>1, <2>3, Zenon
  <1>6. ASSUME NEW q \in 1..u, NEW r \in 1..n, q > l, q + o = r + l PROVE b[q] = names[r]
    <2>1. PICK v \in 1..m : v = q + c /\ v > l /\ v + p = r + l
      <3>1. q + c \in 1..m /\ q + c > l /\ (q + c) + p = r + l
        BY <1>2, <1>3, <1>6
      <3> QED
        BY <3>1
    <2>2. a[v] = names[r]
      BY <2>1, Zenon DEF AtRound
    <2>3. q >= i
      BY <1>6
    <2>4. b[q] = a[v]
      BY <1>0, <1>2, <2>1, <2>3 DEF IsErased
    <2> QED
      BY <2>2, <2>4
  <1>7. \/ j = l + 1 /\ l = 0
        \/ j = l /\ l # 0
    <2>1. j = IF i > 1 THEN i - 1 ELSE i
      BY Zenon DEF StepBack
    <2> QED
      BY <1>1, <2>1
  <1>8. 2 * u + 1 + (k + 1) <= 2 * n + j
    <2>1. j = l + 1 \/ j = l
      BY <1>7, Zenon
    <2>2. ~(i > m)
      BY <1>1
    <2>3. 2 * m + 1 + k <= 2 * n + i
      BY <1>0, <2>2, Zenon
    <2> QED
      BY <1>1, <1>3, <2>1, <2>3, SMTT(30)
  <1>9. Len(W[o]) = l
    BY <1>0, <1>2
  <1>10. AtRound(names, W, b, j, o, k + 1, l, u, n)
    <2>1. \/ j = l + 1 /\ (j <= u /\ b[j] = ".." /\ l # 0 => b[l] = "..")
          \/ j = l /\ l # 0
      BY <1>7, Zenon
    <2> QED
      BY <1>0, <1>2, <1>4, <1>5, <1>6, <1>8, <1>9, <2>1, Zenon DEF AtRound
  <1> QED
    BY <1>2, <1>10

(* ".." goes, and so does the name that was entered last. *)
LEMMA LeftAgain ==
  ASSUME NEW names, NEW W, NEW a, NEW b, NEW i \in Nat, NEW j \in Nat, NEW p \in Nat, NEW k \in Nat,
         NEW l \in Nat, NEW m \in Nat, NEW n \in Nat, NEW o \in Nat, o = p + 1,
         AtRound(names, W, a, i, p, k, l, m, n), i = l, l # 0, i < m,
         Len(b) \in Nat, IsErased(a, i, 2, b), j = StepBack(i),
         Len(W[p]) = Len(W[o]) + 1, Len(W[o]) \in Nat, \A q \in 1..Len(W[o]) : W[o][q] = W[p][q]
  PROVE  \E h, u \in Nat : AtRound(names, W, b, j, o, k + 1, h, u, n)
  <1>0. /\ l = Len(W[p]) /\ m = Len(a) /\ n = Len(names)
        /\ p \in 0..n /\ m + p = l + n
        /\ i > m \/ 2 * m + 1 + k <= 2 * n + i
    BY Zenon DEF AtRound
  <1>1. m + p = l + n /\ 2 * m + 1 + k <= 2 * n + i
    <2>1. ~(i > m)
      OBVIOUS
    <2> QED
      BY <1>0, <2>1, Zenon
  <1>2. PICK h \in Nat, u \in Nat : h = Len(W[o]) /\ u = Len(b)
    BY Zenon
  <1>3. m = u + 2 /\ l = h + 1
    <2>1. m = u + 2
      BY <1>0, <1>2, Zenon DEF IsErased
    <2>2. l = h + 1
      BY <1>0, <1>2, Zenon
    <2> QED
      BY <2>1, <2>2
  <1>4. o \in 0..n /\ u + o = h + n
    BY <1>1, <1>3, SMT
  <1>5. ASSUME NEW q \in 1..h PROVE b[q] = W[o][q] /\ b[q] # "."
    <2>1. q \in 1..l /\ q \in 1..u /\ q < i
      BY <1>1, <1>3, SMT
    <2>2. a[q] = W[p][q] /\ a[q] # "."
      BY <2>1, Zenon DEF AtRound
    <2>3. b[q] = a[q]
      BY <1>2, <2>1, Zenon DEF IsErased
    <2> QED
      BY <1>2, <2>2, <2>3, Zenon
  <1>6. ASSUME NEW q \in 1..u, NEW r \in 1..n, q > h, q + o = r + h PROVE b[q] = names[r]
    <2>1. PICK v \in 1..m : v = q + 2 /\ v > l /\ v + p = r + l
      <3>1. q + 2 \in 1..m /\ q + 2 > l /\ (q + 2) + p = r + l
        BY <1>3, <1>6, SMT
      <3> QED
        BY <3>1
    <2>2. a[v] = names[r]
      BY <2>1, Zenon DEF AtRound
    <2>3. q >= i
      BY <1>3, <1>6
    <2>4. b[q] = a[v]
      BY <1>0, <1>2, <2>1, <2>3, Zenon DEF IsErased
    <2> QED
      BY <2>2, <2>4
  <1>7. \/ j = h + 1 /\ h = 0
        \/ j = h /\ h # 0
    <2>1. j = IF i > 1 THEN i - 1 ELSE i
      BY Zenon DEF StepBack
    <2> QED
      BY <1>3, <2>1
  <1>8. 2 * u + 1 + (k + 1) <= 2 * n + j
    <2>1. j = h + 1 \/ j = h
      BY <1>7, Zenon
    <2> QED
      BY <1>1, <1>3, <2>1, SMTT(30)
  <1>9. AtRound(names, W, b, j, o, k + 1, h, u, n)
    <2>1. \/ j = h + 1 /\ (j <= u /\ b[j] = ".." /\ h # 0 => b[h] = "..")
          \/ j = h /\ h # 0
      BY <1>7, Zenon
    <2> QED
      BY <1>0, <1>2, <1>4, <1>5, <1>6, <1>8, <2>1, Zenon DEF AtRound
  <1> QED
    BY <1>9

(* A name is entered, and the loop goes on behind it. *)
IsEntering(W, a, i, j, p, o, l, m) ==
  /\ o = p + 1 /\ i = l + 1 /\ i <= m /\ a[i] # "." /\ ~IsPair(a, i) /\ j = i + 1
  /\ Len(W[o]) = Len(W[p]) + 1 /\ W[o][Len(W[o])] = a[i]
  /\ \A q \in 1..Len(W[p]) : W[o][q] = W[p][q]

(* Where it leads then. *)
LEMMA EnteredNext ==
  ASSUME NEW names, NEW W, NEW a, NEW i \in Nat, NEW j \in Nat, NEW p \in Nat, NEW k \in Nat,
         NEW l \in Nat, NEW m \in Nat, NEW n \in Nat, NEW o \in Nat,
         AtRound(names, W, a, i, p, k, l, m, n), IsEntering(W, a, i, j, p, o, l, m)
  PROVE  \E h, u \in Nat : AtRound(names, W, a, j, o, k + 1, h, u, n)
  <1> USE DEF IsEntering
  <1>0. /\ l = Len(W[p]) /\ m = Len(a) /\ n = Len(names)
        /\ p \in 0..n /\ m + p = l + n
        /\ i > m \/ 2 * m + 1 + k <= 2 * n + i
    BY Zenon DEF AtRound
  <1>1. m + p = l + n /\ 2 * m + 1 + k <= 2 * n + i
    <2>1. ~(i > m)
      OBVIOUS
    <2> QED
      BY <1>0, <2>1, Zenon
  <1>2. PICK h \in Nat : h = l + 1 /\ h = i
    OBVIOUS
  <1>3. h = Len(W[o]) /\ o \in 0..n /\ m + o = h + n
    <2>1. h = Len(W[o])
      BY <1>0, <1>2
    <2>2. o \in 0..n /\ m + o = h + n
      BY <1>1, <1>2, SMT
    <2> QED
      BY <2>1, <2>2
  <1>4. ASSUME NEW q \in 1..h PROVE a[q] = W[o][q] /\ a[q] # "."
    <2>1. CASE q = h
      BY <1>2, <1>3, <2>1, Zenon
    <2>2. CASE q # h
      <3>1. q \in 1..l
        BY <1>2, <2>2, SMT
      <3>2. a[q] = W[p][q] /\ a[q] # "."
        BY <3>1, Zenon DEF AtRound
      <3> QED
        BY <1>0, <3>1, <3>2, Zenon
    <2> QED
      BY <2>1, <2>2
  <1>5. ASSUME NEW q \in 1..m, NEW r \in 1..n, q > h, q + o = r + h PROVE a[q] = names[r]
    <2>1. q > l /\ q + p = r + l
      BY <1>2, <1>5, SMT
    <2> QED
      BY <2>1, Zenon DEF AtRound
  <1>6. j = h + 1 /\ (j <= m /\ a[j] = ".." /\ h # 0 => a[h] = "..")
    <2>1. ASSUME j <= m, a[j] = ".." PROVE a[i] = ".."
      <3>1. i < m /\ i + 1 = j
        BY <2>1
      <3> QED
        BY <1>0, <2>1, <3>1, Zenon DEF IsPair
    <2>2. j = h + 1
      BY <1>2
    <2> QED
      BY <1>2, <2>1, <2>2, Zenon
  <1>7. j > m \/ 2 * m + 1 + (k + 1) <= 2 * n + j
    BY <1>1
  <1> QED
    BY <1>0, <1>2, <1>3, <1>4, <1>5, <1>6, <1>7, Zenon DEF AtRound

(* The loop has stepped back, and nothing leads back: it goes on again. *)
LEMMA PassedOn ==
  ASSUME NEW names, NEW W, NEW a, NEW i \in Nat, NEW j \in Nat, NEW p \in Nat, NEW k \in Nat,
         NEW l \in Nat, NEW m \in Nat, NEW n \in Nat,
         AtRound(names, W, a, i, p, k, l, m, n), i = l, l # 0, i <= m, ~IsPair(a, i), j = i + 1
  PROVE  AtRound(names, W, a, j, p, k + 1, l, m, n)
  <1>0. /\ l = Len(W[p]) /\ m = Len(a) /\ n = Len(names)
        /\ p \in 0..n /\ m + p = l + n
        /\ i > m \/ 2 * m + 1 + k <= 2 * n + i
    BY Zenon DEF AtRound
  <1>1. 2 * m + 1 + k <= 2 * n + i
    <2>1. ~(i > m)
      OBVIOUS
    <2> QED
      BY <1>0, <2>1, Zenon
  <1>2. /\ \A q \in 1..l : a[q] = W[p][q] /\ a[q] # "."
        /\ \A q \in 1..m, r \in 1..n : q > l /\ q + p = r + l => a[q] = names[r]
    BY Zenon DEF AtRound
  <1>3. j = l + 1 /\ (j <= m /\ a[j] = ".." /\ l # 0 => a[l] = "..")
    <2>1. ASSUME j <= m, a[j] = ".." PROVE a[i] = ".."
      <3>1. i < m /\ i + 1 = j
        BY <2>1
      <3> QED
        BY <1>0, <2>1, <3>1, Zenon DEF IsPair
    <2>2. j = l + 1
      OBVIOUS
    <2> QED
      BY <2>1, <2>2, Zenon
  <1>4. j > m \/ 2 * m + 1 + (k + 1) <= 2 * n + j
    BY <1>1
  <1> QED
    BY <1>0, <1>2, <1>3, <1>4, Zenon DEF AtRound

(* A name that is left right after it was entered leads nowhere. *)
LEMMA ThereAndBack ==
  ASSUME NEW S, NEW u \in Seq(S), NEW v \in Seq(S), NEW w \in Seq(S), NEW c,
         c # ".", c # "..", IsEntered(u, c, v), IsEntered(v, "..", w)
  PROVE  w = u
  <1>1. ~Goes(u, c)
    BY Zenon DEF Goes
  <1>2. Len(v) = Len(u) + 1 /\ v[Len(v)] = c /\ \A q \in 1..Len(u) : v[q] = u[q]
    BY <1>1, Zenon DEF IsEntered
  <1>3. v # <<>>
    <2>1. Len(u) \in Nat
      BY LenProperties
    <2>2. Len(v) # 0
      BY <1>2, <2>1
    <2> QED
      BY <2>2, EmptySeq, Zenon
  <1>4. Goes(v, "..") /\ ".." # "."
    BY <1>2, <1>3 DEF Goes
  <1>5. Len(v) = Len(w) + 1 /\ \A q \in 1..Len(w) : w[q] = v[q]
    BY <1>4, Zenon DEF IsEntered
  <1>6. PICK l \in Nat, m \in Nat : l = Len(u) /\ m = Len(w)
    BY LenProperties
  <1>7. l = m
    <2>1. l + 1 = m + 1
      BY <1>2, <1>5, <1>6, Zenon
    <2> QED
      BY <2>1
  <1>8. ASSUME NEW q \in 1..Len(w) PROVE w[q] = u[q]
    BY <1>2, <1>5, <1>6, <1>7, Zenon
  <1> QED
    BY <1>6, <1>7, <1>8, SeqEqual, Zenon

(* Every round of the loop keeps its invariant. *)
LEMMA OneRound ==
  ASSUME NEW S, NEW names, NEW W, IsWalk(S, names, W), NEW a \in Seq(S), NEW b \in Seq(S),
         NEW i \in Nat, NEW j \in Nat, NEW p \in Nat, NEW k \in Nat,
         NEW l \in Nat, NEW m \in Nat, NEW n \in Nat,
         AtRound(names, W, a, i, p, k, l, m, n), IsRound(a, i, b, j)
  PROVE  \E o, h, u \in Nat : AtRound(names, W, b, j, o, k + 1, h, u, n)
  <1>0. /\ l = Len(W[p]) /\ m = Len(a) /\ n = Len(names)
        /\ p \in 0..n /\ m + p = l + n
        /\ i > m \/ 2 * m + 1 + k <= 2 * n + i
    BY Zenon DEF AtRound
  <1>1. PICK o \in Nat, e \in Nat : o = p + 1 /\ e = o + 1 /\ e = p + 2 /\ k + 1 \in Nat
    OBVIOUS
  <1>2. /\ W[p] \in Seq(S) /\ W[o] \in Seq(S) /\ W[e] \in Seq(S)
        /\ IsEntered(W[p], names[o], W[o]) /\ IsEntered(W[o], names[e], W[e])
    BY <1>1, Zenon DEF IsWalk
  <1>3. Len(b) \in Nat /\ Len(W[o]) \in Nat
    BY <1>2, LenProperties, Zenon
  <1>4. \A q \in 1..l : a[q] = W[p][q] /\ a[q] # "."
    BY Zenon DEF AtRound
  <1>10. ASSUME NEW q \in Nat, NEW r \in Nat, l < q, q <= m, q + p = r + l PROVE a[q] = names[r]
    <2>1. m + p = l + n
      BY <1>0, Zenon
    <2>2. r \in 1..n /\ q \in 1..m /\ q > l
      BY <1>10, <2>1, SMT
    <2> QED
      BY <1>10, <2>2, Zenon DEF AtRound
  <1>5. CASE i > m
    <2>1. b = a /\ j = i
      BY <1>0, <1>5, Zenon DEF IsRound
    <2>2. AtRound(names, W, a, i, p, k + 1, l, m, n)
      BY <1>5, Zenon DEF AtRound
    <2> QED
      BY <2>1, <2>2, Zenon
  <1>6. CASE i = l + 1 /\ i <= m
    <2>0. l + 1 <= m /\ 1 \in Nat /\ 1 # 0 /\ i + 1 <= m + 1
      BY <1>6
    <2>1. a[i] = names[o]
      <3>1. l < i /\ i <= m /\ i + p = o + l
        BY <1>1, <1>6
      <3> QED
        BY <3>1, <1>10, Zenon
    <2>2. CASE a[i] = "."
      <3>1. j = StepBack(i) /\ IsErased(a, i, 1, b)
        BY <1>0, <1>6, <2>2, Zenon DEF IsRound
      <3>2. W[p + 1] = W[p]
        BY <1>1, <1>2, <2>1, <2>2, Zenon DEF IsEntered
      <3>3. \E g, u \in Nat : AtRound(names, W, b, j, g, k + 1, l, u, n)
        BY <1>3, <1>6, <2>0, <3>1, <3>2, NamesGo, Zenon
      <3> QED
        BY <3>3, Zenon
    <2>3. CASE a[i] # "." /\ IsPair(a, i)
      <3>1. j = StepBack(i) /\ IsErased(a, i, 2, b)
        BY <1>0, <1>6, <2>3, Zenon DEF IsRound
      <3>2. i < m /\ a[i] # ".." /\ a[i + 1] = ".."
        BY <1>0, <2>3, Zenon DEF IsPair
      <3>3. l + 2 <= m /\ 2 \in Nat /\ 2 # 0 /\ i + 2 <= m + 1 /\ l + 2 = i + 1 /\ i < m
        <4>1. i < m /\ i = l + 1
          BY <1>6, <3>2, Zenon
        <4> QED
          BY <4>1
      <3>4. names[e] = ".."
        <4>1. PICK q \in Nat : q = i + 1
          OBVIOUS
        <4>2. l < q /\ q <= m /\ q + p = e + l
          BY <1>1, <1>6, <3>3, <4>1
        <4>3. a[q] = names[e]
          BY <4>2, <1>10, Zenon
        <4> QED
          BY <3>2, <4>1, <4>3, Zenon
      <3>5. W[p + 2] = W[p]
        <4>0. PICK c : c = names[o]
          OBVIOUS
        <4>1. PICK u \in Seq(S), v \in Seq(S), w \in Seq(S) : u = W[p] /\ v = W[o] /\ w = W[e]
          BY <1>2, Zenon
        <4>2. c # "." /\ c # ".." /\ IsEntered(u, c, v) /\ IsEntered(v, "..", w)
          BY <1>2, <2>1, <2>3, <3>2, <3>4, <4>0, <4>1, Zenon
        <4>3. w = u
          BY <4>2, ThereAndBack, Zenon
        <4>4. W[e] = W[p]
          BY <4>1, <4>3, Zenon
        <4> QED
          BY <1>1, <4>4, Zenon
      <3>6. \E g, u \in Nat : AtRound(names, W, b, j, g, k + 1, l, u, n)
        BY <1>3, <1>6, <3>1, <3>3, <3>5, NamesGo, Zenon
      <3> QED
        BY <3>6, Zenon
    <2>4. CASE a[i] # "." /\ ~IsPair(a, i)
      <3>1. b = a /\ j = i + 1
        BY <1>0, <1>6, <2>4, Zenon DEF IsRound
      <3>2. ~Goes(W[p], names[o])
        <4> SUFFICES ASSUME names[o] = "..", W[p] # <<>> PROVE W[p][Len(W[p])] = ".."
          BY Zenon DEF Goes
        <4>1. l # 0
          BY <1>0, <1>2, EmptySeq, Zenon
        <4>2. i # l
          BY <1>6
        <4>3. a[l] = ".."
          BY <1>6, <2>1, <4>1, <4>2, Zenon DEF AtRound
        <4>4. l \in 1..l
          BY <4>1
        <4> QED
          BY <1>0, <1>4, <4>3, <4>4, Zenon
      <3>3. /\ Len(W[o]) = Len(W[p]) + 1 /\ W[o][Len(W[o])] = a[i]
            /\ \A q \in 1..Len(W[p]) : W[o][q] = W[p][q]
        BY <1>2, <2>1, <2>4, <3>2, Zenon DEF IsEntered
      <3>4. \E h, u \in Nat : AtRound(names, W, a, j, o, k + 1, h, u, n)
        <4>1. IsEntering(W, a, i, j, p, o, l, m)
          BY <1>1, <1>6, <2>4, <3>1, <3>3, Zenon DEF IsEntering
        <4> QED
          BY <4>1, EnteredNext, Zenon
      <3> QED
        BY <3>1, <3>4, Zenon
    <2> QED
      BY <2>2, <2>3, <2>4
  <1>7. CASE i = l /\ l # 0
    <2>1. i <= m
      <3>1. m + p = l + n /\ p \in 0..n /\ i = l
        BY <1>0, <1>7, Zenon
      <3> QED
        BY <3>1
    <2>2. a[i] = W[p][i] /\ a[i] # "."
      <3>1. i \in 1..l
        BY <1>7
      <3> QED
        BY <1>4, <3>1, Zenon
    <2>3. CASE IsPair(a, i)
      <3>1. j = StepBack(i) /\ IsErased(a, i, 2, b)
        BY <1>0, <2>1, <2>2, <2>3, Zenon DEF IsRound
      <3>2. i < m /\ a[i] # ".." /\ a[i + 1] = ".."
        BY <1>0, <2>3, Zenon DEF IsPair
      <3>3. l + 1 <= m /\ 1 \in Nat /\ 1 # 0 /\ l + 1 = i + 1
        <4>1. i < m /\ i = l
          BY <1>7, <3>2, Zenon
        <4> QED
          BY <4>1
      <3>4. names[o] = ".."
        <4>1. PICK q \in Nat : q = i + 1
          OBVIOUS
        <4>2. l < q /\ q <= m /\ q + p = o + l
          BY <1>1, <1>7, <3>3, <4>1
        <4>3. a[q] = names[o]
          BY <4>2, <1>10, Zenon
        <4> QED
          BY <3>2, <4>1, <4>3, Zenon
      <3>5. Goes(W[p], "..") /\ ".." # "."
        <4>1. W[p] # <<>>
          <5>1. Len(W[p]) # 0
            BY <1>0, <1>7, Zenon
          <5> QED
            BY <1>2, <5>1, EmptySeq, Zenon
        <4>2. W[p][Len(W[p])] # ".."
          BY <1>0, <1>7, <2>2, <3>2, Zenon
        <4> QED
          BY <4>1, <4>2 DEF Goes
      <3>6. /\ Len(W[p]) = Len(W[o]) + 1
            /\ \A q \in 1..Len(W[o]) : W[o][q] = W[p][q]
        BY <1>2, <3>4, <3>5, Zenon DEF IsEntered
      <3>7. \E h, u \in Nat : AtRound(names, W, b, j, o, k + 1, h, u, n)
        BY <1>1, <1>3, <1>7, <3>1, <3>2, <3>6, LeftAgain, Zenon
      <3> QED
        BY <3>7, Zenon
    <2>4. CASE ~IsPair(a, i)
      <3>1. b = a /\ j = i + 1
        BY <1>0, <2>1, <2>2, <2>4, Zenon DEF IsRound
      <3>2. AtRound(names, W, a, j, p, k + 1, l, m, n)
        BY <1>7, <2>1, <2>4, <3>1, PassedOn, Zenon
      <3> QED
        BY <3>1, <3>2, Zenon
    <2> QED
      BY <2>3, <2>4
  <1>8. i > m \/ i <= m
    <2>1. i \in Nat /\ m \in Nat
      OBVIOUS
    <2> QED
      BY <2>1, SMT
  <1>9. i = l + 1 \/ (i = l /\ l # 0)
    BY Zenon DEF AtRound
  <1> QED
    BY <1>5, <1>6, <1>7, <1>8, <1>9, Zenon

(* The walk over names of S is one. *)
LEMMA WalksWalk ==
  ASSUME NEW S, NEW names, \A k \in Nat : names[k] \in S
  PROVE  IsWalk(S, names, Walks(names))
  <1> DEFINE step == [k \in Nat |-> [w \in Seq(S) |-> Enter(w, names[k])]]
  <1>1. step \in [Nat -> [Seq(S) -> Seq(S)]]
    BY Entered
  <1>2. <<>> \in Seq(S)
    BY EmptySeq
  <1>3. PICK f \in [Nat -> Seq(S)] :
          f = [k \in Nat |-> IF k = 0 THEN <<>> ELSE step[k][f[k - 1]]]
    <2> HIDE DEF step
    <2>1. \E f : IsRecursion(Seq(S), <<>>, step, f)
      BY <1>1, <1>2, Recursion, Zenon
    <2> QED
      BY <2>1, Zenon DEF IsRecursion
  <1>4. f = [k \in Nat |-> IF k = 0 THEN <<>> ELSE Enter(f[k - 1], names[k])]
    <2>1. ASSUME NEW k \in Nat
          PROVE  f[k] = IF k = 0 THEN <<>> ELSE Enter(f[k - 1], names[k])
      <3>1. CASE k = 0
        BY <1>3, <3>1
      <3>2. CASE k # 0
        <4>1. k - 1 \in Nat
          BY <3>2
        <4>2. f[k] = step[k][f[k - 1]]
          BY <1>3, <3>2
        <4> QED
          BY <3>2, <4>1, <4>2
      <3> QED
        BY <3>1, <3>2
    <2> QED
      BY <1>3, <2>1
  <1>5. PICK g : g = Walks(names)
    OBVIOUS
  <1>6. g = [k \in Nat |-> IF k = 0 THEN <<>> ELSE Enter(g[k - 1], names[k])]
    BY <1>4, <1>5 DEF Walks
  <1>7. g[0] = <<>> /\ \A j, k \in Nat : k = j + 1 => g[k] = Enter(g[j], names[k])
    <2>1. g[0] = <<>>
      BY <1>6
    <2>2. ASSUME NEW j \in Nat, NEW k \in Nat, k = j + 1 PROVE g[k] = Enter(g[j], names[k])
      <3>1. k # 0 /\ k - 1 = j
        BY <2>2
      <3>2. g[k] = IF k = 0 THEN <<>> ELSE Enter(g[k - 1], names[k])
        BY <1>6
      <3> QED
        BY <3>1, <3>2, Zenon
    <2> QED
      BY <2>1, <2>2
  <1> DEFINE K == {k \in Nat : g[k] \in Seq(S)}
  <1>8. \A k \in Nat : k \in K
    <2>1. 0 \in K
      BY <1>2, <1>7
    <2>2. ASSUME NEW k \in Nat, k \in K PROVE k + 1 \in K
      <3>1. PICK j \in Nat : j = k + 1
        OBVIOUS
      <3>2. g[j] = Enter(g[k], names[j])
        BY <1>7, <3>1
      <3>3. Enter(g[k], names[j]) \in Seq(S)
        BY <2>2, Entered
      <3> QED
        BY <3>1, <3>2, <3>3
    <2> HIDE DEF K
    <2> QED
      BY <2>1, <2>2, AllNumbers
  <1>9. g \in [Nat -> Seq(S)]
    <2>1. g = [k \in Nat |-> g[k]]
      BY <1>6
    <2> QED
      BY <1>8, <2>1
  <1>10. ASSUME NEW j \in Nat, NEW k \in Nat, k = j + 1 PROVE IsEntered(g[j], names[k], g[k])
    <2>1. g[j] \in Seq(S) /\ names[k] \in S
      BY <1>9
    <2> QED
      BY <1>7, <1>10, <2>1, Entered, ZenonT(60)
  <1> QED
    BY <1>5, <1>7, <1>9, <1>10, Zenon DEF IsWalk

(* Where the loop may be: the names that are left, and the place among them. *)
Places(S) == [names : Seq(S), i : Nat \ {0}]

(* OneName does that, and keeps the place in the path one. *)
LEMMA OneNameIsRound ==
  ASSUME NEW S, NEW s \in Places(S)
  PROVE  OneName(s) \in Places(S) /\ IsRound(s.names, s.i, OneName(s).names, OneName(s).i)
  <1>1. PICK a \in Seq(S), i \in Nat : s.names = a /\ s.i = i /\ i # 0 /\ s = [names |-> a, i |-> i]
    BY DEF Places
  <1>2. PICK m \in Nat : m = Len(a)
    BY LenProperties
  <1>3. StepBack(i) \in Nat \ {0}
    BY <1>1 DEF StepBack
  <1>4. CASE i > m
    <2>2. ~(i <= m)
      BY <1>4
    <2>1. OneName(s) = s
      BY <1>1, <1>2, <1>4, <2>2, Zenon DEF OneName
    <2> QED
      BY <1>1, <1>2, <2>1, <2>2, Zenon DEF IsRound
  <1>5. CASE i <= m /\ a[i] = "."
    <2>1. PICK b : b = Erase(a, i, 1)
      OBVIOUS
    <2>2. b \in Seq(S) /\ IsErased(a, i, 1, b)
      <3>1. i + 1 <= Len(a) + 1 /\ 1 \in Nat
        BY <1>2, <1>5
      <3> QED
        BY <1>1, <2>1, <3>1, Erased, Zenon
    <2>3. ~(i > m)
      BY <1>5
    <2>4. OneName(s) = [names |-> b, i |-> StepBack(i)]
      BY <1>1, <1>2, <1>5, <2>1, <2>3, Zenon DEF OneName
    <2>5. OneName(s).names = b /\ OneName(s).i = StepBack(i) /\ OneName(s) \in Places(S)
      BY <1>3, <2>2, <2>4 DEF Places
    <2> QED
      BY <1>1, <1>2, <1>5, <2>2, <2>3, <2>5, Zenon DEF IsRound
  <1>6. CASE i <= m /\ a[i] # "." /\ IsPair(a, i)
    <2>1. PICK b : b = Erase(a, i, 2)
      OBVIOUS
    <2>2. b \in Seq(S) /\ IsErased(a, i, 2, b)
      <3>0. i < m
        BY <1>2, <1>6, Zenon DEF IsPair
      <3>1. i + 2 <= Len(a) + 1 /\ 2 \in Nat
        BY <1>2, <3>0
      <3> QED
        BY <1>1, <2>1, <3>1, Erased, Zenon
    <2>3. ~(i > m)
      BY <1>6
    <2>4. OneName(s) = [names |-> b, i |-> StepBack(i)]
      BY <1>1, <1>2, <1>6, <2>1, <2>3, Zenon DEF OneName
    <2>5. OneName(s).names = b /\ OneName(s).i = StepBack(i) /\ OneName(s) \in Places(S)
      BY <1>3, <2>2, <2>4 DEF Places
    <2> QED
      BY <1>1, <1>2, <1>6, <2>2, <2>3, <2>5, Zenon DEF IsRound
  <1>7. CASE i <= m /\ a[i] # "." /\ ~IsPair(a, i)
    <2>3. ~(i > m)
      BY <1>7
    <2>4. OneName(s) = [names |-> a, i |-> i + 1]
      BY <1>1, <1>2, <1>7, <2>3, Zenon DEF OneName
    <2>5. OneName(s).names = a /\ OneName(s).i = i + 1 /\ OneName(s) \in Places(S)
      BY <1>1, <2>4 DEF Places
    <2> QED
      BY <1>1, <1>2, <1>7, <2>3, <2>5, Zenon DEF IsRound
  <1>8. i > m \/ i <= m
    OBVIOUS
  <1> QED
    BY <1>4, <1>5, <1>6, <1>7, <1>8, Zenon

(* The rounds of the loop. *)
AreRounds(S, names, R) ==
  /\ R \in [Nat -> Places(S)] /\ R[0] = [names |-> names, i |-> 1]
  /\ \A j, k \in Nat : k = j + 1 => IsRound(R[j].names, R[j].i, R[k].names, R[k].i)

(* Rounds are those. *)
LEMMA RoundsGoOn ==
  ASSUME NEW S, NEW names \in Seq(S)
  PROVE  AreRounds(S, names, Rounds(names))
  <1> DEFINE step == [k \in Nat |-> [s \in Places(S) |-> OneName(s)]]
  <1>0. PICK z : z = [names |-> names, i |-> 1]
    OBVIOUS
  <1>1. step \in [Nat -> [Places(S) -> Places(S)]]
    BY OneNameIsRound
  <1>2. z \in Places(S)
    BY <1>0 DEF Places
  <1>3. PICK f \in [Nat -> Places(S)] :
          f = [k \in Nat |-> IF k = 0 THEN z ELSE step[k][f[k - 1]]]
    <2> HIDE DEF step
    <2>1. \E f : IsRecursion(Places(S), z, step, f)
      BY <1>1, <1>2, Recursion, Zenon
    <2> QED
      BY <2>1, Zenon DEF IsRecursion
  <1>4. f = [k \in Nat |-> IF k = 0 THEN z ELSE OneName(f[k - 1])]
    <2>1. ASSUME NEW k \in Nat
          PROVE  f[k] = IF k = 0 THEN z ELSE OneName(f[k - 1])
      <3>1. CASE k = 0
        BY <1>3, <3>1
      <3>2. CASE k # 0
        <4>1. k - 1 \in Nat
          BY <3>2
        <4>2. f[k] = step[k][f[k - 1]]
          BY <1>3, <3>2
        <4> QED
          BY <3>2, <4>1, <4>2
      <3> QED
        BY <3>1, <3>2
    <2> QED
      BY <1>3, <2>1
  <1>5. PICK g : g = Rounds(names)
    OBVIOUS
  <1>6. g = [k \in Nat |-> IF k = 0 THEN z ELSE OneName(g[k - 1])]
    BY <1>0, <1>4, <1>5 DEF Rounds
  <1>7. g[0] = z /\ \A j, k \in Nat : k = j + 1 => g[k] = OneName(g[j])
    <2>1. g[0] = z
      BY <1>6
    <2>2. ASSUME NEW j \in Nat, NEW k \in Nat, k = j + 1 PROVE g[k] = OneName(g[j])
      <3>1. k # 0 /\ k - 1 = j
        BY <2>2
      <3>2. g[k] = IF k = 0 THEN z ELSE OneName(g[k - 1])
        BY <1>6
      <3> QED
        BY <3>1, <3>2, Zenon
    <2> QED
      BY <2>1, <2>2
  <1> DEFINE K == {k \in Nat : g[k] \in Places(S)}
  <1>8. \A k \in Nat : k \in K
    <2>1. 0 \in K
      BY <1>2, <1>7
    <2>2. ASSUME NEW k \in Nat, k \in K PROVE k + 1 \in K
      <3>1. PICK j \in Nat : j = k + 1
        OBVIOUS
      <3>2. g[j] = OneName(g[k])
        BY <1>7, <3>1
      <3>3. OneName(g[k]) \in Places(S)
        BY <2>2, OneNameIsRound
      <3> QED
        BY <3>1, <3>2, <3>3
    <2> HIDE DEF K
    <2> QED
      BY <2>1, <2>2, AllNumbers
  <1>9. g \in [Nat -> Places(S)]
    <2>1. g = [k \in Nat |-> g[k]]
      BY <1>6
    <2> QED
      BY <1>8, <2>1
  <1>10. ASSUME NEW j \in Nat, NEW k \in Nat, k = j + 1
         PROVE  IsRound(g[j].names, g[j].i, g[k].names, g[k].i)
    <2>1. g[j] \in Places(S)
      BY <1>9
    <2> QED
      BY <1>7, <1>10, <2>1, OneNameIsRound, Zenon
  <1> QED
    BY <1>0, <1>5, <1>7, <1>9, <1>10, Zenon DEF AreRounds

(* A path of any length is resolved to where its names lead. *)
THEOREM NamesResolved ==
  ASSUME NEW S, NEW names \in Seq(S)
  PROVE  ResolveNames(names) = Walks(names)[Len(names)]
  <1>1. PICK U : names \in Seq(U) /\ \A k \in Nat : names[k] \in U
    <2>1. PICK U : U = S \cup {names[k] : k \in Nat}
      OBVIOUS
    <2>2. /\ Len(names) \in Nat /\ \A k \in 1..Len(names) : names[k] \in S
          /\ names = [k \in 1..Len(names) |-> names[k]]
      BY ElementOfSeq, LenProperties
    <2>3. names \in Seq(U)
      BY <2>1, <2>2
    <2> QED
      BY <2>1, <2>3
  <1>2. PICK W : W = Walks(names) /\ IsWalk(U, names, W)
    BY <1>1, WalksWalk, Zenon
  <1>3. PICK R : R = Rounds(names) /\ AreRounds(U, names, R)
    BY <1>1, RoundsGoOn, Zenon
  <1>4. PICK n \in Nat : n = Len(names)
    BY LenProperties
  <1>5. /\ W \in [Nat -> Seq(U)] /\ W[0] = <<>>
        /\ R \in [Nat -> Places(U)] /\ R[0] = [names |-> names, i |-> 1]
        /\ \A j, k \in Nat : k = j + 1 => IsRound(R[j].names, R[j].i, R[k].names, R[k].i)
    BY <1>2, <1>3, Zenon DEF IsWalk, AreRounds
  <1>6. ASSUME NEW k \in Nat PROVE R[k].names \in Seq(U) /\ R[k].i \in Nat
    BY <1>5 DEF Places
  <1> DEFINE J == {k \in Nat :
                     \E p, l, m \in Nat : AtRound(names, W, R[k].names, R[k].i, p, k, l, m, n)}
  <1>7. 0 \in J
    <2>1. AtRound(names, W, names, 1, 0, 0, 0, n, n)
      <3>1. Len(W[0]) = 0
        BY <1>5, EmptySeq
      <3>2. 0 \in 0..n /\ n + 0 = 0 + n /\ 1 = 0 + 1 /\ (1 > n \/ 2 * n + 1 + 0 <= 2 * n + 1)
        OBVIOUS
      <3>3. ASSUME NEW q \in 1..n, NEW r \in 1..n, q + 0 = r + 0 PROVE names[q] = names[r]
        <4>1. q = r
          BY <3>3
        <4> QED
          BY <4>1
      <3>4. ASSUME NEW q \in 1..0 PROVE FALSE
        OBVIOUS
      <3> QED
        BY <1>4, <3>1, <3>2, <3>3, <3>4, Zenon DEF AtRound
    <2>2. R[0].names = names /\ R[0].i = 1
      BY <1>5
    <2>3. 0 \in Nat
      OBVIOUS
    <2> QED
      BY <2>1, <2>2, <2>3, Zenon
  <1>8. ASSUME NEW k \in Nat, k \in J PROVE k + 1 \in J
    <2>1. PICK p \in Nat, l \in Nat, m \in Nat :
            AtRound(names, W, R[k].names, R[k].i, p, k, l, m, n)
      BY <1>8
    <2>2. PICK j \in Nat : j = k + 1
      OBVIOUS
    <2>3. PICK a \in Seq(U), i \in Nat, b \in Seq(U), h \in Nat :
            a = R[k].names /\ i = R[k].i /\ b = R[j].names /\ h = R[j].i
      BY <1>6, Zenon
    <2>4. AtRound(names, W, a, i, p, k, l, m, n) /\ IsRound(a, i, b, h)
      BY <1>5, <2>1, <2>2, <2>3, Zenon
    <2>5. \E o, g, u \in Nat : AtRound(names, W, b, h, o, k + 1, g, u, n)
      BY <1>2, <2>4, OneRound, Zenon
    <2> QED
      BY <2>2, <2>3, <2>5, Zenon
  <1>9. PICK k \in Nat : k = 2 * n
    OBVIOUS
  <1>10. k \in J
    <2> HIDE DEF J
    <2> QED
      BY <1>7, <1>8, AllNumbers
  <1>11. PICK p \in Nat, l \in Nat, m \in Nat, a \in Seq(U), i \in Nat :
           a = R[k].names /\ AtRound(names, W, a, i, p, k, l, m, n)
    BY <1>6, <1>10
  <1>12. /\ l = Len(W[p]) /\ m = Len(a)
         /\ p \in 0..n /\ m + p = l + n
         /\ \A q \in 1..l : a[q] = W[p][q]
         /\ i = l + 1 \/ i = l
         /\ i > m \/ 2 * m + 1 + k <= 2 * n + i
    BY <1>11, Zenon DEF AtRound
  <1>13. p = n /\ l = m
    <2>1. p \in 0..n /\ m + p = l + n /\ (i = l + 1 \/ i = l)
      BY <1>12, Zenon
    <2>2. i > m \/ 2 * m + 1 + k <= 2 * n + i
      BY <1>12, Zenon
    <2>3. i > m
      BY <1>9, <2>2
    <2> QED
      BY <2>1, <2>3
  <1>14. a = W[n]
    <2>1. W[n] \in Seq(U)
      BY <1>5
    <2>2. Len(a) = Len(W[n]) /\ \A q \in 1..Len(a) : a[q] = W[n][q]
      BY <1>12, <1>13, Zenon
    <2> QED
      BY <2>1, <2>2, SeqEqual, Zenon
  <1> QED
    BY <1>2, <1>3, <1>4, <1>9, <1>11, <1>14, Zenon DEF ResolveNames

(* However the bytes come, and whatever memory runs out, the parser has    *)
(* read what was written (PyParser alone).                                 *)
THEOREM ParserInvariance == ParserSpec => []ParserInv
  <1>1. ParserInit => ParserInv
    BY ParserInitially
  <1>2. ParserInv /\ [ParserNext]_parserVars => ParserInv'
    BY ParserStep
  <1> QED
    BY <1>1, <1>2, PTL DEF ParserSpec

(* py_parser_tick loses nothing, invents nothing and stands still only for *)
(* what has not arrived, whatever p4 prints and however it is cut.         *)
THEOREM ParserAlwaysReads == ParserSpec => []ReadsWhatWasWritten
  <1>1. ParserInv => ReadsWhatWasWritten
    BY ReadsAtAll
  <1> QED
    BY <1>1, ParserInvariance, PTL

(* So it does among the other calls of the library.                        *)
THEOREM AlwaysReadsWhatWasWritten == TextSpec => []ReadsWhatWasWritten
  <1>1. TextInit => ParserInv
    BY ParserInitially DEF TextInit
  <1>2. ParserInv /\ [TextNext]_<<parserVars, call>> => ParserInv'
    <2> SUFFICES ASSUME ParserInv, [TextNext]_<<parserVars, call>> PROVE ParserInv'
      OBVIOUS
    <2>1. [ParserNext]_parserVars
      BY Zenon DEF TextNext
    <2> QED
      BY <2>1, ParserStep, Zenon
  <1>3. ParserInv => ReadsWhatWasWritten
    BY ReadsAtAll
  <1> QED
    BY <1>1, <1>2, <1>3, PTL DEF TextSpec

----------------------------------------------------------------------------
(* What has been called, and what it returned. *)
U32Called ==
  call.fn = "random_get_u32_range" =>
    \E p \in Below(U32s) :
      call.arg = p /\ call.result = [r \in U32s |-> GetU32Range(r, p[1], p[2])]
S32Called ==
  call.fn = "random_get_s32_range" =>
    \E p \in Below(S32s) :
      /\ p[2] - p[1] \in S32s
      /\ call.arg = p /\ call.result = [r \in U32s |-> GetS32Range(r, p[1], p[2])]
PathCalled ==
  call.fn = "path_resolve_inplace" =>
    \E p \in MCPath : call.arg = p /\ call.result = Resolve(p)
LineCalled ==
  call.fn = "cmdline_init_composite" =>
    \E s \in MCLine : call.arg = s /\ call.result = InitComposite(s)
OutputCalled ==
  call.fn = "buildCommands_printBuffer" =>
    \E s \in MCOutput : call.arg = s /\ call.result = PrintBuffer(s)
Calls == U32Called /\ S32Called /\ PathCalled /\ LineCalled /\ OutputCalled

(* A call returns what its function computes. *)
LEMMA CallsInvariance == TextSpec => []Calls
  <1> USE DEF Calls
  <1>1. TextInit => Calls
    BY DEF TextInit, NoCall, U32Called, S32Called, PathCalled, LineCalled, OutputCalled
  <1>2. Calls /\ [TextNext]_<<parserVars, call>> => Calls'
    <2> SUFFICES ASSUME Calls, TextNext, LibraryCall PROVE Calls'
      <3>1. CASE UNCHANGED call
        BY <3>1, Zenon DEF U32Called, S32Called, PathCalled, LineCalled, OutputCalled
      <3> QED
        BY <3>1, Zenon DEF TextNext
    <2>1. ASSUME NEW p \in Below(U32s),
                 Called("random_get_u32_range", p, [r \in U32s |-> GetU32Range(r, p[1], p[2])])
          PROVE  Calls'
      <3>1. PICK f : f = [r \in U32s |-> GetU32Range(r, p[1], p[2])]
        OBVIOUS
      <3>2. call' = [fn |-> "random_get_u32_range", arg |-> p, result |-> f]
        BY <2>1, <3>1, Zenon DEF Called
      <3>3. call'.fn = "random_get_u32_range" /\ call'.arg = p /\ call'.result = f
        BY <3>2
      <3>4. U32Called'
        BY <3>1, <3>3, Zenon DEF U32Called
      <3>5. /\ call'.fn # "random_get_s32_range" /\ call'.fn # "path_resolve_inplace"
            /\ call'.fn # "cmdline_init_composite" /\ call'.fn # "buildCommands_printBuffer"
        BY <3>3
      <3> QED
        BY <3>4, <3>5, Zenon DEF S32Called, PathCalled, LineCalled, OutputCalled
    <2>2. ASSUME NEW p \in Below(S32s), p[2] - p[1] \in S32s,
                 Called("random_get_s32_range", p, [r \in U32s |-> GetS32Range(r, p[1], p[2])])
          PROVE  Calls'
      <3>1. PICK f : f = [r \in U32s |-> GetS32Range(r, p[1], p[2])]
        OBVIOUS
      <3>2. call' = [fn |-> "random_get_s32_range", arg |-> p, result |-> f]
        BY <2>2, <3>1, Zenon DEF Called
      <3>3. call'.fn = "random_get_s32_range" /\ call'.arg = p /\ call'.result = f
        BY <3>2
      <3>4. S32Called'
        BY <2>2, <3>1, <3>3, Zenon DEF S32Called
      <3>5. /\ call'.fn # "random_get_u32_range" /\ call'.fn # "path_resolve_inplace"
            /\ call'.fn # "cmdline_init_composite" /\ call'.fn # "buildCommands_printBuffer"
        BY <3>3
      <3> QED
        BY <3>4, <3>5, Zenon DEF U32Called, PathCalled, LineCalled, OutputCalled
    <2>3. ASSUME NEW p \in MCPath,
                 Called("path_resolve_inplace", p, Resolve(p))
          PROVE  Calls'
      <3>1. PICK f : f = Resolve(p)
        OBVIOUS
      <3>2. call' = [fn |-> "path_resolve_inplace", arg |-> p, result |-> f]
        BY <2>3, <3>1, Zenon DEF Called
      <3>3. call'.fn = "path_resolve_inplace" /\ call'.arg = p /\ call'.result = f
        BY <3>2
      <3>4. PathCalled'
        BY <3>1, <3>3, Zenon DEF PathCalled
      <3>5. /\ call'.fn # "random_get_u32_range" /\ call'.fn # "random_get_s32_range"
            /\ call'.fn # "cmdline_init_composite" /\ call'.fn # "buildCommands_printBuffer"
        BY <3>3
      <3> QED
        BY <3>4, <3>5, Zenon DEF U32Called, S32Called, LineCalled, OutputCalled
    <2>4. ASSUME NEW s \in MCLine,
                 Called("cmdline_init_composite", s, InitComposite(s))
          PROVE  Calls'
      <3>1. PICK f : f = InitComposite(s)
        OBVIOUS
      <3>2. call' = [fn |-> "cmdline_init_composite", arg |-> s, result |-> f]
        BY <2>4, <3>1, Zenon DEF Called
      <3>3. call'.fn = "cmdline_init_composite" /\ call'.arg = s /\ call'.result = f
        BY <3>2
      <3>4. LineCalled'
        BY <3>1, <3>3, Zenon DEF LineCalled
      <3>5. /\ call'.fn # "random_get_u32_range" /\ call'.fn # "random_get_s32_range"
            /\ call'.fn # "path_resolve_inplace" /\ call'.fn # "buildCommands_printBuffer"
        BY <3>3
      <3> QED
        BY <3>4, <3>5, Zenon DEF U32Called, S32Called, PathCalled, OutputCalled
    <2>5. ASSUME NEW s \in MCOutput,
                 Called("buildCommands_printBuffer", s, PrintBuffer(s))
          PROVE  Calls'
      <3>1. PICK f : f = PrintBuffer(s)
        OBVIOUS
      <3>2. call' = [fn |-> "buildCommands_printBuffer", arg |-> s, result |-> f]
        BY <2>5, <3>1, Zenon DEF Called
      <3>3. call'.fn = "buildCommands_printBuffer" /\ call'.arg = s /\ call'.result = f
        BY <3>2
      <3>4. OutputCalled'
        BY <3>1, <3>3, Zenon DEF OutputCalled
      <3>5. /\ call'.fn # "random_get_u32_range" /\ call'.fn # "random_get_s32_range"
            /\ call'.fn # "path_resolve_inplace" /\ call'.fn # "cmdline_init_composite"
        BY <3>3
      <3> QED
        BY <3>4, <3>5, Zenon DEF U32Called, S32Called, PathCalled, LineCalled
    <2> QED
      BY <2>1, <2>2, <2>3, <2>4, <2>5, Zenon DEF LibraryCall
  <1> QED
    BY <1>1, <1>2, PTL DEF TextSpec

(* random_get_u32_range and random_get_s32_range favour no number of their *)
(* range, for words of any even number of values (HalfAssumption).         *)
THEOREM RangeIsAlwaysFair == TextSpec => []RangeIsFair
  <1>1. Calls => RangeIsFair
    <2> SUFFICES ASSUME Calls, call.fn \in {"random_get_u32_range", "random_get_s32_range"}
                 PROVE  IsFair(call.result, call.arg[1], call.arg[2])
      BY Zenon DEF RangeIsFair, IsFair
    <2>1. CASE call.fn = "random_get_u32_range"
      <3>1. PICK p \in Below(U32s) :
              call.arg = p /\ call.result = [r \in U32s |-> GetU32Range(r, p[1], p[2])]
        BY <2>1, Zenon DEF Calls, U32Called
      <3> QED
        BY <3>1, FairU32, Zenon
    <2>2. CASE call.fn = "random_get_s32_range"
      <3>1. PICK p \in Below(S32s) :
              /\ p[2] - p[1] \in S32s
              /\ call.arg = p /\ call.result = [r \in U32s |-> GetS32Range(r, p[1], p[2])]
        BY <2>2, Zenon DEF Calls, S32Called
      <3> QED
        BY <3>1, FairS32, Zenon
    <2> QED
      BY <2>1, <2>2
  <1> QED
    BY <1>1, CallsInvariance, PTL

(* path_resolve_inplace leaves a path that leads where the names led: two  *)
(* names of a file become the same key of the dependency table.            *)
THEOREM AlwaysWhereItLeads == TextSpec => []ResolvedIsWhereItLeads
  <1>1. Calls => ResolvedIsWhereItLeads
    <2> SUFFICES ASSUME Calls, call.fn = "path_resolve_inplace"
                 PROVE  call.result = [lead |-> call.arg.lead,
                                       names |-> Walks(call.arg.names)[Len(call.arg.names)]]
      BY Zenon DEF ResolvedIsWhereItLeads
    <2>1. PICK p \in MCPath : call.arg = p /\ call.result = Resolve(p)
      BY Zenon DEF Calls, PathCalled
    <2>2. p.names \in Seq({".", "..", "a", "b"})
      <3>1. PICK S : S = {".", "..", "a", "b"}
        OBVIOUS
      <3>2. p.names \in SeqOf(S, 5)
        BY <3>1 DEF MCPath
      <3>3. PICK m \in 0..5 : p.names \in [1..m -> S]
        BY <3>2, Zenon DEF SeqOf
      <3>4. p.names \in Seq(S)
        BY <3>3
      <3> QED
        BY <3>1, <3>4, Zenon
    <2>3. ResolveNames(p.names) = Walks(p.names)[Len(p.names)]
      BY <2>2, NamesResolved, Zenon
    <2> QED
      BY <2>1, <2>3, Zenon DEF Resolve
  <1> QED
    BY <1>1, CallsInvariance, PTL

----------------------------------------------------------------------------
(* Lines: where the calls of tokenizeLine cut an output.                   *)

(* Some numbers have a least one, and when there is a bound a greatest.    *)
LEMMA LeastNumber ==
  ASSUME NEW S, S \subseteq Nat, NEW n \in S
  PROVE  Min(S) \in S /\ \A m \in S : Min(S) <= m
  <1>1. PICK x \in S : \A y \in S : <<y, x>> \notin OpToRel(<, Nat)
    BY NatLessThanWellFounded, WFMin
  <1>2. ASSUME NEW y \in S PROVE x <= y
    <2>1. x \in Nat /\ y \in Nat
      OBVIOUS
    <2>2. ~(y < x)
      BY <1>1, <2>1 DEF OpToRel
    <2> QED
      BY <2>1, <2>2
  <1> QED
    BY <1>2 DEF Min

LEMMA GreatestNumber ==
  ASSUME NEW b \in Nat, NEW S, S \subseteq 0..b, NEW n \in S
  PROVE  Max(S) \in S /\ \A m \in S : m <= Max(S)
  <1>1. PICK T : T = {k \in Nat : b - k \in S}
    OBVIOUS
  <1>2. b - n \in T
    BY <1>1
  <1>3. PICK k \in T : \A m \in T : k <= m
    BY <1>1, <1>2, LeastNumber
  <1>4. PICK x \in S : x = b - k
    BY <1>1, <1>3
  <1>5. ASSUME NEW m \in S PROVE m <= x
    <2>1. m \in 0..b /\ b - m \in Nat /\ b - (b - m) = m
      OBVIOUS
    <2>2. b - m \in T
      BY <1>1, <2>1
    <2>3. k <= b - m /\ k \in Nat
      BY <1>1, <1>3, <2>2
    <2> QED
      BY <1>4, <2>1, <2>3
  <1>6. \A m \in S : x >= m
    BY <1>5
  <1> QED
    BY <1>5, <1>6 DEF Max

(* An output, and the buffer it is in. *)
IsOutput(s, T, l, buf) ==
  /\ s \in Seq(T) /\ "nul" \notin T /\ l \in Nat /\ l = Len(s)
  /\ buf = Buffer(s) /\ buf \in Seq(T \cup {"nul"}) /\ Len(buf) = l + 1
  /\ buf[l + 1] = "nul" /\ \A q \in 1..l : buf[q] = s[q] /\ s[q] \in T /\ s[q] # "nul"

LEMMA OutputBuffer ==
  ASSUME NEW T, "nul" \notin T, NEW s \in Seq(T)
  PROVE  IsOutput(s, T, Len(s), Buffer(s))
  <1>1. PICK N : N = T \cup {"nul"}
    OBVIOUS
  <1>2. s \in Seq(N) /\ "nul" \in N /\ Len(s) \in Nat
    BY <1>1, LenProperties
  <1>3. PICK buf : buf = Append(s, "nul")
    OBVIOUS
  <1>4. buf \in Seq(N) /\ Len(buf) = Len(s) + 1 /\ buf[Len(s) + 1] = "nul"
        /\ \A q \in 1..Len(s) : buf[q] = s[q]
    BY <1>2, <1>3, AppendProperties
  <1>5. \A q \in 1..Len(s) : s[q] \in T /\ s[q] # "nul"
    BY ElementOfSeq
  <1> QED
    BY <1>1, <1>2, <1>3, <1>4, <1>5, Zenon DEF IsOutput, Buffer

LEMMA EndsAre ==
  ASSUME NEW s, NEW T, NEW l, NEW buf, IsOutput(s, T, l, buf)
  PROVE  /\ Ends(s) \subseteq 1..l /\ IsFiniteSet(Ends(s))
         /\ \A j \in 1..(l + 1) : (buf[j] = "nl" \/ (buf[j] = "cr" /\ buf[j + 1] # "nl"))
                                     <=> j \in Ends(s)
  <1>1. /\ l \in Nat /\ l = Len(s) /\ Len(buf) = l + 1 /\ buf[l + 1] = "nul"
        /\ \A q \in 1..l : buf[q] = s[q]
    BY Zenon DEF IsOutput
  <1>2. DOMAIN s = 1..l
    BY <1>1 DEF IsOutput
  <1>3. Ends(s) \subseteq 1..l
    BY <1>2, Zenon DEF Ends
  <1>4. IsFiniteSet(Ends(s))
    <2>1. IsFiniteSet(1..l)
      BY <1>1, FS_Interval, 1 \in Int, l \in Int
    <2> QED
      BY <1>3, <2>1, FS_Subset, Zenon
  <1>5. ASSUME NEW j \in 1..l
        PROVE  buf[j] = "nl" \/ (buf[j] = "cr" /\ buf[j + 1] # "nl") <=> j \in Ends(s)
    <2>1. buf[j] = s[j]
      BY <1>1
    <2>2. buf[j + 1] # "nl" <=> ~(j < l /\ s[j + 1] = "nl")
      <3>1. CASE j < l
        <4>1. j + 1 \in 1..l
          BY <1>1, <3>1
        <4> QED
          BY <1>1, <3>1, <4>1
      <3>2. CASE ~(j < l)
        <4>1. j = l
          BY <1>1, <3>2
        <4> QED
          BY <1>1, <3>2, <4>1
      <3> QED
        BY <3>1, <3>2
    <2> QED
      BY <1>1, <1>2, <2>1, <2>2, Zenon DEF Ends
  <1>6. ASSUME NEW j \in 1..(l + 1), j \notin 1..l
        PROVE  ~(buf[j] = "nl" \/ (buf[j] = "cr" /\ buf[j + 1] # "nl")) /\ j \notin Ends(s)
    <2>1. j = l + 1
      BY <1>1, <1>6
    <2> QED
      BY <1>1, <1>3, <1>6, <2>1
  <1> QED
    BY <1>3, <1>4, <1>5, <1>6, Zenon

(* tokenizeLine finds the next end, or else the place behind the "nul". *)
LEMMA LineEndIs ==
  ASSUME NEW s, NEW T, NEW l, NEW buf, IsOutput(s, T, l, buf), NEW b \in 1..(l + 1)
  PROVE  \/ /\ LineEnd(buf, b) \in Ends(s) /\ b <= LineEnd(buf, b) /\ LineEnd(buf, b) <= l
            /\ \A f \in Ends(s) : b <= f => LineEnd(buf, b) <= f
         \/ LineEnd(buf, b) = l + 2 /\ \A f \in Ends(s) : f < b
  <1>0. l \in Nat /\ Len(buf) = l + 1 /\ Ends(s) \subseteq 1..l
    <2>1. l \in Nat /\ Len(buf) = l + 1
      BY Zenon DEF IsOutput
    <2>2. Ends(s) \subseteq 1..l
      BY EndsAre, Zenon
    <2> QED
      BY <2>1, <2>2
  <1>1. l \in Nat /\ Len(buf) + 1 = l + 2 /\ Len(buf) = l + 1 /\ Ends(s) \subseteq 1..l
    BY <1>0
  <1>2. PICK M : M = {l + 2} \cup {f \in Ends(s) : b <= f}
    OBVIOUS
  <1>3. {j \in b..(l + 1) : buf[j] = "nl" \/ (buf[j] = "cr" /\ buf[j + 1] # "nl")}
          = {f \in Ends(s) : b <= f}
    <2>1. \A j : j \in b..(l + 1) <=> j \in 1..(l + 1) /\ b <= j
      BY <1>1
    <2>2. \A f \in Ends(s) : f \in 1..(l + 1)
      BY <1>1
    <2> QED
      BY <2>1, <2>2, EndsAre, Zenon
  <1>4. LineEnd(buf, b) = Min(M)
    <2>1. LineEnd(buf, b)
            = Min({l + 2} \cup
                  {j \in b..(l + 1) : buf[j] = "nl" \/ (buf[j] = "cr" /\ buf[j + 1] # "nl")})
      BY <1>1, Zenon DEF LineEnd
    <2> QED
      BY <1>2, <1>3, <2>1, Zenon
  <1>5. M \subseteq Nat /\ l + 2 \in M
    BY <1>1, <1>2
  <1>6. PICK e \in M : e = Min(M) /\ \A m \in M : e <= m
    BY <1>5, LeastNumber
  <1>7. CASE e \in Ends(s)
    <2>1. b <= e /\ e <= l
      <3>1. e <= l /\ e # l + 2
        BY <1>1, <1>7
      <3> QED
        BY <1>2, <1>6, <3>1
    <2> QED
      BY <1>2, <1>4, <1>6, <1>7, <2>1, Zenon
  <1>8. CASE e \notin Ends(s)
    <2>1. e = l + 2
      BY <1>2, <1>6, <1>8
    <2>2. ASSUME NEW f \in Ends(s) PROVE f < b
      <3>1. ~(l + 2 <= f) /\ f \in Nat
        BY <1>1
      <3>2. ~(b <= f)
        BY <1>2, <1>6, <2>1, <3>1
      <3> QED
        BY <1>1, <3>1, <3>2
    <2> QED
      BY <1>4, <1>6, <2>1, <2>2
  <1> QED
    BY <1>7, <1>8

(* What C sees of a buffer from i on. *)
LEMMA CStringFrom ==
  ASSUME NEW N, NEW b \in Seq(N), NEW l \in Nat, l = Len(b), NEW i \in 1..l, NEW e \in i..l,
         b[e] = "nul", \A q \in i..l : q < e => b[q] # "nul"
  PROVE  CString(b, i) = SubSeq(b, i, e - 1)
  <1>1. PICK M : M = {j \in i..l : b[j] \in {} \cup {"nul"}}
    OBVIOUS
  <1>2. M \subseteq Nat /\ e \in M
    BY <1>1
  <1>3. PICK m \in M : m = Min(M) /\ \A j \in M : m <= j
    BY <1>2, LeastNumber
  <1>4. m = e
    <2>1. m \in i..l /\ m <= e /\ b[m] = "nul"
      BY <1>1, <1>2, <1>3
    <2>2. ~(m < e)
      BY <2>1
    <2> QED
      BY <2>1, <2>2
  <1>5. FirstOf(b, i, {}) = e
    BY <1>1, <1>3, <1>4, Zenon DEF FirstOf
  <1> QED
    BY <1>5, Zenon DEF CString

(* The part of an output from b to e - 1, with a "nul" behind it. *)
LEMMA Printing ==
  ASSUME NEW s, NEW T, NEW l, NEW buf, IsOutput(s, T, l, buf),
         NEW b \in 1..(l + 1), NEW e \in Nat, b <= e, e <= l + 2, NEW c \in Nat,
         c = IF e = l + 2 THEN l + 1 ELSE e
  PROVE  CString(Append(SubSeq(buf, b, e - 1), "nul"), 1) = SubSeq(s, b, c - 1)
  <1>1. PICK N : N = T \cup {"nul"}
    OBVIOUS
  <1>2. /\ l \in Nat /\ Len(buf) = l + 1 /\ buf \in Seq(N) /\ "nul" \in N /\ buf[l + 1] = "nul"
        /\ s \in Seq(T) /\ l = Len(s) /\ \A q \in 1..l : buf[q] = s[q] /\ s[q] \in T /\ s[q] # "nul"
    BY <1>1, Zenon DEF IsOutput
  <1>3. b <= c /\ c <= l + 1 /\ c <= e
    BY <1>2
  <1>4. PICK n \in Nat, d \in Nat : n = c - b /\ d = e - b /\ n <= d
    <2>1. c - b \in Nat /\ e - b \in Nat /\ c - b <= e - b
      BY <1>2, <1>3
    <2> QED
      BY <2>1
  <1>5. PICK t : t = SubSeq(buf, b, e - 1)
    OBVIOUS
  <1>6. t \in Seq(N) /\ Len(t) = d /\ \A q \in 1..d : t[q] = buf[b + q - 1]
    <2>1. b \in Int /\ e - 1 \in Int
      BY <1>2
    <2>2. \A q \in b..(e - 1) : buf[q] \in N
      <3>1. \A q \in 1..(l + 1) : buf[q] \in N
        BY <1>2, ElementOfSeq
      <3>2. \A q \in b..(e - 1) : q \in 1..(l + 1)
        BY <1>2
      <3> QED
        BY <3>1, <3>2, Zenon
    <2>3. /\ t \in Seq(N)
          /\ Len(t) = IF b <= e - 1 THEN (e - 1) - b + 1 ELSE 0
          /\ \A q \in 1..((e - 1) - b + 1) : t[q] = buf[b + q - 1]
      BY <1>5, <2>1, <2>2, SubSeqProperties
    <2> QED
      BY <1>2, <1>4, <2>3
  <1>7. PICK z : z = Append(t, "nul")
    OBVIOUS
  <1>8. z \in Seq(N) /\ Len(z) = d + 1 /\ z[d + 1] = "nul" /\ \A q \in 1..d : z[q] = t[q]
    BY <1>2, <1>6, <1>7, AppendProperties
  <1>9. ASSUME NEW q \in 1..n PROVE z[q] = s[b + q - 1] /\ z[q] # "nul" /\ b + q - 1 \in 1..l
    <2>1. q \in 1..d /\ b + q - 1 \in 1..l
      BY <1>2, <1>3, <1>4
    <2>2. PICK r \in 1..l : r = b + q - 1
      BY <2>1
    <2>3. z[q] = buf[r]
      BY <1>6, <1>8, <2>1, <2>2
    <2> QED
      BY <1>2, <2>2, <2>3
  <1>10. z[n + 1] = "nul" /\ n + 1 <= Len(z)
    <2>1. CASE e = l + 2
      <3>1. d = n + 1 /\ b + d - 1 = l + 1 /\ d \in 1..d
        BY <1>2, <1>4, <2>1
      <3>2. z[d] = buf[l + 1]
        BY <1>6, <1>8, <3>1
      <3> QED
        BY <1>2, <1>8, <3>1, <3>2
    <2>2. CASE e # l + 2
      <3>1. d = n
        BY <1>4, <2>2
      <3> QED
        BY <1>8, <3>1
    <2> QED
      BY <2>1, <2>2
  <1>11. CString(z, 1) = SubSeq(z, 1, n)
    <2>1. PICK p \in Nat : p = d + 1 /\ p = Len(z)
      BY <1>8
    <2>2. PICK o \in 1..p, f \in 1..p : o = 1 /\ f = n + 1 /\ f - 1 = n /\ f \in o..p
      <3>1. 1 \in 1..p /\ n + 1 \in 1..p /\ (n + 1) - 1 = n
        BY <1>4, <2>1
      <3> QED
        BY <3>1
    <2>3. z[f] = "nul"
      BY <1>10, <2>2, Zenon
    <2>4. \A q \in o..p : q < f => z[q] # "nul"
      <3>1. \A q \in o..p : q < f => q \in 1..n
        BY <2>2
      <3> QED
        BY <1>9, <3>1, Zenon
    <2>5. CString(z, o) = SubSeq(z, o, f - 1)
      BY <1>8, <2>1, <2>2, <2>3, <2>4, CStringFrom, Zenon
    <2> QED
      BY <2>2, <2>5, Zenon
  <1>12. PICK x : x = SubSeq(z, 1, n)
    OBVIOUS
  <1>13. x \in Seq(N) /\ Len(x) = n /\ \A q \in 1..n : x[q] = z[q]
    <2>1. 1 \in Int /\ n \in Int
      OBVIOUS
    <2>2. \A q \in 1..n : z[q] \in N
      <3>1. \A q \in 1..Len(z) : z[q] \in N
        BY <1>8, ElementOfSeq
      <3>2. \A q \in 1..n : q \in 1..Len(z)
        BY <1>4, <1>8
      <3> QED
        BY <3>1, <3>2, Zenon
    <2>3. /\ x \in Seq(N)
          /\ Len(x) = IF 1 <= n THEN n - 1 + 1 ELSE 0
          /\ \A q \in 1..(n - 1 + 1) : x[q] = z[1 + q - 1]
      BY <1>12, <2>1, <2>2, SubSeqProperties
    <2> QED
      BY <2>3
  <1>14. PICK y : y = SubSeq(s, b, c - 1)
    OBVIOUS
  <1>15. y \in Seq(T) /\ Len(y) = n /\ \A q \in 1..n : y[q] = s[b + q - 1]
    <2>1. b \in Int /\ c - 1 \in Int
      OBVIOUS
    <2>2. \A q \in b..(c - 1) : s[q] \in T
      <3>1. \A q \in b..(c - 1) : q \in 1..l
        BY <1>2, <1>3
      <3> QED
        BY <1>2, <3>1, Zenon
    <2>3. /\ y \in Seq(T)
          /\ Len(y) = IF b <= c - 1 THEN (c - 1) - b + 1 ELSE 0
          /\ \A q \in 1..((c - 1) - b + 1) : y[q] = s[b + q - 1]
      BY <1>14, <2>1, <2>2, SubSeqProperties
    <2> QED
      BY <1>3, <1>4, <2>3
  <1>16. y \in Seq(N)
    <2>1. T \subseteq N
      BY <1>1
    <2> QED
      BY <1>15, <2>1
  <1>17. x = y
    <2>1. Len(x) = Len(y) /\ \A q \in 1..Len(x) : x[q] = y[q]
      BY <1>9, <1>13, <1>15, Zenon
    <2> QED
      BY <1>13, <1>16, <2>1, SeqEqual, Zenon
  <1> QED
    BY <1>5, <1>7, <1>11, <1>12, <1>14, <1>17, Zenon

(* What is between two places of a sequence. *)
LEMMA Part ==
  ASSUME NEW T, NEW s \in Seq(T), NEW b \in Nat, NEW c \in Nat, 1 <= b, b <= c + 1, c <= Len(s)
  PROVE  /\ SubSeq(s, b, c) \in Seq(T) /\ Len(SubSeq(s, b, c)) = c + 1 - b
         /\ \A q \in 1..(c + 1 - b) : SubSeq(s, b, c)[q] = s[b + q - 1]
  <1>1. b \in Int /\ c \in Int
    OBVIOUS
  <1>2. \A q \in b..c : s[q] \in T
    <2>1. PICK l \in Nat : l = Len(s) /\ \A q \in 1..l : s[q] \in T
      BY ElementOfSeq, LenProperties
    <2>2. \A q \in b..c : q \in 1..l
      BY <2>1
    <2> QED
      BY <2>1, <2>2, Zenon
  <1>3. PICK x : x = SubSeq(s, b, c)
    OBVIOUS
  <1>4. /\ x \in Seq(T)
        /\ Len(x) = IF b <= c THEN c - b + 1 ELSE 0
        /\ \A q \in 1..(c - b + 1) : x[q] = s[b + q - 1]
    BY <1>1, <1>2, <1>3, SubSeqProperties
  <1>5. Len(x) = c + 1 - b /\ c - b + 1 = c + 1 - b
    BY <1>4
  <1> QED
    BY <1>3, <1>4, <1>5, Zenon

(* What buildCommands_printBuffer prints of a line: what is before its     *)
(* end, without a return; the last line, when nothing ends it, whole.      *)
LEMMA LineIs ==
  ASSUME NEW s, NEW T, NEW l, NEW buf, IsOutput(s, T, l, buf), NEW b \in 1..(l + 1)
  PROVE  /\ Line(buf, b) \in Seq(T)
         /\ LineEnd(buf, b) \in Ends(s) => Line(buf, b) = Bare(SubSeq(s, b, LineEnd(buf, b) - 1))
         /\ LineEnd(buf, b) = l + 2 => Line(buf, b) = SubSeq(s, b, l)
  <1>1. /\ l \in Nat /\ Len(buf) = l + 1 /\ buf[l + 1] = "nul"
        /\ s \in Seq(T) /\ l = Len(s) /\ \A q \in 1..l : buf[q] = s[q] /\ s[q] \in T /\ s[q] # "nul"
    BY Zenon DEF IsOutput
  <1>2. PICK e : e = LineEnd(buf, b)
    OBVIOUS
  <1>3. (e \in Ends(s) /\ b <= e /\ e <= l) \/ e = l + 2
    <2>1. \/ /\ LineEnd(buf, b) \in Ends(s) /\ b <= LineEnd(buf, b) /\ LineEnd(buf, b) <= l
             /\ \A f \in Ends(s) : b <= f => LineEnd(buf, b) <= f
          \/ LineEnd(buf, b) = l + 2 /\ \A f \in Ends(s) : f < b
      BY LineEndIs
    <2> QED
      BY <1>2, <2>1, Zenon
  <1>4. Ends(s) \subseteq 1..l
    BY EndsAre, Zenon
  <1>5. e \in Nat /\ b <= e /\ e <= l + 2
    BY <1>1, <1>3, <1>4
  <1>6. PICK t : t = IF e > b /\ buf[e - 1] = "cr" THEN e - 1 ELSE e
    OBVIOUS
  <1>7. t \in Nat /\ b <= t /\ t <= l + 2
    BY <1>1, <1>5, <1>6
  <1>8. Line(buf, b) = CString(Append(SubSeq(buf, b, t - 1), "nul"), 1)
    BY <1>2, <1>6, Zenon DEF Line
  <1>12. ASSUME NEW c \in Nat, c = IF t = l + 2 THEN l + 1 ELSE t
         PROVE  Line(buf, b) = SubSeq(s, b, c - 1)
    <2>1. CString(Append(SubSeq(buf, b, t - 1), "nul"), 1) = SubSeq(s, b, c - 1)
      BY <1>7, <1>12, Printing
    <2> QED
      BY <1>8, <2>1, Zenon
  <1>11. e \in Ends(s) => e # l + 2
    BY <1>1, <1>4
  <1>9. CASE e = l + 2
    <2>1. e - 1 = l + 1 /\ e \notin Ends(s)
      BY <1>1, <1>4, <1>9
    <2>2. t = l + 2
      BY <1>1, <1>6, <1>9, <2>1
    <2>3. l + 1 = IF t = l + 2 THEN l + 1 ELSE t
      BY <2>2
    <2>4. l + 1 \in Nat /\ (l + 1) - 1 = l
      BY <1>1
    <2>5. Line(buf, b) = SubSeq(s, b, (l + 1) - 1)
      BY <2>3, <2>4, <1>12, Zenon
    <2>6. Line(buf, b) = SubSeq(s, b, l)
      BY <2>4, <2>5
    <2>7. SubSeq(s, b, l) \in Seq(T)
      <3>1. b \in Nat /\ 1 <= b /\ b <= l + 1 /\ l <= Len(s)
        BY <1>1
      <3> QED
        BY <1>1, <3>1, Part
    <2> QED
      BY <1>2, <2>1, <2>6, <2>7, Zenon
  <1>10. CASE e \in Ends(s) /\ e <= l
    <2>0. t \in Nat /\ t # l + 2 /\ t <= l
      BY <1>1, <1>5, <1>6, <1>10
    <2>1. Line(buf, b) = SubSeq(s, b, t - 1)
      <3>1. t = IF t = l + 2 THEN l + 1 ELSE t
        BY <2>0, Zenon
      <3> QED
        BY <2>0, <3>1, <1>12, Zenon
    <2>2. PICK x : x = SubSeq(s, b, e - 1)
      OBVIOUS
    <2>3. PICK d \in Nat : d = e - b
      BY <1>5
    <2>4. x \in Seq(T) /\ Len(x) = d /\ \A q \in 1..d : x[q] = s[b + q - 1]
      <3>1. b \in Nat /\ e - 1 \in Nat /\ 1 <= b /\ b <= (e - 1) + 1 /\ e - 1 <= Len(s)
        BY <1>1, <1>5, <1>10
      <3>2. (e - 1) + 1 - b = d
        BY <1>5, <2>3
      <3>3. /\ x \in Seq(T) /\ Len(x) = (e - 1) + 1 - b
            /\ \A q \in 1..((e - 1) + 1 - b) : x[q] = s[b + q - 1]
        BY <1>1, <2>2, <3>1, Part
      <3> QED
        BY <3>2, <3>3
    <2>5. CASE d # 0 /\ s[e - 1] = "cr"
      <3>1. e > b /\ e - 1 \in 1..l
        BY <1>1, <1>5, <1>10, <2>3, <2>5
      <3>2. t = e - 1
        BY <1>1, <1>6, <2>5, <3>1
      <3>3. x # <<>>
        <4>1. Len(x) # 0
          BY <2>4, <2>5, Zenon
        <4> QED
          BY <2>4, <4>1, EmptySeq, Zenon
      <3>4. Last(x) = "cr"
        <4>1. d \in 1..d /\ b + d - 1 = e - 1
          BY <1>5, <2>3, <2>5
        <4>2. x[d] = s[e - 1]
          BY <2>4, <4>1
        <4> QED
          BY <2>4, <2>5, <4>2, Zenon DEF Last
      <3>5. PICK n \in Nat : n = d - 1 /\ d = n + 1
        BY <2>3, <2>5
      <3>6. PICK f : f = SubSeq(x, 1, n)
        OBVIOUS
      <3>7. Bare(x) = f
        <4>1. Len(x) - 1 = n
          BY <2>4, <3>5
        <4> QED
          BY <3>3, <3>4, <3>6, <4>1 DEF Bare, Front
      <3>8. f \in Seq(T) /\ Len(f) = n /\ \A q \in 1..n : f[q] = x[q]
        <4>1. 1 \in Nat /\ 1 <= n + 1 /\ n <= Len(x) /\ 1 <= 1
          BY <2>4, <3>5
        <4>2. n + 1 - 1 = n /\ \A q \in 1..n : 1 + q - 1 = q
          OBVIOUS
        <4>3. f \in Seq(T) /\ Len(f) = n + 1 - 1 /\ \A q \in 1..(n + 1 - 1) : f[q] = x[1 + q - 1]
          BY <2>4, <3>6, <4>1, Part
        <4> QED
          BY <4>2, <4>3
      <3>9. PICK y : y = SubSeq(s, b, t - 1)
        OBVIOUS
      <3>10. y \in Seq(T) /\ Len(y) = n /\ \A q \in 1..n : y[q] = s[b + q - 1]
        <4>1. b \in Nat /\ t - 1 \in Nat /\ 1 <= b /\ b <= (t - 1) + 1 /\ t - 1 <= Len(s)
          BY <1>1, <1>5, <1>7, <1>10, <3>1, <3>2
        <4>2. (t - 1) + 1 - b = n
          BY <1>5, <2>3, <3>2, <3>5
        <4>3. /\ y \in Seq(T) /\ Len(y) = (t - 1) + 1 - b
              /\ \A q \in 1..((t - 1) + 1 - b) : y[q] = s[b + q - 1]
          BY <1>1, <3>9, <4>1, Part
        <4> QED
          BY <4>2, <4>3
      <3>11. y = f
        <4>1. \A q \in 1..n : q \in 1..d
          BY <3>5
        <4>2. Len(y) = Len(f) /\ \A q \in 1..Len(y) : y[q] = f[q]
          BY <2>4, <3>8, <3>10, <4>1, Zenon
        <4> QED
          BY <3>8, <3>10, <4>2, SeqEqual, Zenon
      <3> QED
        BY <1>2, <1>10, <1>11, <2>1, <2>2, <3>7, <3>9, <3>10, <3>11, Zenon
    <2>6. CASE ~(d # 0 /\ s[e - 1] = "cr")
      <3>1. t = e
        <4>1. CASE d = 0
          <5>1. ~(e > b)
            BY <1>5, <2>3, <4>1
          <5> QED
            BY <1>6, <5>1, Zenon
        <4>2. CASE d # 0
          <5>1. e - 1 \in 1..l
            BY <1>1, <1>5, <1>10, <2>3, <4>2
          <5>2. buf[e - 1] # "cr"
            BY <1>1, <2>6, <4>2, <5>1, Zenon
          <5> QED
            BY <1>6, <5>2, Zenon
        <4> QED
          BY <4>1, <4>2
      <3>2. Bare(x) = x
        <4>1. CASE d = 0
          <5>1. x = <<>>
            BY <2>4, <4>1, EmptySeq, Zenon
          <5> QED
            BY <5>1, Zenon DEF Bare
        <4>2. CASE d # 0
          <5>1. d \in 1..d /\ b + d - 1 = e - 1
            BY <1>5, <2>3, <4>2
          <5>2. x[d] = s[e - 1]
            BY <2>4, <5>1
          <5>3. Last(x) # "cr"
            BY <2>4, <2>6, <4>2, <5>2, Zenon DEF Last
          <5> QED
            BY <5>3, Zenon DEF Bare
        <4> QED
          BY <4>1, <4>2
      <3> QED
        BY <1>2, <1>10, <1>11, <2>1, <2>2, <2>4, <3>1, <3>2, Zenon
    <2> QED
      BY <2>5, <2>6
  <1> QED
    BY <1>3, <1>9, <1>10, Zenon

(* The lines that begin before b, when b begins one. *)
EndsBefore(s, b) == {f \in Ends(s) : f < b}
AreFirst(s, T, lines, b) ==
  /\ lines \in Seq(Seq(T)) /\ Len(lines) = Cardinality(EndsBefore(s, b))
  /\ \A f \in EndsBefore(s, b) : lines[Number(s, f)] = Bare(SubSeq(s, Begin(s, f), f - 1))

(* From one line to the next: b begins a line, and no end is from b to c.  *)
LEMMA BeginIs ==
  ASSUME NEW s, NEW T, NEW l, NEW buf, IsOutput(s, T, l, buf), NEW b \in 1..(l + 1),
         b = 1 \/ (\E g \in Ends(s) : b = g + 1),
         NEW c \in 1..(l + 1), b <= c, \A f \in Ends(s) : f < c => f < b
  PROVE  Begin(s, c) = b
  <1>1. l \in Nat /\ Ends(s) \subseteq 1..l
    <2>1. l \in Nat
      BY Zenon DEF IsOutput
    <2>2. Ends(s) \subseteq 1..l
      BY EndsAre, Zenon
    <2> QED
      BY <2>1, <2>2
  <1>2. PICK M : M = {0} \cup {e \in Ends(s) : e < c}
    OBVIOUS
  <1>3. M \subseteq 0..l /\ 0 \in M
    BY <1>1, <1>2
  <1>4. PICK m \in M : m = Max(M) /\ \A x \in M : x <= m
    BY <1>1, <1>3, GreatestNumber
  <1>5. m + 1 <= b
    BY <1>1, <1>2, <1>4
  <1>6. b <= m + 1
    <2>1. CASE b = 1
      BY <1>3, <2>1
    <2>2. ASSUME NEW g \in Ends(s), b = g + 1 PROVE b <= m + 1
      <3>1. g < c /\ g \in Nat
        BY <1>1, <2>2
      <3>2. g <= m
        BY <1>2, <1>4, <3>1
      <3> QED
        BY <1>3, <2>2, <3>1, <3>2
    <2> QED
      BY <2>1, <2>2
  <1>7. m + 1 = b
    BY <1>3, <1>5, <1>6
  <1>8. Begin(s, c) = Max(M) + 1
    BY <1>2, Zenon DEF Begin
  <1> QED
    BY <1>4, <1>7, <1>8, Zenon

(* The ends are counted one by one. *)
LEMMA NextEnd ==
  ASSUME NEW s, NEW T, NEW l, NEW buf, IsOutput(s, T, l, buf), NEW b \in 1..(l + 1),
         NEW e \in Ends(s), b <= e, \A f \in Ends(s) : b <= f => e <= f,
         NEW c \in Nat, c = e + 1
  PROVE  /\ EndsBefore(s, c) = EndsBefore(s, b) \cup {e} /\ Cardinality(EndsBefore(s, b)) \in Nat
         /\ Cardinality(EndsBefore(s, c)) = Cardinality(EndsBefore(s, b)) + 1
         /\ Number(s, e) = Cardinality(EndsBefore(s, b)) + 1
         /\ \A f \in EndsBefore(s, b) : Number(s, f) \in 1..Cardinality(EndsBefore(s, b))
  <1>1. l \in Nat /\ Ends(s) \subseteq 1..l /\ IsFiniteSet(Ends(s))
    <2>1. l \in Nat
      BY Zenon DEF IsOutput
    <2>2. Ends(s) \subseteq 1..l /\ IsFiniteSet(Ends(s))
      BY EndsAre, Zenon
    <2> QED
      BY <2>1, <2>2
  <1>2. PICK B : B = EndsBefore(s, b)
    OBVIOUS
  <1>3. B \subseteq Ends(s) /\ e \notin B /\ IsFiniteSet(B)
    <2>1. B \subseteq Ends(s) /\ e \notin B
      BY <1>1, <1>2 DEF EndsBefore
    <2> QED
      BY <1>1, <2>1, FS_Subset, Zenon
  <1>4. EndsBefore(s, c) = B \cup {e}
    <2>1. ASSUME NEW f \in Ends(s) PROVE f < c <=> f < b \/ f = e
      <3>1. f \in Nat /\ e \in Nat
        BY <1>1
      <3> QED
        BY <3>1
    <2> QED
      BY <1>2, <2>1, Zenon DEF EndsBefore
  <1>5. PICK n \in Nat : n = Cardinality(B)
    BY <1>3, FS_CardinalityType, Zenon
  <1>6. Cardinality(B \cup {e}) = n + 1
    BY <1>3, <1>5, FS_AddElement, Zenon
  <1>7. {f \in Ends(s) : f <= e} = B \cup {e}
    <2>1. ASSUME NEW f \in Ends(s) PROVE f <= e <=> f < c
      <3>1. f \in Nat /\ e \in Nat
        BY <1>1
      <3> QED
        BY <3>1
    <2> QED
      BY <1>4, <2>1, Zenon DEF EndsBefore
  <1>8. Number(s, e) = n + 1
    BY <1>6, <1>7, Zenon DEF Number
  <1>9. ASSUME NEW f \in B PROVE Number(s, f) \in 1..n
    <2>1. PICK F : F = {g \in Ends(s) : g <= f}
      OBVIOUS
    <2>2. F \subseteq B
      <3>1. ASSUME NEW g \in Ends(s), g <= f PROVE g < b
        <4>1. g \in Nat /\ f \in Nat /\ f < b
          BY <1>1, <1>2, <1>3 DEF EndsBefore
        <4> QED
          BY <3>1, <4>1
      <3> QED
        BY <1>2, <2>1, <3>1, Zenon DEF EndsBefore
    <2>3. f \in F
      BY <1>1, <1>3, <2>1
    <2>4. IsFiniteSet(F) /\ Cardinality(F) <= n
      BY <1>3, <1>5, <2>2, FS_Subset, Zenon
    <2>5. Cardinality(F) \in Nat /\ Cardinality(F) # 0
      BY <2>3, <2>4, FS_CardinalityType, FS_EmptySet, Zenon
    <2>6. Cardinality(F) \in 1..n
      BY <2>4, <2>5
    <2> QED
      BY <2>1, <2>6, Zenon DEF Number
  <1> QED
    BY <1>2, <1>4, <1>5, <1>6, <1>8, <1>9, Zenon

(* What the loop of buildCommands_printBuffer may have in hand, and what  *)
(* it has: the lines so far, at the beginning of the next one, or all.    *)
InLines(T, l) == [start : 0..(l + 1), lines : Seq(Seq(T))]
IsAtLine(s, T, l, start, lines) ==
  \/ start = 0 /\ lines \in Seq(Seq(T)) /\ AreLines(s, lines)
  \/ /\ start \in 1..(l + 1) /\ AreFirst(s, T, lines, start)
     /\ start = 1 \/ (\E g \in Ends(s) : start = g + 1)

LEMMA OneLineStays ==
  ASSUME NEW s, NEW T, NEW l, NEW buf, IsOutput(s, T, l, buf), NEW r \in InLines(T, l)
  PROVE  OneLine(buf, r) \in InLines(T, l)
  <1>1. /\ l \in Nat /\ Len(buf) = l + 1 /\ r.start \in 0..(l + 1) /\ r.lines \in Seq(Seq(T))
        /\ r = [start |-> r.start, lines |-> r.lines]
    <2>1. l \in Nat /\ Len(buf) = l + 1
      BY Zenon DEF IsOutput
    <2> QED
      BY <2>1 DEF InLines
  <1>2. CASE r.start = 0
    BY <1>2, Zenon DEF OneLine
  <1>3. CASE r.start # 0
    <2>1. PICK b \in 1..(l + 1) : b = r.start
      BY <1>1, <1>3
    <2>2. PICK e : e = LineEnd(buf, b)
      OBVIOUS
    <2>3. e \in 1..l \/ e = l + 2
      <3>1. Ends(s) \subseteq 1..l
        BY EndsAre, Zenon
      <3>2. LineEnd(buf, b) \in Ends(s) \/ LineEnd(buf, b) = l + 2
        BY LineEndIs
      <3> QED
        BY <2>2, <3>1, <3>2, Zenon
    <2>4. PICK x \in Seq(T) : x = Line(buf, b)
      BY LineIs
    <2>5. Append(r.lines, x) \in Seq(Seq(T))
      BY <1>1, AppendProperties
    <2>6. OneLine(buf, r)
            = [start |-> IF e >= l + 1 THEN 0 ELSE e + 1,
               lines |-> IF e >= l + 1 /\ e - b = 1 THEN r.lines ELSE Append(r.lines, x)]
      BY <1>1, <1>3, <2>1, <2>2, <2>4 DEF OneLine
    <2>7. (IF e >= l + 1 THEN 0 ELSE e + 1) \in 0..(l + 1)
      BY <1>1, <2>3
    <2> QED
      BY <1>1, <2>5, <2>6, <2>7 DEF InLines
  <1> QED
    BY <1>2, <1>3

(* A call finds the next line, or that there is none. *)
LEMMA OneLineMore ==
  ASSUME NEW s, NEW T, NEW l, NEW buf, IsOutput(s, T, l, buf), NEW r \in InLines(T, l),
         IsAtLine(s, T, l, r.start, r.lines), NEW k \in Nat, r.start = 0 \/ k < r.start
  PROVE  /\ IsAtLine(s, T, l, OneLine(buf, r).start, OneLine(buf, r).lines)
         /\ OneLine(buf, r).start = 0 \/ k + 1 < OneLine(buf, r).start
  <1>1. /\ l \in Nat /\ Len(buf) = l + 1 /\ r.start \in 0..(l + 1) /\ r.lines \in Seq(Seq(T))
        /\ s \in Seq(T) /\ Len(s) = l
    <2>1. l \in Nat /\ Len(buf) = l + 1 /\ s \in Seq(T) /\ Len(s) = l
      BY Zenon DEF IsOutput
    <2> QED
      BY <2>1 DEF InLines
  <1>2. CASE r.start = 0
    <2>1. OneLine(buf, r) = r
      BY <1>2, Zenon DEF OneLine
    <2> QED
      BY <1>2, <2>1, Zenon
  <1>3. CASE r.start # 0
    <2>1. PICK b \in 1..(l + 1), lines \in Seq(Seq(T)) : b = r.start /\ lines = r.lines
      BY <1>1, <1>3
    <2>2. AreFirst(s, T, lines, b) /\ (b = 1 \/ \E g \in Ends(s) : b = g + 1) /\ k < b
      BY <1>3, <2>1, Zenon DEF IsAtLine
    <2>3. PICK e : e = LineEnd(buf, b)
      OBVIOUS
    <2>4. Ends(s) \subseteq 1..l /\ IsFiniteSet(Ends(s))
      BY EndsAre, Zenon
    <2>5. PICK x \in Seq(T) : x = Line(buf, b)
      BY LineIs
    <2>6. PICK n \in Nat : n = Cardinality(EndsBefore(s, b)) /\ Len(lines) = n
      BY <2>2, LenProperties, Zenon DEF AreFirst
    <2>7. PICK a \in Seq(Seq(T)) : a = Append(lines, x) /\ Len(a) = n + 1 /\ a[n + 1] = x
                                   /\ \A q \in 1..n : a[q] = lines[q]
      <3>1. PICK L : L = Seq(T)
        OBVIOUS
      <3>2. lines \in Seq(L) /\ x \in L
        BY <3>1
      <3>3. PICK a : a = Append(lines, x)
        OBVIOUS
      <3>4. /\ a \in Seq(L) /\ Len(a) = Len(lines) + 1 /\ a[Len(lines) + 1] = x
            /\ \A q \in 1..Len(lines) : a[q] = lines[q]
        BY <3>2, <3>3, AppendProperties
      <3> QED
        BY <2>6, <3>1, <3>3, <3>4, Zenon
    <2>8. OneLine(buf, r)
            = [start |-> IF e >= l + 1 THEN 0 ELSE e + 1,
               lines |-> IF e >= l + 1 /\ e - b = 1 THEN lines ELSE a]
      BY <1>1, <1>3, <2>1, <2>3, <2>5, <2>7 DEF OneLine
    <2>9. /\ OneLine(buf, r).start = (IF e >= l + 1 THEN 0 ELSE e + 1)
          /\ OneLine(buf, r).lines = (IF e >= l + 1 /\ e - b = 1 THEN lines ELSE a)
      BY <2>8
    <2>10. \/ /\ e \in Ends(s) /\ b <= e /\ e <= l /\ \A f \in Ends(s) : b <= f => e <= f
           \/ e = l + 2 /\ \A f \in Ends(s) : f < b
      <3>1. \/ /\ LineEnd(buf, b) \in Ends(s) /\ b <= LineEnd(buf, b) /\ LineEnd(buf, b) <= l
               /\ \A f \in Ends(s) : b <= f => LineEnd(buf, b) <= f
            \/ LineEnd(buf, b) = l + 2 /\ \A f \in Ends(s) : f < b
        BY LineEndIs
      <3> QED
        BY <2>3, <3>1, Zenon
    <2>11. CASE e \in Ends(s) /\ b <= e /\ e <= l /\ \A f \in Ends(s) : b <= f => e <= f
      <3>1. PICK c \in 1..(l + 1) : c = e + 1 /\ e \in Nat
        <4>1. e \in 1..l
          BY <2>4, <2>11, Zenon
        <4>2. e + 1 \in 1..(l + 1) /\ e \in Nat
          BY <1>1, <4>1
        <4> QED
          BY <4>2
      <3>2. ~(e >= l + 1) /\ c # 0 /\ k + 1 < c
        BY <1>1, <2>2, <2>11, <3>1
      <3>3. OneLine(buf, r).start = c /\ OneLine(buf, r).lines = a
        BY <2>9, <3>1, <3>2, Zenon
      <3>4. /\ EndsBefore(s, c) = EndsBefore(s, b) \cup {e}
            /\ Cardinality(EndsBefore(s, c)) = Cardinality(EndsBefore(s, b)) + 1
            /\ Number(s, e) = Cardinality(EndsBefore(s, b)) + 1
            /\ \A f \in EndsBefore(s, b) : Number(s, f) \in 1..Cardinality(EndsBefore(s, b))
        BY <2>11, <3>1, NextEnd
      <3>5. Begin(s, e) = b
        <4>1. e \in 1..(l + 1) /\ b <= e
          BY <1>1, <2>11, <3>1
        <4>2. ASSUME NEW f \in Ends(s), f < e PROVE f < b
          <5>1. f \in Nat /\ ~(e <= f)
            BY <2>4, <3>1, <4>2
          <5>2. ~(b <= f)
            BY <2>11, <5>1, Zenon
          <5> QED
            BY <5>1, <5>2
        <4> QED
          BY <2>2, <4>1, <4>2, BeginIs, Zenon
      <3>6. x = Bare(SubSeq(s, b, e - 1))
        <4>1. LineEnd(buf, b) \in Ends(s) => Line(buf, b) = Bare(SubSeq(s, b, LineEnd(buf, b) - 1))
          BY LineIs
        <4> QED
          BY <2>3, <2>5, <2>11, <4>1, Zenon
      <3>7. ASSUME NEW f \in EndsBefore(s, c)
            PROVE  a[Number(s, f)] = Bare(SubSeq(s, Begin(s, f), f - 1))
        <4>1. CASE f = e
          BY <2>6, <2>7, <3>4, <3>5, <3>6, <4>1, Zenon
        <4>2. CASE f \in EndsBefore(s, b)
          <5>1. Number(s, f) \in 1..n
            BY <2>6, <3>4, <4>2, Zenon
          <5>2. lines[Number(s, f)] = Bare(SubSeq(s, Begin(s, f), f - 1))
            BY <2>2, <4>2, Zenon DEF AreFirst
          <5> QED
            BY <2>7, <5>1, <5>2, Zenon
        <4> QED
          BY <3>4, <3>7, <4>1, <4>2, Zenon
      <3>8. AreFirst(s, T, a, c)
        <4>1. Len(a) = Cardinality(EndsBefore(s, c))
          BY <2>6, <2>7, <3>4, Zenon
        <4> QED
          BY <2>7, <3>7, <4>1, Zenon DEF AreFirst
      <3> QED
        BY <2>11, <3>1, <3>2, <3>3, <3>8, Zenon DEF IsAtLine
    <2>12. CASE e = l + 2 /\ \A f \in Ends(s) : f < b
      <3>1. PICK c \in 1..(l + 1) : c = l + 1 /\ b <= c /\ \A f \in Ends(s) : f < c => f < b
        BY <1>1, <2>12
      <3>2. Begin(s, c) = b
        BY <2>2, <3>1, BeginIs, Zenon
      <3>3. PICK y : y = SubSeq(s, b, l)
        OBVIOUS
      <3>4. Rest(s) = y
        BY <1>1, <3>1, <3>2, <3>3, Zenon DEF Rest
      <3>5. y \in Seq(T) /\ Len(y) = l + 1 - b
        <4>1. b \in Nat /\ 1 <= b /\ b <= l + 1 /\ l <= Len(s)
          BY <1>1
        <4> QED
          BY <1>1, <3>3, <4>1, Part
      <3>6. x = y
        <4>1. LineEnd(buf, b) = l + 2 => Line(buf, b) = SubSeq(s, b, l)
          BY LineIs
        <4> QED
          BY <2>3, <2>5, <2>12, <3>3, <4>1, Zenon
      <3>7. EndsBefore(s, b) = Ends(s)
        BY <2>12, Zenon DEF EndsBefore
      <3>8. OneLine(buf, r).start = 0
        <4>1. e >= l + 1
          BY <1>1, <2>12
        <4> QED
          BY <2>9, <4>1, Zenon
      <3>9. CASE y = <<>>
        <4>1. Len(y) = 0
          BY <3>9
        <4>2. e >= l + 1 /\ e - b = 1
          BY <1>1, <2>12, <3>5, <4>1
        <4>3. OneLine(buf, r).lines = lines
          BY <2>9, <4>2, Zenon
        <4>4. n + 0 = n
          OBVIOUS
        <4>5. AreLines(s, lines)
          BY <2>2, <2>6, <3>4, <3>7, <3>9, <4>4, Zenon DEF AreLines, AreFirst
        <4> QED
          BY <3>8, <4>3, <4>5, Zenon DEF IsAtLine
      <3>10. CASE y # <<>>
        <4>1. Len(y) # 0
          BY <3>5, <3>10, EmptySeq, Zenon
        <4>2. ~(e - b = 1)
          BY <1>1, <2>12, <3>5, <4>1
        <4>3. OneLine(buf, r).lines = a
          BY <2>9, <4>2, Zenon
        <4>4. ASSUME NEW f \in Ends(s) PROVE a[Number(s, f)] = Bare(SubSeq(s, Begin(s, f), f - 1))
          <5>1. Number(s, f) \in 1..n
            <6>1. PICK F : F = {g \in Ends(s) : g <= f}
              OBVIOUS
            <6>2. f \in F /\ F \subseteq Ends(s)
              BY <2>4, <6>1
            <6>3. IsFiniteSet(F) /\ Cardinality(F) <= n
              <7>1. IsFiniteSet(F) /\ Cardinality(F) <= Cardinality(Ends(s))
                BY <2>4, <6>2, FS_Subset, Zenon
              <7> QED
                BY <2>6, <3>7, <7>1, Zenon
            <6>4. Cardinality(F) \in Nat /\ Cardinality(F) # 0
              BY <6>2, <6>3, FS_CardinalityType, FS_EmptySet, Zenon
            <6>5. Cardinality(F) \in 1..n
              BY <6>3, <6>4
            <6> QED
              BY <6>1, <6>5, Zenon DEF Number
          <5>2. lines[Number(s, f)] = Bare(SubSeq(s, Begin(s, f), f - 1))
            BY <2>2, <3>7, Zenon DEF AreFirst
          <5> QED
            BY <2>7, <5>1, <5>2, Zenon
        <4>5. Last(a) = y
          BY <2>7, <3>6, Zenon DEF Last
        <4>6. AreLines(s, a)
          BY <2>6, <2>7, <3>4, <3>7, <3>10, <4>4, <4>5, Zenon DEF AreLines
        <4> QED
          BY <2>7, <3>8, <4>3, <4>6, Zenon DEF IsAtLine
      <3> QED
        BY <3>8, <3>9, <3>10, Zenon
    <2> QED
      BY <2>10, <2>11, <2>12, Zenon
  <1> QED
    BY <1>2, <1>3

(* What is in hand after k calls. *)
ArePrinted(s, T, l, p) ==
  \A k \in Nat : /\ p[k] \in InLines(T, l) /\ IsAtLine(s, T, l, p[k].start, p[k].lines)
                 /\ p[k].start = 0 \/ k < p[k].start

LEMMA PrintingGoesOn ==
  ASSUME NEW s, NEW T, NEW l, NEW buf, IsOutput(s, T, l, buf)
  PROVE  ArePrinted(s, T, l, Printed(buf))
  <1> DEFINE step == [k \in Nat |-> [r \in InLines(T, l) |-> OneLine(buf, r)]]
  <1>0. PICK z : z = [start |-> 1, lines |-> <<>>]
    OBVIOUS
  <1>1. step \in [Nat -> [InLines(T, l) -> InLines(T, l)]]
    BY OneLineStays
  <1>2. l \in Nat
    BY Zenon DEF IsOutput
  <1>3. z \in InLines(T, l) /\ z.start = 1 /\ z.lines = <<>>
    BY <1>0, <1>2 DEF InLines
  <1>4. PICK f \in [Nat -> InLines(T, l)] :
          f = [k \in Nat |-> IF k = 0 THEN z ELSE step[k][f[k - 1]]]
    <2> HIDE DEF step
    <2>1. \E f : IsRecursion(InLines(T, l), z, step, f)
      BY <1>1, <1>3, Recursion, Zenon
    <2> QED
      BY <2>1, Zenon DEF IsRecursion
  <1>5. f = [k \in Nat |-> IF k = 0 THEN z ELSE OneLine(buf, f[k - 1])]
    <2>1. ASSUME NEW k \in Nat
          PROVE  f[k] = IF k = 0 THEN z ELSE OneLine(buf, f[k - 1])
      <3>1. CASE k = 0
        BY <1>4, <3>1
      <3>2. CASE k # 0
        <4>1. k - 1 \in Nat
          BY <3>2
        <4>2. f[k] = step[k][f[k - 1]]
          BY <1>4, <3>2
        <4> QED
          BY <3>2, <4>1, <4>2
      <3> QED
        BY <3>1, <3>2
    <2> QED
      BY <1>4, <2>1
  <1>6. PICK g : g = Printed(buf)
    OBVIOUS
  <1>7. g = [k \in Nat |-> IF k = 0 THEN z ELSE OneLine(buf, g[k - 1])]
    BY <1>0, <1>5, <1>6 DEF Printed
  <1>8. g[0] = z /\ \A j, k \in Nat : k = j + 1 => g[k] = OneLine(buf, g[j])
    <2>1. g[0] = z
      BY <1>7
    <2>2. ASSUME NEW j \in Nat, NEW k \in Nat, k = j + 1 PROVE g[k] = OneLine(buf, g[j])
      <3>1. k # 0 /\ k - 1 = j
        BY <2>2
      <3>2. g[k] = IF k = 0 THEN z ELSE OneLine(buf, g[k - 1])
        BY <1>7
      <3> QED
        BY <3>1, <3>2, Zenon
    <2> QED
      BY <2>1, <2>2
  <1>9. IsAtLine(s, T, l, 1, <<>>)
    <2>1. EndsBefore(s, 1) = {}
      <3>1. Ends(s) \subseteq 1..l
        BY EndsAre, Zenon
      <3> QED
        BY <1>2, <3>1 DEF EndsBefore
    <2>2. Cardinality(EndsBefore(s, 1)) = 0
      BY <2>1, FS_EmptySet, Zenon
    <2>3. <<>> \in Seq(Seq(T)) /\ Len(<<>>) = 0
      OBVIOUS
    <2>4. AreFirst(s, T, <<>>, 1)
      BY <2>1, <2>2, <2>3, Zenon DEF AreFirst
    <2>5. 1 \in 1..(l + 1)
      BY <1>2
    <2> QED
      BY <2>4, <2>5, Zenon DEF IsAtLine
  <1> DEFINE K == {k \in Nat : /\ g[k] \in InLines(T, l)
                               /\ IsAtLine(s, T, l, g[k].start, g[k].lines)
                               /\ g[k].start = 0 \/ k < g[k].start}
  <1>10. \A k \in Nat : k \in K
    <2>1. 0 \in K
      <3>1. 0 < 1 /\ 0 \in Nat
        OBVIOUS
      <3> QED
        BY <1>3, <1>8, <1>9, <3>1, Zenon
    <2>2. ASSUME NEW k \in Nat, k \in K PROVE k + 1 \in K
      <3>1. PICK j \in Nat : j = k + 1
        OBVIOUS
      <3>2. PICK r \in InLines(T, l) : r = g[k]
        BY <2>2
      <3>3. IsAtLine(s, T, l, r.start, r.lines) /\ (r.start = 0 \/ k < r.start)
        BY <2>2, <3>2, Zenon
      <3>4. PICK q \in InLines(T, l) : q = OneLine(buf, r)
        BY OneLineStays
      <3>5. /\ IsAtLine(s, T, l, OneLine(buf, r).start, OneLine(buf, r).lines)
            /\ OneLine(buf, r).start = 0 \/ k + 1 < OneLine(buf, r).start
        BY <3>3, OneLineMore
      <3>6. IsAtLine(s, T, l, q.start, q.lines) /\ (q.start = 0 \/ j < q.start)
        BY <3>1, <3>4, <3>5, Zenon
      <3>7. g[j] = q
        BY <1>8, <3>1, <3>2, <3>4, Zenon
      <3>8. j \in K
        BY <3>6, <3>7, Zenon
      <3> QED
        BY <3>1, <3>8, Zenon
    <2> HIDE DEF K
    <2> QED
      BY <2>1, <2>2, AllNumbers
  <1> QED
    BY <1>6, <1>10, Zenon DEF ArePrinted

(* An output of any length is printed line by line. *)
THEOREM LinesPrinted ==
  ASSUME NEW T, "nul" \notin T, NEW s \in Seq(T)
  PROVE  AreLines(s, PrintBuffer(s))
  <1>1. PICK l \in Nat : l = Len(s)
    BY LenProperties
  <1>2. PICK buf : buf = Buffer(s) /\ IsOutput(s, T, l, buf)
    BY <1>1, OutputBuffer
  <1>3. PICK p : p = Printed(buf)
    OBVIOUS
  <1>4. ArePrinted(s, T, l, p)
    BY <1>2, <1>3, PrintingGoesOn, Zenon
  <1>5. PICK k \in Nat : k = l + 1
    OBVIOUS
  <1>6. p[k].start = 0
    <2>1. p[k] \in InLines(T, l) /\ (p[k].start = 0 \/ k < p[k].start)
      BY <1>4, Zenon DEF ArePrinted
    <2>2. p[k].start \in 0..(l + 1)
      BY <2>1 DEF InLines
    <2> QED
      BY <1>5, <2>1, <2>2
  <1>7. AreLines(s, p[k].lines)
    <2>1. IsAtLine(s, T, l, p[k].start, p[k].lines)
      BY <1>4, Zenon DEF ArePrinted
    <2>2. p[k].start \notin 1..(l + 1)
      BY <1>6
    <2> QED
      BY <2>1, <2>2, Zenon DEF IsAtLine
  <1>8. CASE s # <<>>
    <2>1. PrintBuffer(s) = p[k].lines
      BY <1>1, <1>2, <1>3, <1>5, <1>8, Zenon DEF PrintBuffer
    <2> QED
      BY <1>7, <2>1, Zenon
  <1>9. CASE s = <<>>
    <2>1. Ends(s) = {}
      BY <1>9 DEF Ends
    <2>2. Cardinality(Ends(s)) = 0
      BY <2>1, FS_EmptySet, Zenon
    <2>3. Rest(s) = <<>>
      <3>1. l = 0
        BY <1>1, <1>9
      <3>2. Begin(s, 1) = 1
        <4>1. 1 \in 1..(l + 1) /\ 1 <= 1 /\ \A f \in Ends(s) : f < 1 => f < 1
          BY <2>1, <3>1
        <4> QED
          BY <1>2, <4>1, BeginIs, Zenon
      <3>3. Begin(s, Len(s) + 1) = 1
        <4>1. Len(s) + 1 = 1
          BY <1>1, <3>1
        <4> QED
          BY <3>2, <4>1, Zenon
      <3>4. Rest(s) = SubSeq(s, 1, 0)
        BY <1>1, <3>1, <3>3, Zenon DEF Rest
      <3> QED
        BY <3>4
    <2>4. PrintBuffer(s) = <<>> /\ Len(<<>>) = 0 /\ 0 + 0 = 0
      BY <1>9 DEF PrintBuffer
    <2> QED
      BY <2>1, <2>2, <2>3, <2>4, Zenon DEF AreLines
  <1> QED
    BY <1>8, <1>9

(* buildCommands_printBuffer prints every line of a command's output once, *)
(* without its end, and none that is not there.                            *)
THEOREM LinesAreAlwaysSplit == TextSpec => []LinesAreSplit
  <1>1. Calls => LinesAreSplit
    <2> SUFFICES ASSUME Calls, call.fn = "buildCommands_printBuffer"
                 PROVE  AreLines(call.arg, call.result)
      BY Zenon DEF LinesAreSplit
    <2>1. PICK s \in MCOutput : call.arg = s /\ call.result = PrintBuffer(s)
      BY Zenon DEF Calls, OutputCalled
    <2>2. PICK T : T = {"nl", "cr", "x"}
      OBVIOUS
    <2>3. s \in Seq(T) /\ "nul" \notin T
      <3>1. s \in SeqOf(T, 6)
        BY <2>2 DEF MCOutput
      <3>2. PICK m \in 0..6 : s \in [1..m -> T]
        BY <3>1, Zenon DEF SeqOf
      <3> QED
        BY <2>2, <3>2
    <2>4. AreLines(s, PrintBuffer(s))
      BY <2>3, LinesPrinted, Zenon
    <2> QED
      BY <2>1, <2>4, Zenon
  <1> QED
    BY <1>1, CallsInvariance, PTL

----------------------------------------------------------------------------
(* Arguments: what cmdline_init_composite counts and what it cuts out.     *)

(* strunescape at the k-th character, when x and y are what it makes of    *)
(* what is one and two characters further on.                              *)
UnescapedAt(s, k, x, y) ==
  CASE k > Len(s) -> <<>>
    [] k < Len(s) /\ s[k] = "backslash" /\ s[k + 1] \in {"backslash", "quote"} -> <<s[k + 1]>> \o y
    [] OTHER -> <<s[k]>> \o x

AreUnescaped(s, g) == g = [k \in Nat |-> UnescapedAt(s, k, g[k + 1], g[k + 2])]

(* A string is in W, and so would be the character before it. *)
LEMMA UnescapedStays ==
  ASSUME NEW W, NEW s, NEW l \in Nat, l = Len(s), \A q \in 0..l : s[q] \in W,
         NEW k \in 0..l, NEW x \in Seq(W), NEW y \in Seq(W)
  PROVE  UnescapedAt(s, k, x, y) \in Seq(W)
  <1>1. <<s[k]>> \o x \in Seq(W)
    OBVIOUS
  <1>2. k < l => <<s[k + 1]>> \o y \in Seq(W)
    <2>1. k < l => s[k + 1] \in W
      OBVIOUS
    <2> QED
      BY <2>1
  <1> QED
    BY <1>1, <1>2 DEF UnescapedAt

(* A character stays as it is, or is taken for the one behind it. *)
LEMMA UnescapedTakes ==
  ASSUME NEW s, Len(s) \in Nat, NEW k \in Nat, NEW x, NEW y
  PROVE  /\ k > Len(s) => UnescapedAt(s, k, x, y) = <<>>
         /\ ~(k > Len(s)) => \/ UnescapedAt(s, k, x, y) = <<s[k]>> \o x
                             \/ k < Len(s) /\ UnescapedAt(s, k, x, y) = <<s[k + 1]>> \o y
  <1>1. PICK a, b : a = <<s[k]>> \o x /\ b = <<s[k + 1]>> \o y
    OBVIOUS
  <1>2. ~(k > Len(s) /\ k < Len(s))
    OBVIOUS
  <1>3. UnescapedAt(s, k, x, y)
          = CASE k > Len(s) -> <<>>
              [] k < Len(s) /\ s[k] = "backslash" /\ s[k + 1] \in {"backslash", "quote"} -> b
              [] OTHER -> a
    BY <1>1, Zenon DEF UnescapedAt
  <1> QED
    BY <1>1, <1>2, <1>3

(* From the last character to the first. *)
LEMMA UnescapedExists ==
  ASSUME NEW T, NEW s \in Seq(T)
  PROVE  \E g : AreUnescaped(s, g)
  <1>1. PICK l \in Nat : l = Len(s) /\ \A q \in 1..l : s[q] \in T
    BY ElementOfSeq, LenProperties
  <1>2. PICK W : W = T \cup {s[0]}
    OBVIOUS
  <1>3. \A q \in 0..l : s[q] \in W
    BY <1>1, <1>2
  <1>4. PICK P : P = Seq(W) \X Seq(W)
    OBVIOUS
  <1> DEFINE next(j, p) == IF j <= l + 1
                           THEN <<UnescapedAt(s, (l + 1) - j, p[1], p[2]), p[1]>> ELSE p
             step == [j \in Nat |-> [p \in P |-> IF j = 0 THEN p ELSE next(j, p)]]
  <1>5. step \in [Nat -> [P -> P]]
    <2>1. ASSUME NEW j \in Nat, NEW p \in P, j # 0, j <= l + 1 PROVE next(j, p) \in P
      <3>1. p[1] \in Seq(W) /\ p[2] \in Seq(W)
        BY <1>4
      <3>2. PICK k \in 0..l : k = (l + 1) - j
        BY <2>1
      <3>3. UnescapedAt(s, k, p[1], p[2]) \in Seq(W)
        BY <1>1, <1>3, <3>1, UnescapedStays
      <3> QED
        BY <1>4, <2>1, <3>1, <3>2, <3>3
    <2>2. \A j \in Nat, p \in P : (IF j = 0 THEN p ELSE next(j, p)) \in P
      BY <2>1
    <2> HIDE DEF next
    <2> QED
      BY <2>2
  <1>6. PICK z \in P : z[1] = <<>> /\ z[2] = <<>>
    <2>1. PICK e : e = <<>>
      OBVIOUS
    <2>2. e \in Seq(W)
      BY <2>1
    <2>3. <<e, e>> \in P
      BY <1>4, <2>2
    <2> QED
      BY <2>1, <2>3
  <1>7. PICK f \in [Nat -> P] : f = [j \in Nat |-> IF j = 0 THEN z ELSE step[j][f[j - 1]]]
    <2> HIDE DEF step
    <2>1. \E f : IsRecursion(P, z, step, f)
      BY <1>5, Recursion, Zenon
    <2> QED
      BY <2>1, Zenon DEF IsRecursion
  <1>8. ASSUME NEW i \in Nat, NEW j \in Nat, j = i + 1, j <= l + 1, NEW k \in Nat, k + j = l + 1
        PROVE  f[j][1] = UnescapedAt(s, k, f[i][1], f[i][2]) /\ f[j][2] = f[i][1]
    <2>1. f[j] = step[j][f[i]]
      <3>1. j # 0 /\ j - 1 = i
        BY <1>8
      <3> HIDE DEF step
      <3> QED
        BY <1>7, <3>1
    <2>2. f[j] = next(j, f[i])
      <3>1. j # 0 /\ f[i] \in P
        BY <1>8
      <3> HIDE DEF next
      <3> QED
        BY <2>1, <3>1
    <2>3. f[j] = <<UnescapedAt(s, (l + 1) - j, f[i][1], f[i][2]), f[i][1]>> /\ (l + 1) - j = k
      BY <1>8, <2>2
    <2> QED
      BY <2>3
  <1>9. f[0][1] = <<>> /\ f[0][2] = <<>>
    BY <1>6, <1>7
  <1>10. PICK g : g = [k \in Nat |-> IF k > l THEN <<>> ELSE f[(l + 1) - k][1]]
    OBVIOUS
  <1>11. ASSUME NEW k \in Nat, NEW j \in Nat, k + j = l + 1 PROVE g[k] = f[j][1]
    <2>1. CASE j = 0
      BY <1>9, <1>10, <1>11, <2>1
    <2>2. CASE j # 0
      <3>1. ~(k > l) /\ (l + 1) - k = j
        BY <1>11, <2>2
      <3> QED
        BY <1>10, <3>1
    <2> QED
      BY <2>1, <2>2
  <1>12. ASSUME NEW k \in Nat PROVE g[k] = UnescapedAt(s, k, g[k + 1], g[k + 2])
    <2>1. CASE k > l
      <3>1. g[k] = <<>>
        BY <1>10, <2>1
      <3> QED
        BY <1>1, <2>1, <3>1 DEF UnescapedAt
    <2>2. CASE ~(k > l)
      <3>1. PICK i \in Nat, j \in Nat : j = i + 1 /\ k + j = l + 1 /\ j <= l + 1
        <4>1. l - k \in Nat /\ (l - k) + 1 \in Nat
          BY <2>2
        <4>2. k + ((l - k) + 1) = l + 1 /\ (l - k) + 1 <= l + 1
          OBVIOUS
        <4> QED
          BY <4>1, <4>2
      <3>2. PICK k1 \in Nat, k2 \in Nat : k1 = k + 1 /\ k2 = k + 2
        OBVIOUS
      <3>3. f[j][1] = UnescapedAt(s, k, f[i][1], f[i][2])
        BY <1>8, <3>1
      <3>4. g[k] = f[j][1] /\ g[k1] = f[i][1]
        BY <1>11, <3>1, <3>2
      <3>5. g[k2] = f[i][2]
        <4>1. CASE i = 0
          <5>1. k2 > l
            BY <3>1, <3>2, <4>1
          <5>2. g[k2] = <<>>
            BY <1>10, <5>1
          <5> QED
            BY <1>9, <4>1, <5>2
        <4>2. CASE i # 0
          <5>1. PICK h \in Nat : i = h + 1 /\ k1 + i = l + 1 /\ k2 + h = l + 1 /\ i <= l + 1
            <6>1. i - 1 \in Nat
              BY <4>2
            <6> QED
              BY <3>1, <3>2, <6>1
          <5>2. f[i][2] = f[h][1]
            BY <1>8, <5>1
          <5>3. g[k2] = f[h][1]
            BY <1>11, <5>1
          <5> QED
            BY <5>2, <5>3
        <4> QED
          BY <4>1, <4>2
      <3> QED
        BY <3>2, <3>3, <3>4, <3>5, Zenon
    <2> QED
      BY <2>1, <2>2
  <1>13. g = [k \in Nat |-> g[k]]
    BY <1>10
  <1>14. AreUnescaped(s, g)
    BY <1>12, <1>13 DEF AreUnescaped
  <1> QED
    BY <1>14

(* What strunescape makes of a string is in it, and no longer than it.     *)
LEMMA UnescapedIs ==
  ASSUME NEW T, NEW s \in Seq(T)
  PROVE  Unescape(s) \in Seq(T) /\ Len(Unescape(s)) <= Len(s)
  <1>1. PICK l \in Nat : l = Len(s) /\ \A q \in 1..l : s[q] \in T
    BY ElementOfSeq, LenProperties
  <1>2. PICK g : g = Unescaped(s)
    OBVIOUS
  <1>3. AreUnescaped(s, g)
    <2>1. \E h : AreUnescaped(s, h)
      BY UnescapedExists
    <2> QED
      BY <1>2, <2>1 DEF AreUnescaped, UnescapedAt, Unescaped
  <1>4. \A k \in Nat : g[k] = UnescapedAt(s, k, g[k + 1], g[k + 2])
    BY <1>3 DEF AreUnescaped
  <1> DEFINE Short(k) == g[k] \in Seq(T) /\ Len(g[k]) \in Nat /\ (k > l \/ Len(g[k]) + k <= l + 1)
                        /\ (k > l => g[k] = <<>>)
             K == {j \in Nat : \A k \in Nat : k # 0 /\ k + j > l => Short(k)}
  <1>5. \A j \in Nat : j \in K
    <2>1. 0 \in K
      <3>1. ASSUME NEW k \in Nat, k > l PROVE Short(k)
        <4>1. g[k] = <<>>
          <5>1. PICK x, y : x = g[k + 1] /\ y = g[k + 2]
            OBVIOUS
          <5>2. g[k] = UnescapedAt(s, k, x, y)
            BY <1>4, <5>1
          <5> QED
            BY <1>1, <3>1, <5>2, UnescapedTakes
        <4> QED
          BY <3>1, <4>1
      <3> HIDE DEF Short
      <3> QED
        BY <3>1
    <2>2. ASSUME NEW j \in Nat, j \in K PROVE j + 1 \in K
      <3>1. ASSUME NEW k \in Nat, k # 0, k + (j + 1) > l PROVE Short(k)
        <4>1. CASE k + j > l
          <5> HIDE DEF Short
          <5> QED
            BY <2>2, <3>1, <4>1
        <4>2. CASE ~(k + j > l)
          <5>1. PICK k1 \in Nat, k2 \in Nat : k1 = k + 1 /\ k2 = k + 2
            OBVIOUS
          <5>2. k <= l /\ k1 + j > l /\ k2 + j > l /\ k1 # 0 /\ k2 # 0
            BY <3>1, <4>2, <5>1
          <5>3. Short(k1) /\ Short(k2)
            <6> HIDE DEF Short
            <6> QED
              BY <2>2, <5>2, Zenon
          <5>4. g[k] = UnescapedAt(s, k, g[k1], g[k2])
            BY <1>4, <5>1
          <5>5. s[k] \in T /\ (k < l => s[k1] \in T)
            BY <1>1, <3>1, <5>1, <5>2
          <5>6. PICK x \in Seq(T), y \in Seq(T) : x = g[k1] /\ y = g[k2]
            BY <5>3
          <5>7. \/ g[k] = <<s[k]>> \o x
                \/ k < l /\ g[k] = <<s[k1]>> \o y
            <6>1. ~(k > Len(s)) /\ (k < Len(s) <=> k < l)
              BY <1>1, <5>2
            <6>2. \/ UnescapedAt(s, k, x, y) = <<s[k]>> \o x
                  \/ k < Len(s) /\ UnescapedAt(s, k, x, y) = <<s[k + 1]>> \o y
              <7>1. Len(s) \in Nat
                BY <1>1
              <7> QED
                BY <6>1, <7>1, UnescapedTakes
            <6> QED
              BY <5>1, <5>4, <5>6, <6>1, <6>2, Zenon
          <5>8. Len(x) \in Nat /\ Len(x) + k <= l
            <6>1. Len(x) \in Nat /\ (k1 > l \/ Len(x) + k1 <= l + 1) /\ (k1 > l => x = <<>>)
              BY <5>3, <5>6, Zenon
            <6> QED
              BY <5>1, <5>2, <6>1
          <5>9. k < l => Len(y) \in Nat /\ Len(y) + k <= l
            <6>1. Len(y) \in Nat /\ (k2 > l \/ Len(y) + k2 <= l + 1) /\ (k2 > l => y = <<>>)
              BY <5>3, <5>6, Zenon
            <6> QED
              BY <5>1, <5>2, <6>1
          <5>10. ASSUME NEW c \in T, NEW z \in Seq(T), g[k] = <<c>> \o z, Len(z) \in Nat,
                        Len(z) + k <= l
                 PROVE  Short(k)
            <6>1. <<c>> \o z \in Seq(T) /\ Len(<<c>> \o z) = 1 + Len(z)
              OBVIOUS
            <6> QED
              BY <5>2, <5>10, <6>1
          <5> HIDE DEF Short
          <5> QED
            BY <5>5, <5>6, <5>7, <5>8, <5>9, <5>10
        <4> QED
          BY <4>1, <4>2
      <3> HIDE DEF Short
      <3> QED
        BY <3>1
    <2> HIDE DEF K
    <2> QED
      BY <2>1, <2>2, AllNumbers
  <1>6. Short(1)
    <2>1. l \in K /\ 1 \in Nat /\ 1 # 0 /\ 1 + l > l
      BY <1>5
    <2> HIDE DEF Short
    <2> QED
      BY <2>1
  <1>7. g[1] \in Seq(T) /\ Len(g[1]) <= l
    BY <1>6
  <1> QED
    BY <1>1, <1>2, <1>7, Zenon DEF Unescape

----------------------------------------------------------------------------
(* A buffer, of what it holds and how long. *)
IsBuffer(buf, T, l) ==
  /\ l \in Nat /\ l # 0 /\ "nul" \notin T
  /\ buf \in Seq(T \cup {"nul"}) /\ Len(buf) = l /\ buf[l] = "nul"

(* The token that begins at a place that is not blank. *)
FirstFrom(buf, c) == Min({j \in c..Len(buf) : buf[j] # "blank"})
TokenAt(buf, f) ==
  CASE buf[f] = "nul" -> NoToken
    [] buf[f] = "quote" ->
         [start |-> f + 1, end |-> QuoteEnd(buf, f + 1), quoted |-> TRUE,
          cursor |-> IF buf[QuoteEnd(buf, f + 1)] = "quote" THEN QuoteEnd(buf, f + 1) + 1
                     ELSE QuoteEnd(buf, f + 1)]
    [] OTHER -> [start |-> f, end |-> FirstOf(buf, f, {"blank"}),
                 cursor |-> FirstOf(buf, f, {"blank"}), quoted |-> FALSE]

LEMMA TokenBegins ==
  ASSUME NEW buf, NEW c
  PROVE  Token(buf, c) = TokenAt(buf, FirstFrom(buf, c))
  BY Zenon DEF Token, TokenAt, FirstFrom

LEMMA FirstIs ==
  ASSUME NEW buf, NEW T, NEW l, IsBuffer(buf, T, l), NEW c \in 1..l
  PROVE  FirstFrom(buf, c) \in c..l
  <1>1. l \in Nat /\ Len(buf) = l /\ buf[l] = "nul"
    BY Zenon DEF IsBuffer
  <1>2. PICK S : S = {j \in c..Len(buf) : buf[j] # "blank"}
    OBVIOUS
  <1>3. S \subseteq c..l /\ S \subseteq Nat /\ l \in S
    BY <1>1, <1>2
  <1>4. Min(S) \in S
    BY <1>3, LeastNumber
  <1> QED
    BY <1>2, <1>3, <1>4, Zenon DEF FirstFrom

(* A token in quotes ends at the next quote that counts, or at the "nul".  *)
LEMMA QuoteEndIs ==
  ASSUME NEW buf, NEW T, NEW l, IsBuffer(buf, T, l), NEW b \in 1..l
  PROVE  /\ QuoteEnd(buf, b) \in b..l
         /\ buf[QuoteEnd(buf, b)] = "quote" => QuoteEnd(buf, b) < l
         /\ buf[QuoteEnd(buf, b)] # "quote" => buf[QuoteEnd(buf, b)] = "nul"
         /\ \A q \in b..l : q < QuoteEnd(buf, b) => buf[q] # "nul"
  <1>1. l \in Nat /\ Len(buf) = l /\ buf[l] = "nul"
    BY Zenon DEF IsBuffer
  <1>2. PICK S : S = {j \in b..Len(buf) : \/ buf[j] = "nul"
                                          \/ buf[j] = "quote" /\ ~Escaped(buf, b, j)}
    OBVIOUS
  <1>3. S \subseteq b..l /\ S \subseteq Nat /\ l \in S
    BY <1>1, <1>2
  <1>4. PICK e \in S : e = Min(S) /\ \A j \in S : e <= j
    BY <1>3, LeastNumber
  <1>5. e = QuoteEnd(buf, b)
    BY <1>2, <1>4, Zenon DEF QuoteEnd
  <1>6. e \in b..l /\ (buf[e] = "nul" \/ buf[e] = "quote")
    BY <1>2, <1>3, <1>4, Zenon
  <1>7. buf[e] = "quote" => e < l
    BY <1>1, <1>6
  <1>8. ASSUME NEW q \in b..l, q < e PROVE buf[q] # "nul"
    <2>1. q \notin S
      BY <1>1, <1>4, <1>6, <1>8
    <2> QED
      BY <1>1, <1>2, <2>1, Zenon
  <1> QED
    BY <1>5, <1>6, <1>7, <1>8, Zenon

(* Another one ends at a blank or at the "nul". *)
LEMMA PlainEndIs ==
  ASSUME NEW buf, NEW T, NEW l, IsBuffer(buf, T, l), NEW b \in 1..l
  PROVE  /\ FirstOf(buf, b, {"blank"}) \in b..l
         /\ buf[FirstOf(buf, b, {"blank"})] \in {"blank", "nul"}
         /\ \A q \in b..l : q < FirstOf(buf, b, {"blank"}) => buf[q] # "nul"
  <1>1. l \in Nat /\ Len(buf) = l /\ buf[l] = "nul"
    BY Zenon DEF IsBuffer
  <1>2. PICK S : S = {j \in b..Len(buf) : buf[j] \in {"blank"} \cup {"nul"}}
    OBVIOUS
  <1>3. S \subseteq b..l /\ S \subseteq Nat /\ l \in S
    BY <1>1, <1>2
  <1>4. PICK e \in S : e = Min(S) /\ \A j \in S : e <= j
    BY <1>3, LeastNumber
  <1>5. e = FirstOf(buf, b, {"blank"})
    BY <1>2, <1>4, Zenon DEF FirstOf
  <1>6. e \in b..l /\ buf[e] \in {"blank", "nul"}
    BY <1>2, <1>3, <1>4, Zenon
  <1>8. ASSUME NEW q \in b..l, q < e PROVE buf[q] # "nul"
    <2>1. q \notin S
      BY <1>1, <1>4, <1>6, <1>8
    <2> QED
      BY <1>1, <1>2, <2>1, Zenon
  <1> QED
    BY <1>5, <1>6, <1>8, Zenon

(* A token, where it is looked for from c on. *)
TokenSet(l) == [start : 1..l, end : 1..l, cursor : 1..l, quoted : BOOLEAN]
IsToken(buf, l, c, t) ==
  /\ t \in TokenSet(l) /\ c <= t.start /\ t.start <= t.end /\ t.end <= t.cursor /\ c < l
  /\ \A q \in t.start..l : q < t.end => buf[q] # "nul"
  /\ t.quoted \/ buf[t.cursor] \in {"blank", "nul"}

LEMMA TokenIs ==
  ASSUME NEW buf, NEW T, NEW l, IsBuffer(buf, T, l), NEW c \in 1..l
  PROVE  Token(buf, c) = NoToken \/ IsToken(buf, l, c, Token(buf, c))
  <1>1. l \in Nat /\ buf[l] = "nul"
    BY Zenon DEF IsBuffer
  <1>2. PICK f \in c..l : f = FirstFrom(buf, c)
    BY FirstIs
  <1>3. PICK t : t = Token(buf, c) /\ t = TokenAt(buf, f)
    BY <1>2, TokenBegins, Zenon
  <1>4. CASE buf[f] = "nul"
    BY <1>3, <1>4, Zenon DEF TokenAt
  <1>5. CASE buf[f] = "quote"
    <2>1. PICK b \in 1..l : b = f + 1 /\ c <= b /\ c < l
      <3>1. f # l
        BY <1>1, <1>5
      <3>2. f + 1 \in 1..l /\ c <= f + 1 /\ c < l
        BY <1>1, <3>1
      <3> QED
        BY <3>2
    <2>2. PICK e : e = QuoteEnd(buf, b)
      OBVIOUS
    <2>3. /\ e \in b..l /\ (buf[e] = "quote" => e < l)
          /\ \A q \in b..l : q < e => buf[q] # "nul"
      <3>1. /\ QuoteEnd(buf, b) \in b..l
            /\ buf[QuoteEnd(buf, b)] = "quote" => QuoteEnd(buf, b) < l
            /\ \A q \in b..l : q < QuoteEnd(buf, b) => buf[q] # "nul"
        BY QuoteEndIs
      <3> QED
        BY <2>2, <3>1, Zenon
    <2>4. PICK d : d = IF buf[e] = "quote" THEN e + 1 ELSE e
      OBVIOUS
    <2>5. d \in 1..l /\ e <= d /\ e \in 1..l
      BY <1>1, <2>3, <2>4
    <2>6. t = [start |-> b, end |-> e, quoted |-> TRUE, cursor |-> d]
      <3>1. t = [start |-> f + 1, end |-> QuoteEnd(buf, f + 1), quoted |-> TRUE,
                 cursor |-> IF buf[QuoteEnd(buf, f + 1)] = "quote" THEN QuoteEnd(buf, f + 1) + 1
                            ELSE QuoteEnd(buf, f + 1)]
        BY <1>3, <1>5 DEF TokenAt
      <3> QED
        BY <2>1, <2>2, <2>4, <3>1, Zenon
    <2>7. t \in TokenSet(l) /\ t.start = b /\ t.end = e /\ t.quoted /\ t.cursor = d
      BY <2>5, <2>6 DEF TokenSet
    <2>8. b <= e
      BY <1>1, <2>3
    <2> QED
      BY <1>3, <2>1, <2>3, <2>5, <2>7, <2>8, Zenon DEF IsToken
  <1>6. CASE buf[f] # "nul" /\ buf[f] # "quote"
    <2>0. f \in 1..l /\ f # l /\ c <= f /\ c < l
      BY <1>1, <1>6
    <2>2. PICK e : e = FirstOf(buf, f, {"blank"})
      OBVIOUS
    <2>3. /\ e \in f..l /\ buf[e] \in {"blank", "nul"}
          /\ \A q \in f..l : q < e => buf[q] # "nul"
      <3>1. /\ FirstOf(buf, f, {"blank"}) \in f..l
            /\ buf[FirstOf(buf, f, {"blank"})] \in {"blank", "nul"}
            /\ \A q \in f..l : q < FirstOf(buf, f, {"blank"}) => buf[q] # "nul"
        BY <2>0, PlainEndIs
      <3> QED
        BY <2>2, <3>1, Zenon
    <2>6. t = [start |-> f, end |-> e, cursor |-> e, quoted |-> FALSE]
      BY <1>3, <1>6, <2>2, Zenon DEF TokenAt
    <2>7. t \in TokenSet(l) /\ t.start = f /\ t.end = e /\ t.cursor = e /\ f <= e /\ e <= e
      BY <1>1, <2>0, <2>3, <2>6 DEF TokenSet
    <2> QED
      BY <1>3, <2>0, <2>3, <2>7, Zenon DEF IsToken
  <1> QED
    BY <1>4, <1>5, <1>6

(* Two buffers that agree from c on have the same token there. *)
AgreeFrom(a, b, c, l) == \A q \in c..l : a[q] = b[q]

LEMMA TokenAgrees ==
  ASSUME NEW a, NEW b, NEW T, NEW l, IsBuffer(a, T, l), IsBuffer(b, T, l), NEW c \in 1..l,
         AgreeFrom(a, b, c, l)
  PROVE  Token(a, c) = Token(b, c)
  <1>1. l \in Nat /\ a[l] = "nul" /\ Len(a) = l /\ Len(b) = l /\ \A q \in c..l : a[q] = b[q]
    BY Zenon DEF IsBuffer, AgreeFrom
  <1>2. PICK f \in c..l : f = FirstFrom(a, c)
    BY FirstIs
  <1>3. {j \in c..l : a[j] # "blank"} = {j \in c..l : b[j] # "blank"}
    BY <1>1
  <1>4. f = FirstFrom(b, c)
    BY <1>1, <1>2, <1>3, Zenon DEF FirstFrom
  <1>5. a[f] = b[f]
    BY <1>1, Zenon
  <1>6. ASSUME NEW g \in 1..l, c <= g
        PROVE  QuoteEnd(a, g) = QuoteEnd(b, g) /\ a[QuoteEnd(a, g)] = b[QuoteEnd(b, g)]
    <2>1. \A j \in g..l : j \in c..l
      BY <1>1, <1>6
    <2>2. ASSUME NEW j \in g..l PROVE Escaped(a, g, j) = Escaped(b, g, j)
      <3>1. \A k \in g..(j - 1) : k \in c..l
        BY <1>1, <1>6
      <3>2. \A k \in g..(j - 1) : a[k] = b[k]
        BY <1>1, <3>1, Zenon
      <3>3. {k \in g..(j - 1) : a[k] # "backslash"} = {k \in g..(j - 1) : b[k] # "backslash"}
        BY <3>2, Zenon
      <3> QED
        BY <3>3, Zenon DEF Escaped
    <2>3. \A j \in g..l : a[j] = b[j]
      BY <1>1, <2>1, Zenon
    <2>4. {j \in g..l : a[j] = "nul" \/ (a[j] = "quote" /\ ~Escaped(a, g, j))}
            = {j \in g..l : b[j] = "nul" \/ (b[j] = "quote" /\ ~Escaped(b, g, j))}
      BY <2>2, <2>3, Zenon
    <2>5. QuoteEnd(a, g) = QuoteEnd(b, g)
      BY <1>1, <2>4, Zenon DEF QuoteEnd
    <2>6. QuoteEnd(a, g) \in g..l
      BY QuoteEndIs
    <2> QED
      BY <2>3, <2>5, <2>6, Zenon
  <1>7. FirstOf(a, f, {"blank"}) = FirstOf(b, f, {"blank"})
    <2>1. \A j \in f..l : j \in c..l
      BY <1>1
    <2>2. {j \in f..l : a[j] \in {"blank"} \cup {"nul"}}
            = {j \in f..l : b[j] \in {"blank"} \cup {"nul"}}
      BY <1>1, <2>1, Zenon
    <2> QED
      BY <1>1, <2>2, Zenon DEF FirstOf
  <1>8. TokenAt(a, f) = TokenAt(b, f)
    <2>1. CASE a[f] # "quote"
      BY <1>5, <1>7, <2>1, Zenon DEF TokenAt
    <2>2. CASE a[f] = "quote"
      <3>1. PICK g \in 1..l : g = f + 1 /\ c <= g
        <4>1. f # l
          BY <1>1, <2>2
        <4>2. f + 1 \in 1..l /\ c <= f + 1
          BY <1>1, <4>1
        <4> QED
          BY <4>2
      <3>2. PICK e : e = QuoteEnd(a, g) /\ e = QuoteEnd(b, g) /\ a[e] = b[e]
        BY <1>6, <3>1, Zenon
      <3>5. PICK d : d = IF a[e] = "quote" THEN e + 1 ELSE e
        OBVIOUS
      <3>3. TokenAt(a, f) = [start |-> g, end |-> e, quoted |-> TRUE, cursor |-> d]
        <4>1. e = QuoteEnd(a, f + 1)
          BY <3>1, <3>2, Zenon
        <4>2. a[f] # "nul"
          BY <2>2
        <4> QED
          BY <2>2, <3>1, <3>5, <4>1, <4>2 DEF TokenAt
      <3>4. TokenAt(b, f) = [start |-> g, end |-> e, quoted |-> TRUE, cursor |-> d]
        <4>1. e = QuoteEnd(b, f + 1)
          BY <3>1, <3>2, Zenon
        <4>2. b[f] # "nul" /\ b[f] = "quote"
          BY <1>5, <2>2
        <4> QED
          BY <3>1, <3>2, <3>5, <4>1, <4>2 DEF TokenAt
      <3> QED
        BY <3>3, <3>4, Zenon
    <2> QED
      BY <2>1, <2>2
  <1> QED
    BY <1>2, <1>4, <1>8, TokenBegins, Zenon

(* A blank before a token makes no difference. *)
LEMMA TokenBehindBlank ==
  ASSUME NEW buf, NEW T, NEW l, IsBuffer(buf, T, l), NEW c \in 1..l, buf[c] = "blank",
         NEW d \in Nat, d = c + 1
  PROVE  d \in 1..l /\ Token(buf, d) = Token(buf, c)
  <1>1. l \in Nat /\ buf[l] = "nul" /\ Len(buf) = l
    BY Zenon DEF IsBuffer
  <1>2. d \in 1..l
    <2>1. c # l
      BY <1>1
    <2> QED
      BY <1>1, <2>1
  <1>3. {j \in c..l : buf[j] # "blank"} = {j \in d..l : buf[j] # "blank"}
    <2>1. \A j : j \in c..l <=> j = c \/ j \in d..l
      BY <1>1
    <2> QED
      BY <2>1, Zenon
  <1>4. FirstFrom(buf, c) = FirstFrom(buf, d)
    BY <1>1, <1>3, Zenon DEF FirstFrom
  <1> QED
    BY <1>2, <1>4, TokenBegins, Zenon

(* Nothing is behind the "nul". *)
LEMMA NoTokenAtEnd ==
  ASSUME NEW buf, NEW T, NEW l, IsBuffer(buf, T, l)
  PROVE  Token(buf, l) = NoToken
  <1>1. l \in Nat /\ l # 0
    BY Zenon DEF IsBuffer
  <1>2. l \in 1..l /\ ~(l < l)
    BY <1>1
  <1> QED
    BY <1>2, TokenIs, Zenon DEF IsToken

(* A string that is written to a buffer. *)
IsOverwritten(N, l, buf, i, s, n, w) ==
  /\ w \in Seq(N) /\ Len(w) = l
  /\ \A q \in 1..l : (q < i \/ i + n <= q) => w[q] = buf[q]
  /\ \A q \in 1..l, r \in 1..n : q + 1 = i + r => w[q] = s[r]

LEMMA Overwritten ==
  ASSUME NEW N, NEW l \in Nat, NEW buf \in Seq(N), Len(buf) = l, NEW s \in Seq(N), NEW n \in Nat,
         n = Len(s), NEW i \in 1..l, i + n <= l + 1
  PROVE  IsOverwritten(N, l, buf, i, s, n, Overwrite(buf, i, s))
  <1>1. DOMAIN buf = 1..l /\ \A q \in 1..l : buf[q] \in N
    BY ElementOfSeq
  <1>2. PICK w : w = [j \in 1..l |-> IF j \in i..(i + n - 1) THEN s[j - i + 1] ELSE buf[j]]
    OBVIOUS
  <1>3. w = Overwrite(buf, i, s)
    BY <1>1, <1>2, Zenon DEF Overwrite
  <1>4. ASSUME NEW q \in 1..l, q < i \/ i + n <= q PROVE w[q] = buf[q]
    <2>1. q \notin i..(i + n - 1)
      BY <1>4
    <2> QED
      BY <1>2, <2>1
  <1>5. ASSUME NEW q \in 1..l, NEW r \in 1..n, q + 1 = i + r PROVE w[q] = s[r]
    <2>1. q \in i..(i + n - 1) /\ q - i + 1 = r
      BY <1>5
    <2> QED
      BY <1>2, <2>1
  <1>6. ASSUME NEW q \in 1..l PROVE w[q] \in N
    <2>1. CASE q < i \/ i + n <= q
      BY <1>1, <1>4, <2>1
    <2>2. CASE ~(q < i \/ i + n <= q)
      <3>1. PICK r \in 1..n : q + 1 = i + r
        <4>1. (q + 1) - i \in 1..n /\ q + 1 = i + ((q + 1) - i)
          BY <2>2
        <4> QED
          BY <4>1
      <3>2. s[r] \in N
        BY ElementOfSeq
      <3> QED
        BY <1>5, <3>1, <3>2
    <2> QED
      BY <2>1, <2>2
  <1>7. w \in [1..l -> N]
    BY <1>2, <1>6
  <1>8. w \in Seq(N) /\ Len(w) = l
    BY <1>7
  <1> QED
    BY <1>3, <1>4, <1>5, <1>8, Zenon DEF IsOverwritten

(* A string is in a buffer from i on. *)
IsThere(buf, i, u, l) ==
  /\ \A q \in 1..Len(u), p \in 1..l : p + 1 = i + q => buf[p] = u[q]
  /\ \A p \in 1..l : p = i + Len(u) => buf[p] = "nul"

(* What a token's place holds when it has been cut out. *)
CutAs(buf, l, t, u, r) ==
  /\ Len(u) \in Nat /\ t.start + Len(u) <= t.end /\ IsThere(r, t.start, u, l)
  /\ \A q \in 1..l : (q < t.start \/ t.end < q) => r[q] = buf[q]

LEMMA CutOutIs ==
  ASSUME NEW buf, NEW T, NEW l, IsBuffer(buf, T, l), NEW c, NEW t, IsToken(buf, l, c, t)
  PROVE  /\ IsBuffer(CutOut(buf, t), T, l)
         /\ Unescape(SubSeq(buf, t.start, t.end - 1)) \in Seq(T)
         /\ CutAs(buf, l, t, Unescape(SubSeq(buf, t.start, t.end - 1)), CutOut(buf, t))
  <1>1. PICK N : N = T \cup {"nul"}
    OBVIOUS
  <1>2. /\ l \in Nat /\ buf[l] = "nul" /\ Len(buf) = l /\ buf \in Seq(N) /\ l # 0 /\ "nul" \notin T
        /\ T \subseteq N /\ "nul" \in N
    BY <1>1, Zenon DEF IsBuffer
  <1>3. PICK b \in 1..l, e \in 1..l : b = t.start /\ e = t.end
    BY Zenon DEF IsToken, TokenSet
  <1>4. b <= e /\ \A q \in b..l : q < e => buf[q] # "nul"
    BY <1>3, Zenon DEF IsToken
  <1>5. PICK n : n = <<"nul">>
    OBVIOUS
  <1>6. PICK v : v = Overwrite(buf, e, n)
    OBVIOUS
  <1>7. /\ v \in Seq(N) /\ Len(v) = l /\ v[e] = "nul"
        /\ \A q \in 1..l : (q < e \/ e < q) => v[q] = buf[q]
    <2>0. PICK o \in Nat : o = 1
      OBVIOUS
    <2>1. n \in Seq(N) /\ o = Len(n) /\ n[o] = "nul" /\ o \in 1..o /\ e + o <= l + 1
      BY <1>2, <1>5, <2>0
    <2>2. /\ v \in Seq(N) /\ Len(v) = l
          /\ \A q \in 1..l : (q < e \/ e + o <= q) => v[q] = buf[q]
          /\ \A q \in 1..l, r \in 1..o : q + 1 = e + r => v[q] = n[r]
      <3>1. IsOverwritten(N, l, buf, e, n, o, Overwrite(buf, e, n))
        BY <1>2, <2>1, Overwritten, Zenon
      <3> QED
        BY <1>6, <3>1, Zenon DEF IsOverwritten
    <2>3. v[e] = "nul"
      BY <2>0, <2>1, <2>2
    <2>4. \A q \in 1..l : e < q => e + o <= q
      BY <2>0
    <2> QED
      BY <2>2, <2>3, <2>4, Zenon
  <1>8. PICK d \in Nat : d = e - b /\ e = b + d
    BY <1>4
  <1>9. PICK x : x = SubSeq(buf, b, e - 1)
    OBVIOUS
  <1>10. x \in Seq(N) /\ Len(x) = d /\ \A q \in 1..d : x[q] = buf[b + q - 1]
    <2>1. b \in Nat /\ e - 1 \in Nat /\ 1 <= b /\ b <= (e - 1) + 1 /\ e - 1 <= Len(buf)
      BY <1>2, <1>4
    <2>2. (e - 1) + 1 - b = d
      BY <1>8
    <2>3. /\ x \in Seq(N) /\ Len(x) = (e - 1) + 1 - b
          /\ \A q \in 1..((e - 1) + 1 - b) : x[q] = buf[b + q - 1]
      BY <1>2, <1>9, <2>1, Part
    <2> QED
      BY <2>2, <2>3
  <1>11. x \in Seq(T)
    <2>1. ASSUME NEW q \in 1..d PROVE x[q] \in T
      <3>1. PICK r \in b..l : r = b + q - 1 /\ r < e /\ r \in 1..l
        <4>1. b + q - 1 \in b..l /\ b + q - 1 < e /\ b + q - 1 \in 1..l
          BY <1>2, <1>8
        <4> QED
          BY <4>1
      <3>2. x[q] = buf[r] /\ buf[r] # "nul" /\ buf[r] \in N
        <4>1. buf[r] \in N
          BY <1>2, <3>1, ElementOfSeq
        <4> QED
          BY <1>4, <1>10, <3>1, <4>1
      <3> QED
        BY <1>1, <3>2
    <2>2. x \in [1..d -> T]
      <3>1. x = [q \in 1..d |-> x[q]]
        BY <1>10
      <3> QED
        BY <2>1, <3>1
    <2> QED
      BY <2>2
  <1>12. CString(v, b) = x
    <2>1. \A q \in b..l : q < e => v[q] # "nul"
      <3>1. \A q \in b..l : q \in 1..l
        OBVIOUS
      <3> QED
        BY <1>4, <1>7, <3>1, Zenon
    <2>2. e \in b..l
      BY <1>4
    <2>3. CString(v, b) = SubSeq(v, b, e - 1)
      BY <1>2, <1>7, <2>1, <2>2, CStringFrom
    <2>4. PICK y : y = SubSeq(v, b, e - 1)
      OBVIOUS
    <2>5. y \in Seq(N) /\ Len(y) = d /\ \A q \in 1..d : y[q] = v[b + q - 1]
      <3>1. b \in Nat /\ e - 1 \in Nat /\ 1 <= b /\ b <= (e - 1) + 1 /\ e - 1 <= Len(v)
        BY <1>2, <1>4, <1>7
      <3>2. (e - 1) + 1 - b = d
        BY <1>8
      <3>3. /\ y \in Seq(N) /\ Len(y) = (e - 1) + 1 - b
            /\ \A q \in 1..((e - 1) + 1 - b) : y[q] = v[b + q - 1]
        BY <1>7, <2>4, <3>1, Part
      <3> QED
        BY <3>2, <3>3
    <2>6. ASSUME NEW q \in 1..d PROVE x[q] = y[q]
      <3>1. PICK r \in 1..l : r = b + q - 1 /\ r < e
        <4>1. b + q - 1 \in 1..l /\ b + q - 1 < e
          BY <1>2, <1>8
        <4> QED
          BY <4>1
      <3>2. x[q] = buf[r] /\ y[q] = v[r]
        BY <1>10, <2>5, <3>1
      <3> QED
        BY <1>7, <3>1, <3>2, Zenon
    <2>7. x = y
      <3>1. Len(x) = Len(y) /\ \A q \in 1..Len(x) : x[q] = y[q]
        BY <1>10, <2>5, <2>6, Zenon
      <3> QED
        BY <1>10, <2>5, <3>1, SeqEqual, Zenon
    <2> QED
      BY <2>3, <2>4, <2>7, Zenon
  <1>13. PICK u : u = Unescape(x)
    OBVIOUS
  <1>14. PICK m \in Nat : m = Len(u) /\ m <= d /\ u \in Seq(T)
    BY <1>10, <1>11, <1>13, UnescapedIs, LenProperties
  <1>15. PICK z : z = Buffer(u)
    OBVIOUS
  <1>16. z \in Seq(N) /\ Len(z) = m + 1 /\ z[m + 1] = "nul" /\ \A q \in 1..m : z[q] = u[q]
    <2>1. IsOutput(u, T, m, z)
      BY <1>2, <1>14, <1>15, OutputBuffer, Zenon
    <2> QED
      BY <1>1, <2>1, Zenon DEF IsOutput
  <1>17. PICK w : w = Overwrite(v, b, z)
    OBVIOUS
  <1>18. PICK k \in Nat : k = m + 1 /\ b + k <= e + 1 /\ e + 1 <= l + 1 /\ b + k <= l + 1
    <2>1. m + 1 \in Nat /\ b + (m + 1) <= e + 1 /\ e + 1 <= l + 1 /\ b + (m + 1) <= l + 1
      BY <1>2, <1>8, <1>14
    <2> QED
      BY <2>1
  <1>19. /\ w \in Seq(N) /\ Len(w) = l
         /\ \A q \in 1..l : (q < b \/ b + k <= q) => w[q] = v[q]
         /\ \A q \in 1..l, r \in 1..k : q + 1 = b + r => w[q] = z[r]
    <2>1. k = Len(z)
      BY <1>16, <1>18
    <2>2. IsOverwritten(N, l, v, b, z, k, Overwrite(v, b, z))
      BY <1>2, <1>7, <1>16, <1>18, <2>1, Overwritten, Zenon
    <2> QED
      BY <1>17, <2>2, Zenon DEF IsOverwritten
  <1>20. CutOut(buf, t) = w
    BY <1>3, <1>5, <1>6, <1>12, <1>13, <1>15, <1>17, Zenon DEF CutOut
  <1>21. ASSUME NEW q \in 1..l, q < b \/ e < q PROVE w[q] = buf[q]
    <2>1. (q < b \/ b + k <= q) /\ (q < e \/ e < q)
      BY <1>4, <1>18, <1>21
    <2> QED
      BY <1>7, <1>19, <2>1, Zenon
  <1>22. ASSUME NEW p \in 1..l, p = b + m PROVE w[p] = "nul"
    <2>1. k \in 1..k /\ p + 1 = b + k
      BY <1>18, <1>22
    <2>2. w[p] = z[k]
      BY <1>19, <2>1, Zenon
    <2> QED
      BY <1>16, <1>18, <2>2
  <1>23. ASSUME NEW q \in 1..m, NEW p \in 1..l, p + 1 = b + q PROVE w[p] = u[q]
    <2>1. q \in 1..k
      BY <1>18
    <2> QED
      BY <1>16, <1>19, <1>23, <2>1, Zenon
  <1>24. w[l] = "nul"
    <2>1. l \in 1..l
      BY <1>2
    <2>2. CASE e < l
      BY <1>2, <1>21, <2>1, <2>2, Zenon
    <2>3. CASE ~(e < l) /\ l = b + m
      BY <1>22, <2>1, <2>3, Zenon
    <2>4. CASE ~(e < l) /\ l # b + m
      <3>1. e = l /\ b + k <= l
        BY <1>2, <1>18, <2>4
      <3> QED
        BY <1>7, <1>19, <2>1, <3>1, Zenon
    <2> QED
      BY <2>2, <2>3, <2>4
  <1>25. IsBuffer(w, T, l)
    BY <1>1, <1>2, <1>19, <1>24, Zenon DEF IsBuffer
  <1>26. t.start + Len(u) <= t.end
    BY <1>3, <1>8, <1>14
  <1>27. CutAs(buf, l, t, u, w)
    BY <1>3, <1>14, <1>21, <1>22, <1>23, <1>26, Zenon DEF CutAs, IsThere
  <1>28. u = Unescape(SubSeq(buf, t.start, t.end - 1))
    BY <1>3, <1>9, <1>13, Zenon
  <1> QED
    BY <1>14, <1>20, <1>25, <1>27, <1>28, Zenon

(* What the first pass counts: tokens that follow each other. *)
AreTokens(buf, l, tokens) ==
  /\ tokens \in Seq(TokenSet(l)) /\ Len(tokens) \in Nat
  /\ \A i \in 1..Len(tokens) : tokens[i] # NoToken
  /\ \A i \in 1..Len(tokens) : i = 1 => tokens[i] = Token(buf, 1)
  /\ \A i, j \in 1..Len(tokens) : j = i + 1 => tokens[j] = Token(buf, tokens[i].cursor)

LEMMA OneTokenStays ==
  ASSUME NEW buf, NEW T, NEW l, IsBuffer(buf, T, l), NEW tokens \in Seq(TokenSet(l))
  PROVE  /\ OneToken(buf, tokens) \in Seq(TokenSet(l))
         /\ AreTokens(buf, l, tokens) => AreTokens(buf, l, OneToken(buf, tokens))
  <1>1. PICK n \in Nat : n = Len(tokens) /\ \A i \in 1..n : tokens[i] \in TokenSet(l)
    BY ElementOfSeq, LenProperties
  <1>2. l \in Nat /\ l # 0
    BY Zenon DEF IsBuffer
  <1>3. PICK c \in 1..l : /\ n = 0 => c = 1
                          /\ n # 0 => c = tokens[n].cursor
                          /\ c = IF tokens = <<>> THEN 1 ELSE Last(tokens).cursor
    <2>1. CASE n = 0
      <3>1. tokens = <<>>
        BY <1>1, <2>1, EmptySeq, Zenon
      <3>2. 1 \in 1..l
        BY <1>2
      <3> QED
        BY <2>1, <3>1, <3>2, Zenon
    <2>2. CASE n # 0
      <3>1. tokens # <<>>
        BY <1>1, <2>2
      <3>2. Last(tokens) = tokens[n]
        BY <1>1, Zenon DEF Last
      <3>3. n \in 1..n
        BY <2>2
      <3>4. tokens[n].cursor \in 1..l
        BY <1>1, <3>3, Zenon DEF TokenSet
      <3> QED
        BY <2>2, <3>1, <3>2, <3>4, Zenon
    <2> QED
      BY <2>1, <2>2
  <1>4. PICK t : t = Token(buf, c)
    OBVIOUS
  <1>5. OneToken(buf, tokens) = IF t = NoToken THEN tokens ELSE Append(tokens, t)
    BY <1>3, <1>4, Zenon DEF OneToken
  <1>6. CASE t = NoToken
    BY <1>5, <1>6, Zenon
  <1>7. CASE t # NoToken
    <2>1. t \in TokenSet(l)
      <3>1. IsToken(buf, l, c, t)
        BY <1>4, <1>7, TokenIs, Zenon
      <3> QED
        BY <3>1, Zenon DEF IsToken
    <2>2. PICK more : more = Append(tokens, t)
      OBVIOUS
    <2>3. PICK m \in Nat : m = n + 1
      OBVIOUS
    <2>4. /\ more \in Seq(TokenSet(l)) /\ Len(more) = m /\ more[m] = t
          /\ \A i \in 1..n : more[i] = tokens[i]
      BY <1>1, <2>1, <2>2, <2>3, AppendProperties
    <2>5. ASSUME AreTokens(buf, l, tokens) PROVE AreTokens(buf, l, more)
      <3>1. \A i \in 1..m : i = m \/ i \in 1..n
        BY <2>3
      <3>2. \A i \in 1..n : tokens[i] # NoToken
        BY <1>1, <2>5, Zenon DEF AreTokens
      <3>3. ASSUME NEW i \in 1..m PROVE more[i] # NoToken
        BY <1>7, <2>4, <3>1, <3>2, Zenon
      <3>4. ASSUME NEW i \in 1..m, i = 1 PROVE more[i] = Token(buf, 1)
        <4>1. CASE i = m
          <5>1. n = 0
            BY <2>3, <3>4, <4>1
          <5> QED
            BY <1>3, <1>4, <2>4, <4>1, <5>1, Zenon
        <4>2. CASE i \in 1..n
          <5>1. tokens[i] = Token(buf, 1)
            BY <1>1, <2>5, <3>4, <4>2, Zenon DEF AreTokens
          <5> QED
            BY <2>4, <4>2, <5>1, Zenon
        <4> QED
          BY <3>1, <4>1, <4>2, Zenon
      <3>5. ASSUME NEW i \in 1..m, NEW j \in 1..m, j = i + 1
            PROVE  more[j] = Token(buf, more[i].cursor)
        <4>1. i \in 1..n
          BY <2>3, <3>5
        <4>2. CASE j = m
          <5>1. i = n /\ n # 0
            BY <2>3, <3>5, <4>2
          <5> QED
            BY <1>3, <1>4, <2>4, <4>1, <4>2, <5>1, Zenon
        <4>3. CASE j \in 1..n
          <5>1. tokens[j] = Token(buf, tokens[i].cursor)
            BY <1>1, <2>5, <3>5, <4>1, <4>3, Zenon DEF AreTokens
          <5> QED
            BY <2>4, <4>1, <4>3, <5>1, Zenon
        <4> QED
          BY <3>1, <4>2, <4>3, Zenon
      <3> QED
        BY <2>3, <2>4, <3>3, <3>4, <3>5, Zenon DEF AreTokens
    <2> QED
      BY <1>5, <1>7, <2>2, <2>4, <2>5, Zenon
  <1> QED
    BY <1>6, <1>7

LEMMA TokensCounted ==
  ASSUME NEW buf, NEW T, NEW l, IsBuffer(buf, T, l)
  PROVE  AreTokens(buf, l, Tokens(buf))
  <1>1. PICK S : S = Seq(TokenSet(l))
    OBVIOUS
  <1>2. PICK z \in S : z = <<>> /\ AreTokens(buf, l, z)
    <2>1. PICK z : z = <<>>
      OBVIOUS
    <2>2. z \in S /\ Len(z) = 0 /\ Len(z) \in Nat /\ \A i \in 1..Len(z) : FALSE
      BY <1>1, <2>1
    <2> QED
      BY <1>1, <2>1, <2>2, Zenon DEF AreTokens
  <1>3. \A x \in S : /\ OneToken(buf, x) \in S
                     /\ AreTokens(buf, l, x) => AreTokens(buf, l, OneToken(buf, x))
    BY <1>1, OneTokenStays, Zenon
  <1> DEFINE step == [k \in Nat |-> [x \in S |-> OneToken(buf, x)]]
  <1>4. step \in [Nat -> [S -> S]]
    BY <1>3
  <1>5. PICK f \in [Nat -> S] : f = [k \in Nat |-> IF k = 0 THEN z ELSE step[k][f[k - 1]]]
    <2> HIDE DEF step
    <2>1. \E f : IsRecursion(S, z, step, f)
      BY <1>4, Recursion, Zenon
    <2> QED
      BY <2>1, Zenon DEF IsRecursion
  <1>6. f = [k \in Nat |-> IF k = 0 THEN z ELSE OneToken(buf, f[k - 1])]
    <2>1. ASSUME NEW k \in Nat PROVE f[k] = IF k = 0 THEN z ELSE OneToken(buf, f[k - 1])
      <3>1. CASE k = 0
        BY <1>5, <3>1
      <3>2. CASE k # 0
        <4>1. k - 1 \in Nat
          BY <3>2
        <4>2. f[k] = step[k][f[k - 1]]
          BY <1>5, <3>2
        <4> QED
          BY <3>2, <4>1, <4>2
      <3> QED
        BY <3>1, <3>2
    <2> QED
      BY <1>5, <2>1
  <1>7. PICK g : g = Counting(buf)
    OBVIOUS
  <1>8. g = [k \in Nat |-> IF k = 0 THEN z ELSE OneToken(buf, g[k - 1])]
    BY <1>2, <1>6, <1>7 DEF Counting
  <1> DEFINE K == {k \in Nat : g[k] \in S /\ AreTokens(buf, l, g[k])}
  <1>9. \A k \in Nat : k \in K
    <2>1. 0 \in K
      BY <1>2, <1>8
    <2>2. ASSUME NEW k \in Nat, k \in K PROVE k + 1 \in K
      <3>1. PICK j \in Nat : j = k + 1 /\ j # 0 /\ j - 1 = k
        OBVIOUS
      <3>2. g[j] = OneToken(buf, g[k])
        BY <1>8, <3>1
      <3>3. g[j] \in S /\ AreTokens(buf, l, g[j])
        BY <1>3, <2>2, <3>2, Zenon
      <3> QED
        BY <3>1, <3>3
    <2> HIDE DEF K
    <2> QED
      BY <2>1, <2>2, AllNumbers
  <1>10. l \in Nat /\ Len(buf) = l
    BY Zenon DEF IsBuffer
  <1> QED
    BY <1>7, <1>9, <1>10, Zenon DEF Tokens

(* The second pass keeps a buffer. *)
SecondPass(T, l) ==
  {s \in [buf : Seq(T \cup {"nul"}), cursor : 1..l, argv : Seq(1..l), crashed : BOOLEAN] :
     IsBuffer(s.buf, T, l)}

LEMMA CutTokenIs ==
  ASSUME NEW T, NEW l, NEW s \in SecondPass(T, l), ~s.crashed, NEW t, t = Token(s.buf, s.cursor),
         t # NoToken
  PROVE  /\ IsToken(s.buf, l, s.cursor, t) /\ Onward(s.buf, t) \in t.cursor..l
         /\ CutToken(s) = [buf |-> CutOut(s.buf, t), cursor |-> Onward(s.buf, t),
                           argv |-> Append(s.argv, t.start), crashed |-> FALSE]
         /\ CutToken(s) \in SecondPass(T, l)
  <1>1. s.cursor \in 1..l /\ s.argv \in Seq(1..l) /\ IsBuffer(s.buf, T, l)
    BY DEF SecondPass
  <1>2. IsToken(s.buf, l, s.cursor, t)
    BY <1>1, TokenIs, Zenon
  <1>3. l \in Nat /\ s.buf[l] = "nul"
    BY <1>1, Zenon DEF IsBuffer
  <1>4. t.start \in 1..l /\ t.cursor \in 1..l
    BY <1>2, Zenon DEF IsToken, TokenSet
  <1>5. Onward(s.buf, t) \in t.cursor..l
    <2>1. CASE s.buf[t.cursor] = "nul"
      BY <1>3, <1>4, <2>1 DEF Onward
    <2>2. CASE s.buf[t.cursor] # "nul"
      <3>1. t.cursor # l
        BY <1>3, <2>2
      <3> QED
        BY <1>3, <1>4, <2>2, <3>1 DEF Onward
    <2> QED
      BY <2>1, <2>2
  <1>6. CutToken(s) = [buf |-> CutOut(s.buf, t), cursor |-> Onward(s.buf, t),
                       argv |-> Append(s.argv, t.start), crashed |-> FALSE]
    BY Zenon DEF CutToken
  <1>7. CutToken(s) \in SecondPass(T, l)
    <2>1. PICK b : b = CutOut(s.buf, t)
      OBVIOUS
    <2>2. IsBuffer(b, T, l)
      BY <1>1, <1>2, <2>1, CutOutIs, Zenon
    <2>3. b \in Seq(T \cup {"nul"})
      BY <2>2, Zenon DEF IsBuffer
    <2>4. PICK c \in 1..l : c = Onward(s.buf, t)
      BY <1>4, <1>5
    <2>5. PICK a \in Seq(1..l) : a = Append(s.argv, t.start)
      BY <1>1, <1>4, AppendProperties
    <2> QED
      BY <1>6, <2>1, <2>2, <2>3, <2>4, <2>5 DEF SecondPass
  <1> QED
    BY <1>2, <1>5, <1>6, <1>7, Zenon

LEMMA SecondPassGoesOn ==
  ASSUME NEW T, NEW l, NEW s \in SecondPass(T, l)
  PROVE  CutToken(s) \in SecondPass(T, l)
  <1>1. CASE s.crashed \/ Token(s.buf, s.cursor) = NoToken
    <2>1. CutToken(s) = [s EXCEPT !.crashed = TRUE]
      BY <1>1, Zenon DEF CutToken
    <2> QED
      BY <2>1 DEF SecondPass
  <1>2. CASE ~s.crashed /\ Token(s.buf, s.cursor) # NoToken
    BY <1>2, CutTokenIs, Zenon
  <1> QED
    BY <1>1, <1>2

(* After k rounds of the second pass: it has cut out the first k tokens of *)
(* buf, each argument stands where its token did, and what is still to be  *)
(* read is as it was.                                                      *)
Argument(buf, t) == Unescape(SubSeq(buf, t.start, t.end - 1))
Stands(buf, l, b, t, c) ==
  /\ Len(Argument(buf, t)) \in Nat /\ t.start + Len(Argument(buf, t)) <= t.end
  /\ IsThere(b, t.start, Argument(buf, t), l) /\ (t.end < c \/ c = l)
ArgsReady(buf, T, l, tokens, k, s) ==
  /\ s \in SecondPass(T, l) /\ ~s.crashed /\ Len(s.argv) = k
  /\ AgreeFrom(s.buf, buf, s.cursor, l)
  /\ k = 0 => s.cursor = 1
  /\ k # 0 => Token(buf, s.cursor) = Token(buf, tokens[k].cursor)
  /\ \A i \in 1..k : s.argv[i] = tokens[i].start /\ Stands(buf, l, s.buf, tokens[i], s.cursor)

(* No token in quotes has another right behind it. *)
Apart(buf, tokens) ==
  \A i \in 1..Len(tokens) : tokens[i].quoted => buf[tokens[i].cursor] \in {"blank", "nul"}

(* Nothing ends it before. *)
OnlyEnd(buf, l) == \A q \in 1..l : q < l => buf[q] # "nul"

(* What is cut out at one place is not touched at another. *)
LEMMA StillStands ==
  ASSUME NEW buf, NEW T, NEW l, IsBuffer(buf, T, l), NEW t \in TokenSet(l), NEW a, NEW b,
         NEW c \in 1..l, NEW d \in 1..l, Stands(buf, l, a, t, c), NEW u \in TokenSet(l),
         c # l, c <= u.start, u.end <= d, c <= d,
         \A q \in 1..l : q < u.start \/ u.end < q => b[q] = a[q]
  PROVE  Stands(buf, l, b, t, d)
  <1>1. l \in Nat
    BY Zenon DEF IsBuffer
  <1>2. PICK x : x = Argument(buf, t)
    OBVIOUS
  <1>3. PICK m \in Nat : m = Len(x) /\ t.start + m <= t.end
    BY <1>2, Zenon DEF Stands
  <1>4. IsThere(a, t.start, x, l) /\ t.end < c
    BY <1>2, Zenon DEF Stands
  <1>5. PICK i \in 1..l, j \in 1..l, f \in 1..l : i = t.start /\ j = t.end /\ f = u.start
    BY Zenon DEF TokenSet
  <1>6. ASSUME NEW p \in 1..l, p <= j PROVE b[p] = a[p]
    <2>1. p < f
      BY <1>1, <1>4, <1>5, <1>6
    <2> QED
      BY <1>5, <2>1, Zenon
  <1>7. ASSUME NEW q \in 1..m, NEW p \in 1..l, p + 1 = i + q PROVE b[p] = x[q]
    <2>1. p <= j
      BY <1>1, <1>3, <1>5, <1>7
    <2>2. a[p] = x[q]
      BY <1>3, <1>4, <1>5, <1>7, Zenon DEF IsThere
    <2> QED
      BY <1>6, <2>1, <2>2, Zenon
  <1>8. ASSUME NEW p \in 1..l, p = i + m PROVE b[p] = "nul"
    <2>1. p <= j
      BY <1>1, <1>3, <1>5, <1>8
    <2>2. a[p] = "nul"
      BY <1>3, <1>4, <1>5, <1>8, Zenon DEF IsThere
    <2> QED
      BY <1>6, <2>1, <2>2, Zenon
  <1>9. IsThere(b, i, x, l)
    BY <1>3, <1>7, <1>8, Zenon DEF IsThere
  <1>10. j < d
    BY <1>1, <1>4, <1>5
  <1> QED
    BY <1>2, <1>3, <1>5, <1>9, <1>10, Zenon DEF Stands

LEMMA CutsOutTheNext ==
  ASSUME NEW buf, NEW T, NEW l, IsBuffer(buf, T, l), NEW tokens, AreTokens(buf, l, tokens),
         OnlyEnd(buf, l), Apart(buf, tokens), NEW k \in Nat, k < Len(tokens),
         NEW j \in Nat, j = k + 1,
         NEW s, ArgsReady(buf, T, l, tokens, k, s)
  PROVE  ArgsReady(buf, T, l, tokens, j, CutToken(s))
  <1>1. PICK n \in Nat : n = Len(tokens) /\ k < n
    BY Zenon DEF AreTokens
  <1>2. \A i \in 1..n : tokens[i] \in TokenSet(l) /\ tokens[i] # NoToken
    BY <1>1, ElementOfSeq DEF AreTokens
  <1>3. j \in 1..n /\ j # 0
    BY <1>1
  <1>4. /\ s \in SecondPass(T, l) /\ ~s.crashed /\ Len(s.argv) = k
        /\ AgreeFrom(s.buf, buf, s.cursor, l)
        /\ \A i \in 1..k : s.argv[i] = tokens[i].start /\ Stands(buf, l, s.buf, tokens[i], s.cursor)
    BY Zenon DEF ArgsReady
  <1>5. PICK c \in 1..l : c = s.cursor
    BY <1>4, Zenon DEF SecondPass
  <1>6. IsBuffer(s.buf, T, l) /\ s.argv \in Seq(1..l)
    BY <1>4 DEF SecondPass
  <1>7. l \in Nat /\ buf[l] = "nul" /\ \A q \in 1..l : buf[q] = "nul" \/ buf[q] \in T
    <2>1. l \in Nat /\ buf[l] = "nul" /\ buf \in Seq(T \cup {"nul"}) /\ Len(buf) = l
      BY Zenon DEF IsBuffer
    <2> QED
      BY <2>1, ElementOfSeq
  <1>8. PICK t \in TokenSet(l) : t = tokens[j] /\ t # NoToken
    BY <1>2, <1>3, Zenon
  <1>9. t = Token(buf, c)
    <2>1. CASE k = 0
      <3>1. j = 1
        BY <2>1
      <3>2. t = Token(buf, 1)
        BY <1>1, <1>3, <1>8, <3>1, Zenon DEF AreTokens
      <3> QED
        BY <1>5, <2>1, <3>2, Zenon DEF ArgsReady
    <2>2. CASE k # 0
      <3>1. k \in 1..n
        BY <1>1, <2>2
      <3>2. t = Token(buf, tokens[k].cursor)
        BY <1>1, <1>3, <1>8, <3>1, Zenon DEF AreTokens
      <3> QED
        BY <1>5, <2>2, <3>2, Zenon DEF ArgsReady
    <2> QED
      BY <2>1, <2>2
  <1>10. t = Token(s.buf, s.cursor)
    <2>1. AgreeFrom(s.buf, buf, c, l)
      BY <1>4, <1>5, Zenon
    <2>2. Token(s.buf, c) = Token(buf, c)
      BY <1>6, <2>1, TokenAgrees
    <2> QED
      BY <1>5, <1>9, <2>2, Zenon
  <1>11. c # l
    <2>1. Token(buf, l) = NoToken
      BY NoTokenAtEnd
    <2> QED
      BY <1>8, <1>9, <2>1, Zenon
  <1>12. PICK r : r = CutToken(s)
    OBVIOUS
  <1>13. /\ IsToken(s.buf, l, s.cursor, t) /\ Onward(s.buf, t) \in t.cursor..l
         /\ r = [buf |-> CutOut(s.buf, t), cursor |-> Onward(s.buf, t),
                 argv |-> Append(s.argv, t.start), crashed |-> FALSE]
         /\ r \in SecondPass(T, l)
    <2>1. /\ IsToken(s.buf, l, s.cursor, t) /\ Onward(s.buf, t) \in t.cursor..l
          /\ CutToken(s) = [buf |-> CutOut(s.buf, t), cursor |-> Onward(s.buf, t),
                            argv |-> Append(s.argv, t.start), crashed |-> FALSE]
          /\ CutToken(s) \in SecondPass(T, l)
      <3> HIDE DEF SecondPass
      <3> QED
        BY <1>4, <1>8, <1>10, CutTokenIs
    <2> QED
      BY <1>12, <2>1, Zenon
  <1>14. PICK w \in 1..l, b \in 1..l, e \in 1..l, d \in 1..l :
           /\ w = t.cursor /\ b = t.start /\ e = t.end /\ d = Onward(s.buf, t)
           /\ c <= b /\ b <= e /\ e <= w /\ w <= d
    <2>1. t.cursor \in 1..l /\ t.start \in 1..l /\ t.end \in 1..l
      BY Zenon DEF TokenSet
    <2>2. c <= t.start /\ t.start <= t.end /\ t.end <= t.cursor
      BY <1>5, <1>13, Zenon DEF IsToken
    <2>3. Onward(s.buf, t) \in 1..l /\ t.cursor <= Onward(s.buf, t)
      BY <1>7, <1>13, <2>1
    <2> QED
      BY <2>1, <2>2, <2>3, Zenon
  <1>15. r.buf = CutOut(s.buf, t) /\ r.cursor = d /\ r.argv = Append(s.argv, b) /\ ~r.crashed
    BY <1>13, <1>14
  <1>16. \A q \in c..l : s.buf[q] = buf[q]
    BY <1>4, <1>5, Zenon DEF AgreeFrom
  <1>17. Argument(buf, t) = Unescape(SubSeq(s.buf, b, e - 1))
    <2>1. PICK N : N = T \cup {"nul"}
      OBVIOUS
    <2>2. PICK y, x : y = SubSeq(s.buf, b, e - 1) /\ x = SubSeq(buf, b, e - 1)
      OBVIOUS
    <2>3. PICK m \in Nat : m = e - b /\ (e - 1) + 1 - b = m
      <3>1. e - b \in Nat /\ (e - 1) + 1 - b = e - b
        BY <1>7, <1>14
      <3> QED
        BY <3>1
    <2>4. b \in Nat /\ e - 1 \in Nat /\ 1 <= b /\ b <= (e - 1) + 1 /\ e - 1 <= l
      BY <1>7, <1>14
    <2>5. y \in Seq(N) /\ Len(y) = m /\ \A q \in 1..m : y[q] = s.buf[b + q - 1]
      <3>1. s.buf \in Seq(N) /\ e - 1 <= Len(s.buf)
        BY <1>6, <2>1, <2>4, Zenon DEF IsBuffer
      <3>2. /\ y \in Seq(N) /\ Len(y) = (e - 1) + 1 - b
            /\ \A q \in 1..((e - 1) + 1 - b) : y[q] = s.buf[b + q - 1]
        BY <2>2, <2>4, <3>1, Part
      <3> QED
        BY <2>3, <3>2
    <2>6. x \in Seq(N) /\ Len(x) = m /\ \A q \in 1..m : x[q] = buf[b + q - 1]
      <3>1. buf \in Seq(N) /\ e - 1 <= Len(buf)
        BY <2>1, <2>4, Zenon DEF IsBuffer
      <3>2. /\ x \in Seq(N) /\ Len(x) = (e - 1) + 1 - b
            /\ \A q \in 1..((e - 1) + 1 - b) : x[q] = buf[b + q - 1]
        BY <2>2, <2>4, <3>1, Part
      <3> QED
        BY <2>3, <3>2
    <2>7. ASSUME NEW q \in 1..m PROVE y[q] = x[q]
      <3>1. PICK p \in c..l : p = b + q - 1
        <4>1. l \in Nat /\ c <= b /\ b <= e
          BY <1>7, <1>14, Zenon
        <4>2. b + q - 1 \in c..l
          BY <2>3, <4>1
        <4> QED
          BY <4>2
      <3>2. y[q] = s.buf[p] /\ x[q] = buf[p]
        BY <2>5, <2>6, <3>1
      <3> QED
        BY <1>16, <3>2, Zenon
    <2>8. y = x
      <3>1. Len(y) = Len(x) /\ \A q \in 1..Len(y) : y[q] = x[q]
        BY <2>5, <2>6, <2>7, Zenon
      <3> QED
        BY <2>5, <2>6, <3>1, SeqEqual, Zenon
    <2> QED
      BY <1>14, <2>2, <2>8, Zenon DEF Argument
  <1>18. CutAs(s.buf, l, t, Argument(buf, t), r.buf) /\ IsBuffer(r.buf, T, l)
    <2>1. /\ IsBuffer(CutOut(s.buf, t), T, l)
          /\ CutAs(s.buf, l, t, Unescape(SubSeq(s.buf, t.start, t.end - 1)), CutOut(s.buf, t))
      BY <1>6, <1>13, CutOutIs
    <2> QED
      BY <1>14, <1>15, <1>17, <2>1, Zenon
  <1>19. \A q \in 1..l : (q < b \/ e < q) => r.buf[q] = s.buf[q]
    BY <1>14, <1>18, Zenon DEF CutAs
  <1>20. buf[w] = "blank" \/ buf[w] = "nul"
    <2>1. CASE t.quoted
      BY <1>1, <1>3, <1>8, <1>14, <2>1, Zenon DEF Apart
    <2>2. CASE ~t.quoted
      <3>1. IsToken(buf, l, c, t)
        BY <1>8, <1>9, TokenIs, Zenon
      <3> QED
        BY <1>14, <2>2, <3>1, Zenon DEF IsToken
    <2> QED
      BY <2>1, <2>2
  <1>21. /\ e < d \/ d = l
         /\ AgreeFrom(r.buf, buf, d, l)
         /\ Token(buf, d) = Token(buf, w)
    <2>0. w \in c..l /\ s.buf[w] = buf[w]
      <3>1. w \in c..l
        BY <1>7, <1>14
      <3> QED
        BY <1>16, <3>1, Zenon
    <2>1. CASE buf[w] = "blank"
      <3>1. d = w + 1
        <4>1. s.buf[w] # "nul"
          BY <2>0, <2>1
        <4> QED
          BY <1>14, <4>1, Zenon DEF Onward
      <3>2. Token(buf, d) = Token(buf, w)
        BY <2>1, <3>1, TokenBehindBlank
      <3>3. e < d
        BY <1>7, <1>14, <3>1
      <3>4. ASSUME NEW q \in d..l PROVE r.buf[q] = buf[q]
        <4>1. q \in c..l /\ q \in 1..l /\ e < q
          BY <1>7, <1>14, <3>3
        <4> QED
          BY <1>16, <1>19, <4>1, Zenon
      <3> QED
        BY <3>2, <3>3, <3>4, Zenon DEF AgreeFrom
    <2>2. CASE buf[w] # "blank"
      <3>1. s.buf[w] = "nul" /\ buf[w] = "nul"
        BY <1>20, <2>0, <2>2
      <3>2. d = w
        BY <1>14, <3>1, Zenon DEF Onward
      <3>3. w = l
        <4>1. ~(w < l)
          BY <3>1, Zenon DEF OnlyEnd
        <4> QED
          BY <1>7, <4>1
      <3>4. r.buf[l] = "nul"
        BY <1>18, Zenon DEF IsBuffer
      <3>5. AgreeFrom(r.buf, buf, l, l)
        <4>1. \A q \in l..l : q = l
          BY <1>7
        <4> QED
          BY <1>7, <3>4, <4>1, Zenon DEF AgreeFrom
      <3> QED
        BY <3>2, <3>3, <3>5, Zenon
    <2> QED
      BY <2>1, <2>2
  <1>22. Len(r.argv) = j /\ r.argv[j] = b /\ \A i \in 1..k : r.argv[i] = s.argv[i]
    <2>1. PICK a : a = s.argv
      OBVIOUS
    <2>2. a \in Seq(1..l) /\ Len(a) = k /\ r.argv = Append(a, b)
      BY <1>4, <1>6, <1>15, <2>1, Zenon
    <2>3. PICK x : x = Append(a, b)
      OBVIOUS
    <2>4. Len(x) = k + 1 /\ x[k + 1] = b /\ \A i \in 1..k : x[i] = a[i]
      BY <2>2, <2>3, AppendProperties
    <2> QED
      BY <2>1, <2>2, <2>3, <2>4, Zenon
  <1>23. Stands(buf, l, r.buf, t, d)
    <2>1. /\ Len(Argument(buf, t)) \in Nat /\ t.start + Len(Argument(buf, t)) <= t.end
          /\ IsThere(r.buf, t.start, Argument(buf, t), l)
      BY <1>18, Zenon DEF CutAs
    <2> QED
      BY <1>14, <1>21, <2>1, Zenon DEF Stands
  <1>24. ASSUME NEW i \in 1..k PROVE Stands(buf, l, r.buf, tokens[i], d)
    <2>1. i \in 1..n
      BY <1>1
    <2>2. PICK v \in TokenSet(l) : v = tokens[i]
      BY <1>2, <2>1, Zenon
    <2>3. Stands(buf, l, s.buf, v, c)
      BY <1>4, <1>5, <2>2, Zenon
    <2>4. c <= t.start /\ t.end <= d /\ c <= d
      BY <1>7, <1>14
    <2>5. \A q \in 1..l : q < t.start \/ t.end < q => r.buf[q] = s.buf[q]
      BY <1>14, <1>19, Zenon
    <2>6. Stands(buf, l, r.buf, v, d)
      BY <1>11, <2>3, <2>4, <2>5, StillStands, Zenon
    <2> QED
      BY <2>2, <2>6, Zenon
  <1>25. ASSUME NEW i \in 1..j
         PROVE  r.argv[i] = tokens[i].start /\ Stands(buf, l, r.buf, tokens[i], d)
    <2>1. i = j \/ i \in 1..k
      OBVIOUS
    <2>2. CASE i = j
      BY <1>8, <1>14, <1>22, <1>23, <2>2, Zenon
    <2>3. CASE i \in 1..k
      BY <1>4, <1>22, <1>24, <2>3, Zenon
    <2> QED
      BY <2>1, <2>2, <2>3
  <1> QED
    BY <1>3, <1>8, <1>12, <1>13, <1>14, <1>15, <1>21, <1>22, <1>25, Zenon DEF ArgsReady

(* The second pass is repeated. *)
AreCut(T, l, buf, g) ==
  /\ \A k \in Nat : g[k] \in SecondPass(T, l)
  /\ g[0] = [buf |-> buf, cursor |-> 1, argv |-> <<>>, crashed |-> FALSE]
  /\ \A j, k \in Nat : k = j + 1 => g[k] = CutToken(g[j])

LEMMA CutRepeats ==
  ASSUME NEW buf, NEW T, NEW l, IsBuffer(buf, T, l)
  PROVE  AreCut(T, l, buf, Cut(buf))
  <1>1. PICK S : S = SecondPass(T, l)
    OBVIOUS
  <1>2. PICK z \in S : z = [buf |-> buf, cursor |-> 1, argv |-> <<>>, crashed |-> FALSE]
    <2>1. l \in Nat /\ l # 0 /\ buf \in Seq(T \cup {"nul"})
      BY Zenon DEF IsBuffer
    <2>2. 1 \in 1..l /\ <<>> \in Seq(1..l)
      BY <2>1
    <2>3. PICK z : z = [buf |-> buf, cursor |-> 1, argv |-> <<>>, crashed |-> FALSE]
      OBVIOUS
    <2>4. z.buf = buf
      BY <2>3
    <2>5. z \in [buf : Seq(T \cup {"nul"}), cursor : 1..l, argv : Seq(1..l), crashed : BOOLEAN]
      BY <2>1, <2>2, <2>3
    <2> QED
      BY <1>1, <2>3, <2>4, <2>5, Zenon DEF SecondPass
  <1>3. \A x \in S : CutToken(x) \in S
    BY <1>1, SecondPassGoesOn, Zenon
  <1> DEFINE step == [k \in Nat |-> [x \in S |-> CutToken(x)]]
  <1>4. step \in [Nat -> [S -> S]]
    BY <1>3
  <1>5. PICK f \in [Nat -> S] : f = [k \in Nat |-> IF k = 0 THEN z ELSE step[k][f[k - 1]]]
    <2> HIDE DEF step
    <2>1. \E f : IsRecursion(S, z, step, f)
      BY <1>4, Recursion, Zenon
    <2> QED
      BY <2>1, Zenon DEF IsRecursion
  <1>6. f = [k \in Nat |-> IF k = 0 THEN z ELSE CutToken(f[k - 1])]
    <2>1. ASSUME NEW k \in Nat PROVE f[k] = IF k = 0 THEN z ELSE CutToken(f[k - 1])
      <3>1. CASE k = 0
        BY <1>5, <3>1
      <3>2. CASE k # 0
        <4>1. k - 1 \in Nat
          BY <3>2
        <4>2. f[k] = step[k][f[k - 1]]
          BY <1>5, <3>2
        <4> QED
          BY <3>2, <4>1, <4>2
      <3> QED
        BY <3>1, <3>2
    <2> QED
      BY <1>5, <2>1
  <1>7. PICK g : g = Cut(buf)
    OBVIOUS
  <1>8. g = [k \in Nat |-> IF k = 0 THEN z ELSE CutToken(g[k - 1])]
    BY <1>2, <1>6, <1>7 DEF Cut
  <1>9. g[0] = z /\ \A j, k \in Nat : k = j + 1 => g[k] = CutToken(g[j])
    <2>1. g[0] = z
      BY <1>8
    <2>2. ASSUME NEW j \in Nat, NEW k \in Nat, k = j + 1 PROVE g[k] = CutToken(g[j])
      <3>1. k # 0 /\ k - 1 = j
        BY <2>2
      <3>2. g[k] = IF k = 0 THEN z ELSE CutToken(g[k - 1])
        BY <1>8
      <3> QED
        BY <3>1, <3>2, Zenon
    <2> QED
      BY <2>1, <2>2
  <1> DEFINE K == {k \in Nat : g[k] \in S}
  <1>10. \A k \in Nat : k \in K
    <2>1. 0 \in K
      BY <1>9
    <2>2. ASSUME NEW k \in Nat, k \in K PROVE k + 1 \in K
      <3>1. PICK j \in Nat : j = k + 1
        OBVIOUS
      <3>2. g[j] \in S
        BY <1>3, <1>9, <2>2, <3>1, Zenon
      <3> QED
        BY <3>1, <3>2
    <2> HIDE DEF K
    <2> QED
      BY <2>1, <2>2, AllNumbers
  <1> QED
    BY <1>1, <1>2, <1>7, <1>9, <1>10, Zenon DEF AreCut

(* cmdline_init_composite makes of a string of any length the tokens that  *)
(* it counted, unescaped, and never writes through a null pointer, as long *)
(* as no token in quotes has another right behind it.                      *)
THEOREM ArgumentsCut ==
  ASSUME NEW T, "nul" \notin T, NEW src \in Seq(T), Apart(Buffer(src), Tokens(Buffer(src)))
  PROVE  InitComposite(src)
           = [crashed |-> FALSE,
              args |-> [i \in DOMAIN Tokens(Buffer(src)) |->
                          Argument(Buffer(src), Tokens(Buffer(src))[i])]]
  <1>1. PICK m \in Nat, l \in Nat : m = Len(src) /\ l = m + 1
    BY LenProperties
  <1>2. PICK buf : buf = Buffer(src) /\ IsOutput(src, T, m, buf)
    BY <1>1, OutputBuffer
  <1>3. IsBuffer(buf, T, l) /\ OnlyEnd(buf, l)
    <2>1. /\ "nul" \notin T /\ buf \in Seq(T \cup {"nul"}) /\ Len(buf) = l /\ buf[l] = "nul"
          /\ \A q \in 1..m : buf[q] # "nul"
      BY <1>1, <1>2, Zenon DEF IsOutput
    <2>2. l # 0 /\ \A q \in 1..l : q < l => q \in 1..m
      BY <1>1
    <2> QED
      BY <2>1, <2>2, Zenon DEF IsBuffer, OnlyEnd
  <1>4. PICK tokens : tokens = Tokens(buf) /\ AreTokens(buf, l, tokens)
    BY <1>3, TokensCounted, Zenon
  <1>5. PICK n \in Nat : n = Len(tokens) /\ DOMAIN tokens = 1..n
    BY <1>4 DEF AreTokens
  <1>6. Apart(buf, tokens)
    BY <1>2, <1>4, Zenon
  <1>7. PICK g : g = Cut(buf) /\ AreCut(T, l, buf, g)
    BY <1>3, CutRepeats, Zenon
  <1> DEFINE K == {k \in Nat : k <= n => ArgsReady(buf, T, l, tokens, k, g[k])}
  <1>8. \A k \in Nat : k \in K
    <2>1. 0 \in K
      <3>1. g[0] = [buf |-> buf, cursor |-> 1, argv |-> <<>>, crashed |-> FALSE]
            /\ g[0] \in SecondPass(T, l)
        BY <1>7, Zenon DEF AreCut
      <3>2. g[0].buf = buf /\ g[0].cursor = 1 /\ g[0].argv = <<>> /\ ~g[0].crashed
        BY <3>1
      <3>3. AgreeFrom(buf, buf, 1, l)
        BY Zenon DEF AgreeFrom
      <3>4. Len(<<>>) = 0 /\ \A i \in 1..0 : FALSE
        OBVIOUS
      <3>5. ArgsReady(buf, T, l, tokens, 0, g[0])
        BY <3>1, <3>2, <3>3, <3>4, Zenon DEF ArgsReady
      <3> QED
        BY <3>5
    <2>2. ASSUME NEW k \in Nat, k \in K PROVE k + 1 \in K
      <3>1. PICK j \in Nat : j = k + 1
        OBVIOUS
      <3>2. ASSUME j <= n PROVE ArgsReady(buf, T, l, tokens, j, g[j])
        <4>1. k <= n /\ k < Len(tokens)
          BY <1>5, <3>1, <3>2
        <4>2. ArgsReady(buf, T, l, tokens, k, g[k])
          BY <2>2, <4>1
        <4>3. PICK s : s = g[k] /\ CutToken(s) = g[j]
          BY <1>7, <3>1, Zenon DEF AreCut
        <4>4. ArgsReady(buf, T, l, tokens, k, s)
          BY <4>2, <4>3, Zenon
        <4>5. ArgsReady(buf, T, l, tokens, j, CutToken(s))
          BY <1>3, <1>4, <1>6, <3>1, <4>1, <4>4, CutsOutTheNext, Zenon
        <4> QED
          BY <4>3, <4>5, Zenon
      <3> QED
        BY <3>1, <3>2
    <2> HIDE DEF K
    <2> QED
      BY <2>1, <2>2, AllNumbers
  <1>9. PICK s : s = g[n]
    OBVIOUS
  <1>10. ArgsReady(buf, T, l, tokens, n, s)
    <2>1. n \in K /\ n <= n
      BY <1>8
    <2> QED
      BY <1>9, <2>1
  <1>11. /\ s \in SecondPass(T, l) /\ ~s.crashed /\ Len(s.argv) = n
         /\ \A i \in 1..n : /\ s.argv[i] = tokens[i].start
                            /\ Stands(buf, l, s.buf, tokens[i], s.cursor)
    BY <1>10, Zenon DEF ArgsReady
  <1>12. PICK w, argv : w = s.buf /\ argv = s.argv
    OBVIOUS
  <1>13. w \in Seq(T \cup {"nul"}) /\ Len(w) = l /\ argv \in Seq(1..l) /\ DOMAIN argv = 1..n
    <2>1. IsBuffer(w, T, l) /\ argv \in Seq(1..l)
      BY <1>11, <1>12 DEF SecondPass
    <2>2. Len(argv) = n
      BY <1>11, <1>12, Zenon
    <2> QED
      BY <2>1, <2>2 DEF IsBuffer
  <1>14. ASSUME NEW i \in 1..n PROVE CString(w, argv[i]) = Argument(buf, tokens[i])
    <2>1. PICK t \in TokenSet(l) : t = tokens[i]
      BY <1>4, <1>5, ElementOfSeq DEF AreTokens
    <2>2. PICK b \in 1..l, e \in 1..l : b = t.start /\ e = t.end
      BY Zenon DEF TokenSet
    <2>3. PICK u : u = Argument(buf, t)
      OBVIOUS
    <2>4. argv[i] = b /\ Stands(buf, l, w, t, s.cursor)
      BY <1>11, <1>12, <2>1, <2>2, Zenon
    <2>5. \E c \in 1..l : IsToken(buf, l, c, t)
      <3>1. t # NoToken
        BY <1>4, <1>5, <2>1, Zenon DEF AreTokens
      <3>2. ASSUME NEW c \in 1..l, t = Token(buf, c) PROVE IsToken(buf, l, c, t)
        BY <1>3, <3>1, <3>2, TokenIs, Zenon
      <3>3. CASE i = 1
        <4>1. t = Token(buf, 1) /\ 1 \in 1..l
          BY <1>1, <1>4, <1>5, <2>1, <3>3 DEF AreTokens
        <4> QED
          BY <3>2, <4>1, Zenon
      <3>4. CASE i # 1
        <4>1. PICK h \in 1..n : i = h + 1
          <5>1. i - 1 \in 1..n /\ i = (i - 1) + 1
            BY <3>4
          <5> QED
            BY <5>1
        <4>2. t = Token(buf, tokens[h].cursor)
          BY <1>4, <1>5, <2>1, <4>1, Zenon DEF AreTokens
        <4>3. tokens[h] \in TokenSet(l)
          BY <1>4, <1>5, ElementOfSeq DEF AreTokens
        <4>4. tokens[h].cursor \in 1..l
          BY <4>3, Zenon DEF TokenSet
        <4> QED
          BY <3>2, <4>2, <4>4, Zenon
      <3> QED
        BY <3>3, <3>4
    <2>6. u \in Seq(T)
      <3>1. \E c : IsToken(buf, l, c, t)
        BY <2>5, Zenon
      <3> QED
        BY <1>3, <2>3, <3>1, CutOutIs, Zenon DEF Argument
    <2>7. PICK k \in Nat : k = Len(u) /\ b + k <= e /\ IsThere(w, b, u, l)
      BY <2>2, <2>3, <2>4, Zenon DEF Stands
    <2>8. PICK f \in b..l : f = b + k
      <3>1. b + k \in b..l
        BY <1>1, <2>7
      <3> QED
        BY <3>1
    <2>9. w[f] = "nul"
      <3>1. f \in 1..l
        BY <2>8
      <3> QED
        BY <2>7, <2>8, <3>1, Zenon DEF IsThere
    <2>10. ASSUME NEW q \in b..l, q < f PROVE w[q] # "nul"
      <3>1. PICK r \in 1..k : q + 1 = b + r
        <4>1. (q + 1) - b \in 1..k /\ q + 1 = b + ((q + 1) - b)
          BY <1>1, <2>8, <2>10
        <4> QED
          BY <4>1
      <3>2. q \in 1..l
        BY <1>1
      <3>3. w[q] = u[r]
        BY <2>7, <3>1, <3>2, Zenon DEF IsThere
      <3>4. u[r] \in T
        BY <2>6, <2>7, ElementOfSeq
      <3> QED
        BY <3>3, <3>4
    <2>11. CString(w, b) = SubSeq(w, b, f - 1)
      BY <1>13, <2>9, <2>10, CStringFrom
    <2>12. PICK N : N = T \cup {"nul"}
      OBVIOUS
    <2>13. PICK y : y = SubSeq(w, b, f - 1)
      OBVIOUS
    <2>14. y \in Seq(N) /\ Len(y) = k /\ \A q \in 1..k : y[q] = w[b + q - 1]
      <3>1. /\ b \in Nat /\ f - 1 \in Nat /\ 1 <= b /\ b <= (f - 1) + 1 /\ f - 1 <= Len(w)
            /\ (f - 1) + 1 - b = k
        BY <1>1, <1>13, <2>8
      <3>2. w \in Seq(N)
        BY <1>13, <2>12, Zenon
      <3>3. /\ y \in Seq(N) /\ Len(y) = (f - 1) + 1 - b
            /\ \A q \in 1..((f - 1) + 1 - b) : y[q] = w[b + q - 1]
        BY <2>13, <3>1, <3>2, Part
      <3> QED
        BY <3>1, <3>3
    <2>15. u \in Seq(N)
      <3>1. T \subseteq N
        BY <2>12
      <3> QED
        BY <2>6, <3>1
    <2>16. ASSUME NEW q \in 1..k PROVE y[q] = u[q]
      <3>1. PICK p \in 1..l : p = b + q - 1 /\ p + 1 = b + q
        <4>1. b + q - 1 \in 1..l /\ (b + q - 1) + 1 = b + q
          BY <1>1, <2>8
        <4> QED
          BY <4>1
      <3>2. y[q] = w[p]
        BY <2>14, <3>1
      <3>3. w[p] = u[q]
        BY <2>7, <3>1, Zenon DEF IsThere
      <3> QED
        BY <3>2, <3>3
    <2>17. y = u
      <3>1. Len(y) = Len(u) /\ \A q \in 1..Len(y) : y[q] = u[q]
        BY <2>7, <2>14, <2>16, Zenon
      <3> QED
        BY <2>14, <2>15, <3>1, SeqEqual, Zenon
    <2> QED
      BY <2>1, <2>3, <2>4, <2>11, <2>13, <2>17, Zenon
  <1>15. InitComposite(src) = [crashed |-> FALSE,
                               args |-> [i \in 1..n |-> CString(w, argv[i])]]
    <2>1. s = Cut(Buffer(src))[Len(Tokens(Buffer(src)))]
      BY <1>2, <1>4, <1>5, <1>7, <1>9, Zenon
    <2>2. InitComposite(src)
            = [crashed |-> s.crashed,
               args |-> IF s.crashed THEN <<>>
                        ELSE [i \in DOMAIN s.argv |-> CString(s.buf, s.argv[i])]]
      BY <2>1, Zenon DEF InitComposite
    <2>3. s.crashed = FALSE
      BY <1>11 DEF SecondPass
    <2> QED
      BY <1>12, <1>13, <2>2, <2>3, Zenon
  <1>16. [i \in 1..n |-> CString(w, argv[i])]
           = [i \in DOMAIN tokens |-> Argument(buf, tokens[i])]
    BY <1>5, <1>14, Zenon
  <1> QED
    BY <1>2, <1>4, <1>15, <1>16, Zenon

(* The arguments of a command line are its tokens, although the buffer is   *)
(* cut and rewritten while it is read.                                     *)
THEOREM ArgsAreAlwaysTokens == TextSpec => []ArgsAreTokens
  <1>1. Calls => ArgsAreTokens
    <2>1. PICK buf : buf = Buffer(call.arg)
      OBVIOUS
    <2>2. PICK tokens : tokens = Tokens(buf)
      OBVIOUS
    <2>3. PICK glued :
            glued = {t \in ToSet(tokens) : t.quoted /\ buf[t.cursor] \notin {"blank", "nul"}}
      OBVIOUS
    <2>4. SUFFICES ASSUME Calls, call.fn = "cmdline_init_composite", glued = {}
                   PROVE  call.result
                            = [crashed |-> FALSE,
                               args |-> [i \in DOMAIN tokens |->
                                  Unescape(SubSeq(buf, tokens[i].start, tokens[i].end - 1))]]
      BY <2>1, <2>2, <2>3, Zenon DEF ArgsAreTokens
    <2>5. PICK s \in MCLine : call.arg = s /\ call.result = InitComposite(s)
      BY <2>4, Zenon DEF Calls, LineCalled
    <2>6. PICK T : T = {"blank", "quote", "backslash", "x"}
      OBVIOUS
    <2>7. s \in Seq(T) /\ "nul" \notin T
      <3>1. s \in SeqOf(T, 6)
        BY <2>6 DEF MCLine
      <3>2. PICK m \in 0..6 : s \in [1..m -> T]
        BY <3>1, Zenon DEF SeqOf
      <3> QED
        BY <2>6, <3>2
    <2>8. Apart(buf, tokens)
      <3>1. IsBuffer(buf, T, Len(s) + 1)
        <4>1. PICK m \in Nat, l \in Nat : m = Len(s) /\ l = m + 1 /\ l # 0
          BY <2>7, LenProperties
        <4>2. IsOutput(s, T, m, buf)
          BY <2>1, <2>5, <2>7, <4>1, OutputBuffer, Zenon
        <4>3. /\ "nul" \notin T /\ buf \in Seq(T \cup {"nul"}) /\ Len(buf) = l /\ buf[l] = "nul"
          BY <4>1, <4>2, Zenon DEF IsOutput
        <4> QED
          BY <4>1, <4>3, Zenon DEF IsBuffer
      <3>2. tokens \in Seq(TokenSet(Len(s) + 1))
        BY <2>2, <3>1, TokensCounted, Zenon DEF AreTokens
      <3>3. ASSUME NEW i \in 1..Len(tokens) PROVE tokens[i] \in ToSet(tokens)
        <4>1. i \in DOMAIN tokens
          BY <3>2
        <4> QED
          BY <4>1, Zenon DEF ToSet
      <3> QED
        BY <2>3, <2>4, <3>3, Zenon DEF Apart
    <2>9. InitComposite(s) = [crashed |-> FALSE,
                              args |-> [i \in DOMAIN tokens |-> Argument(buf, tokens[i])]]
      <3>1. buf = Buffer(s) /\ tokens = Tokens(Buffer(s))
        BY <2>1, <2>2, <2>5, Zenon
      <3> QED
        BY <2>7, <2>8, <3>1, ArgumentsCut, Zenon
    <2> QED
      BY <2>5, <2>9, Zenon DEF Argument
  <1> QED
    BY <1>1, CallsInvariance, PTL
=============================================================================
