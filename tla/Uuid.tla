-------------------------------- MODULE Uuid --------------------------------
(***************************************************************************)
(* The version 1 UUID generator (src/uuid_rfc4122/uuid.c): uuid_create     *)
(* with get_current_time, read_state and write_state, the stored state (a  *)
(* file, or the two callbacks given to uuid_init), a system clock that     *)
(* somebody may set back, and crashes of the program.                      *)
(*                                                                         *)
(* s_uuid_cs makes uuid_create one step.  A clock sequence is a pair: which*)
(* call of true_random it comes from, and how often it was incremented; two*)
(* calls of true_random are taken to differ.  The node never changes.      *)
(***************************************************************************)
EXTENDS Naturals, FiniteSets

CONSTANTS UUIDS_PER_TICK,
          SavePeriod,     \* 10 seconds, in 100 ns units
          Settings,       \* what programs and machines are looked at
          MaxTime,        \* bound: what the clock shows
          MaxUuids        \* bound: UUIDs created

(* callbacks: whether uuid_init was given them.  resolution: the units     *)
(* between two readings of the clock, fewer than UUIDS_PER_TICK or more    *)
(* (10 on POSIX, 10000 and up on Windows; UUIDS_PER_TICK is 1024).         *)
(* events: what may happen.  "back": the clock is set back.  "crash": the  *)
(* program dies and restarts, which takes longer than UUIDS_PER_TICK units *)
(* (a tenth of a millisecond).  "nowrite": a write of the state fails.     *)
AllEvents == {"back", "crash", "nowrite"}

ASSUME PerTickAssumption == UUIDS_PER_TICK \in Nat
ASSUME SavePeriodAssumption == SavePeriod \in Nat
ASSUME MaxTimeAssumption == MaxTime \in Nat
ASSUME SettingsAssumption ==
  Settings \subseteq [callbacks : BOOLEAN, resolution : Nat \ {0}, events : SUBSET AllEvents]

VARIABLES
  setting,                  \* the one of Settings we are in
  clock,                    \* get_system_time
  time_last, this_tick,     \* statics of get_current_time
  st, loaded,               \* the volatile state; whether read_state has read the file
  stored,                   \* the stored state
  emptied,                  \* the file is there and holds nothing
  save_inited, next_save,   \* statics of write_state
  draws,                    \* calls of true_random so far
  issued, created,          \* the UUIDs handed out, and how many calls that took
  overran                   \* a reading gave timestamps up to that of a later one

timeVars == <<time_last, this_tick>>
storeVars == <<stored, emptied>>
saveVars == <<save_inited, next_save>>
history == <<draws, issued, created, overran>>
vars == <<setting, clock, timeVars, st, loaded, storeVars, saveVars, history>>

State == [ts : Nat, draw : Nat, inc : Nat]
NoState == [ts |-> 0, draw |-> 0, inc |-> 0]

TypeOK ==
  /\ setting \in Settings
  /\ clock \in Nat /\ time_last \in Nat /\ this_tick \in 0..UUIDS_PER_TICK
  /\ st \in State /\ loaded \in BOOLEAN
  /\ stored \in State /\ emptied \in BOOLEAN
  /\ save_inited \in BOOLEAN /\ next_save \in Nat
  /\ draws \in Nat /\ issued \in SUBSET State /\ created \in Nat /\ overran \in BOOLEAN

Resolution == setting.resolution
Readings == {r \in {Resolution * t : t \in 1..MaxTime} : r <= MaxTime}

(* What a start of the program leaves of its statics. *)
FreshClock == [time_last |-> 0, this_tick |-> UUIDS_PER_TICK]
FreshState == [st |-> NoState, loaded |-> FALSE]
FreshSave == [save_inited |-> FALSE, next_save |-> 0]

Init ==
  /\ setting \in Settings
  /\ clock = Resolution
  /\ time_last = FreshClock.time_last /\ this_tick = FreshClock.this_tick
  /\ st = FreshState.st /\ loaded = FreshState.loaded
  /\ stored = NoState /\ emptied = FALSE
  /\ save_inited = FreshSave.save_inited /\ next_save = FreshSave.next_save
  /\ draws = 0 /\ issued = {} /\ created = 0 /\ overran = FALSE

----------------------------------------------------------------------------
(* Faulty variants, here and below: bugs the next definition could have    *)
(* had, and no part of the model.                                          *)
OverrunLate == time_last = clock /\ this_tick > UUIDS_PER_TICK

(* get_current_time: the reading of the clock plus the number of UUIDs     *)
(* made at this reading.  It spins while that number is at its limit.      *)
Overrun == time_last = clock /\ this_tick >= UUIDS_PER_TICK
ThisTick == IF time_last = clock THEN this_tick + 1 ELSE 0
Timestamp == clock + ThisTick

(* What uuid_create takes for the last state.  The callback always asks    *)
(* the store; read_state asks the file until it could open it once, and    *)
(* reading nothing from it leaves the volatile state.                      *)
LastState == IF setting.callbacks \/ ~(loaded \/ emptied) THEN stored ELSE st
Known == LastState # NoState

ReadsEveryTime == FALSE

(* Whether read_state opens the file, so that it needs not do so again. *)
Opens == ~setting.callbacks /\ (emptied \/ stored # NoState)

KeepsSequence ==
  [ts |-> Timestamp, inc |-> LastState.inc,
   draw |-> IF Known THEN LastState.draw ELSE draws + 1]

(* A new sequence when there is no state, the next one when the clock went *)
(* backwards.                                                              *)
NextState ==
  IF ~Known THEN [ts |-> Timestamp, draw |-> draws + 1, inc |-> 0]
  ELSE [ts |-> Timestamp, draw |-> LastState.draw,
        inc |-> IF Timestamp < LastState.ts THEN LastState.inc + 1 ELSE LastState.inc]

SavesOnce == ~save_inited
SaveDue == ~save_inited \/ Timestamp >= next_save

StoreKept == UNCHANGED storeVars
(* fopen with "wb" has emptied the file before anything is written. *)
StoreEmptied == ~setting.callbacks /\ stored' = NoState /\ emptied' = TRUE
StoreSaved == stored' = NextState /\ emptied' = FALSE

(* What write_state does to the store. *)
Saves ==
  IF SaveDue
  THEN StoreSaved \/ ("nowrite" \in setting.events /\ (StoreKept \/ StoreEmptied))
  ELSE StoreKept

(* The last reading gave out timestamps up to this later one. *)
Overruns == 0 < time_last /\ time_last < clock /\ clock <= time_last + this_tick

uuid_create ==
  /\ ~Overrun /\ created < MaxUuids
  /\ this_tick' = ThisTick /\ time_last' = clock
  /\ draws' = IF Known THEN draws ELSE draws + 1
  /\ loaded' = (loaded \/ Opens)
  /\ st' = NextState
  /\ save_inited' = TRUE
  /\ next_save' = IF SaveDue THEN Timestamp + SavePeriod ELSE next_save
  /\ Saves
  /\ issued' = issued \cup {NextState}
  /\ created' = created + 1
  /\ overran' = (overran \/ Overruns)
  /\ UNCHANGED <<setting, clock>>

ClockTicks ==
  /\ clock + Resolution <= MaxTime
  /\ clock' = clock + Resolution
  /\ UNCHANGED <<setting, timeVars, st, loaded, storeVars, saveVars, history>>

ClockSetBack ==
  /\ "back" \in setting.events
  /\ \E r \in Readings : r < clock /\ clock' = r
  /\ UNCHANGED <<setting, timeVars, st, loaded, storeVars, saveVars, history>>

(* Also in the middle of a write to the file. *)
Crash ==
  /\ "crash" \in setting.events
  /\ \E r \in Readings : clock + UUIDS_PER_TICK < r /\ clock' = r
  /\ time_last' = FreshClock.time_last /\ this_tick' = FreshClock.this_tick
  /\ st' = FreshState.st /\ loaded' = FreshState.loaded
  /\ save_inited' = FreshSave.save_inited /\ next_save' = FreshSave.next_save
  /\ StoreKept \/ (~Overrun /\ SaveDue /\ StoreEmptied)
  /\ UNCHANGED <<setting, history>>

Next == uuid_create \/ ClockTicks \/ ClockSetBack \/ Crash

Spec == Init /\ [][Next]_vars

----------------------------------------------------------------------------
(* Properties.                                                             *)

(* No two calls of uuid_create give the same UUID, wherever the clock is   *)
(* set back and whatever the store lost - but for a clock so fine that     *)
(* UUIDS_PER_TICK, the limit of get_current_time, exceeds the units        *)
(* between two readings, and only after a reading gave out the timestamps  *)
(* of a later one.                                                         *)
Unique ==
  Cardinality(issued) = created \/ (overran /\ Resolution <= UUIDS_PER_TICK)

(* The whole promise, src/uuid_rfc4122/rfc4122.txt:34: UUIDs are unique.   *)
NeverTwice == Cardinality(issued) = created

(* RFC 4122, kept in src/uuid_rfc4122/rfc4122.txt:439: when the clock may  *)
(* have been set back and the generator cannot be sure that no larger      *)
(* timestamp was used, the clock sequence has to be changed - so that no   *)
(* UUID has an earlier timestamp than another of its own clock sequence    *)
(* that came before it.  A reading whose predecessor overran it is such a  *)
(* clock too, and callbacks, which know the last save only, miss that one. *)
SequenceChangesWhenClockGoesBack ==
  [][~(setting.callbacks /\ overran') =>
     \A new \in issued' \ issued : \A old \in issued :
       new.draw = old.draw /\ new.inc = old.inc => new.ts > old.ts]_vars

(* With the state in a file, the only UUID ever given again is the last    *)
(* one, to the first call at a new reading (what uuid.c:94 compares with   *)
(* less-than): even a clock that is overrun never brings back an older one.*)
RepeatsOnlyTheLast ==
  [][created' # created /\ issued' = issued /\ ~setting.callbacks =>
       ThisTick = 0 /\ st' = st]_vars

(* The stored state lags the UUIDs by less than the ten seconds of         *)
(* write_state, however often the program crashed and the clock went back: *)
(* what a restart reads is that recent. (Only while no write fails.)       *)
StoreLagsLessThanAPeriod ==
  /\ TypeOK
  /\ stored # NoState /\ "nowrite" \notin setting.events =>
       \A u \in issued : u.ts < stored.ts + SavePeriod
=============================================================================
