---------------------------- MODULE BugReporter ----------------------------
(***************************************************************************)
(* Bug reports (src/mc_callstack/bug_reporter.c): the program makes a      *)
(* report and abandons it, sends it, or gives it to a thread of its own    *)
(* that sends it; all share one connection under a critical section, and   *)
(* read the project and the assignee without it.  Nobody waits for the     *)
(* threads, and bug_reporter_shutdown takes strings and lock away.         *)
(***************************************************************************)
EXTENDS Naturals, FiniteSets

CONSTANTS Report,    \* the reports the program makes
          Optional,  \* what a report may have besides: title, desc, bSilent
          Nobody,    \* no report
          MaxInits   \* how often bug_reporter_init is called

ASSUME NobodyAssumption == Nobody \notin Report
ASSUME OptionalAssumption == IsFiniteSet(Optional)
ASSUME MaxInitsAssumption == MaxInits \in Nat

VARIABLES
  prog, inits,          \* the reporter: "down", "up", or being shut down; inits so far
  project, assignee,    \* s_project, s_assignee are not empty
  cs, holder,           \* s_bugReport_cs: "none" or "ready"; whose thread is in it
  con,                  \* s_bugReport_con: the report it was opened for
  main,                 \* the report that main itself is sending
  opts, at,             \* report -> its optional strings; where it is
  announced, strings,   \* report -> the two sides of the packet: count, and how many follow
  early                 \* history: shut down, or started anew, with a report alive

globalVars == <<prog, inits, project, assignee, cs>>
packetVars == <<announced, strings>>
vars == <<globalVars, holder, con, main, opts, at, packetVars, early>>

Places == {"none", "made", "start", "counted", "lock", "connect", "send", "close", "unlock",
           "reset", "freed", "leaked"}
Critical == {"connect", "send", "close", "unlock"}

Alive(r) == at[r] \notin {"none", "freed", "leaked"}

TypeOK ==
  /\ prog \in {"down", "up", "stop project", "stop assignee"} /\ inits \in 0..MaxInits
  /\ project \in BOOLEAN /\ assignee \in BOOLEAN /\ early \in BOOLEAN
  /\ cs \in {"none", "ready"}
  /\ holder \in Report \cup {Nobody} /\ con \in Report \cup {Nobody}
  /\ main \in Report \cup {Nobody}
  /\ opts \in [Report -> SUBSET Optional] /\ at \in [Report -> Places]
  /\ announced \in [Report -> Nat] /\ strings \in [Report -> Nat]

Init ==
  /\ prog = "down" /\ inits = 0
  /\ project = FALSE /\ assignee = FALSE /\ cs = "none"
  /\ holder = Nobody /\ con = Nobody /\ main = Nobody
  /\ opts = [r \in Report |-> {}]
  /\ at = [r \in Report |-> "none"]
  /\ announced = [r \in Report |-> 0] /\ strings = [r \in Report |-> 0]
  /\ early = FALSE

Goes(r, from, to) == at[r] = from /\ at' = [at EXCEPT ![r] = to]

----------------------------------------------------------------------------
(* The main thread, while it is not sending a report itself. *)

(* bug_reporter_init, which may be called again while the reporter is up;  *)
(* the assignee may be empty.                                              *)
BugReporterInit ==
  /\ main = Nobody /\ prog \in {"down", "up"} /\ inits < MaxInits
  /\ prog' = "up" /\ inits' = inits + 1
  /\ project' = TRUE /\ assignee' \in BOOLEAN
  /\ cs' = "ready" /\ holder' = Nobody
  /\ early' = (early \/ \E r \in Report : Alive(r))
  /\ UNCHANGED <<con, main, opts, at, packetVars>>

(* bug_reporter_shutdown, in three steps. *)
ShutdownProject ==
  /\ main = Nobody /\ prog = "up"
  /\ prog' = "stop project" /\ project' = FALSE
  /\ early' = (early \/ \E r \in Report : Alive(r))
  /\ UNCHANGED <<inits, assignee, cs, holder, con, main, opts, at, packetVars>>

ShutdownAssignee ==
  /\ prog = "stop project"
  /\ prog' = "stop assignee" /\ assignee' = FALSE
  /\ UNCHANGED <<inits, project, cs, holder, con, main, opts, at, packetVars, early>>

ShutdownLock ==
  /\ prog = "stop assignee"
  /\ prog' = "down" /\ cs' = "none"
  /\ UNCHANGED <<inits, project, assignee, holder, con, main, opts, at, packetVars, early>>

(* bug_report_init; there is no report without a project or a UUID. *)
BugReportInit(r) ==
  /\ main = Nobody /\ prog \in {"up", "down"} /\ project
  /\ Goes(r, "none", "made") \/ Goes(r, "none", "freed")
  /\ \E S \in SUBSET Optional : opts' = [opts EXCEPT ![r] = S]
  /\ UNCHANGED <<globalVars, holder, con, main, packetVars, early>>

Abandon(r) ==
  /\ main = Nobody /\ prog \in {"up", "down"}
  /\ Goes(r, "made", "freed")
  /\ UNCHANGED <<globalVars, holder, con, main, opts, packetVars, early>>

(* bug_report_dispatch_async; a report whose thread cannot be created is   *)
(* lost.                                                                   *)
DispatchAsync(r) ==
  /\ main = Nobody /\ prog \in {"up", "down"}
  /\ Goes(r, "made", "start") \/ Goes(r, "made", "leaked")
  /\ UNCHANGED <<globalVars, holder, con, main, opts, packetVars, early>>

DispatchSync(r) ==
  /\ main = Nobody /\ prog \in {"up", "down"}
  /\ Goes(r, "made", "start") /\ main' = r
  /\ UNCHANGED <<globalVars, holder, con, opts, packetVars, early>>

----------------------------------------------------------------------------
(* bug_report_dispatch_sync, on the thread that has the report. *)

(* bug_report_serialize counts the strings ... *)
CountStrings(r) ==
  /\ Goes(r, "start", "counted")
  /\ announced' = [announced EXCEPT ![r] = 4 + (IF assignee THEN 1 ELSE 0)
                                             + Cardinality(opts[r])]
  /\ UNCHANGED <<globalVars, holder, con, main, opts, strings, early>>

(* ... and then writes them; they may be too long for the packet. *)
WriteStrings(r) ==
  /\ Goes(r, "counted", "lock") \/ Goes(r, "counted", "reset")
  /\ strings' = [strings EXCEPT ![r] = 4 + (IF assignee THEN 1 ELSE 0) + Cardinality(opts[r])]
  /\ UNCHANGED <<globalVars, holder, con, main, opts, announced, early>>

(* A faulty variant: a bug the next definition could have had, and no part *)
(* of the model.                                                           *)
LockIsTried(r) ==
  /\ Goes(r, "lock", "connect")
  /\ holder' = IF holder = Nobody THEN r ELSE holder
  /\ UNCHANGED <<globalVars, con, main, opts, packetVars, early>>

(* To lock what was deleted, or never made, may block or let anyone in. *)
Lock(r) ==
  /\ Goes(r, "lock", "connect")
  /\ holder = Nobody \/ cs = "none"
  /\ holder' = IF cs = "ready" THEN r ELSE holder
  /\ UNCHANGED <<globalVars, con, main, opts, packetVars, early>>

FailedConnectReturns(r) ==
  /\ Goes(r, "connect", "send") \/ Goes(r, "connect", "reset")
  /\ con' = r
  /\ UNCHANGED <<globalVars, holder, main, opts, packetVars, early>>

(* The connection is made anew, and may not come about. *)
Connect(r) ==
  /\ Goes(r, "connect", "send") \/ Goes(r, "connect", "close")
  /\ con' = r
  /\ UNCHANGED <<globalVars, holder, main, opts, packetVars, early>>

Send(r) ==
  /\ Goes(r, "send", "close")
  /\ UNCHANGED <<globalVars, holder, con, main, opts, packetVars, early>>

Close(r) ==
  /\ Goes(r, "close", "unlock")
  /\ con' = Nobody
  /\ UNCHANGED <<globalVars, holder, main, opts, packetVars, early>>

Unlock(r) ==
  /\ Goes(r, "unlock", "reset")
  /\ holder' = IF holder = r THEN Nobody ELSE holder
  /\ UNCHANGED <<globalVars, con, main, opts, packetVars, early>>

Reset(r) ==
  /\ Goes(r, "reset", "freed")
  /\ main' = IF main = r THEN Nobody ELSE main
  /\ opts' = [opts EXCEPT ![r] = {}]
  /\ announced' = [announced EXCEPT ![r] = 0] /\ strings' = [strings EXCEPT ![r] = 0]
  /\ UNCHANGED <<globalVars, holder, con, early>>

----------------------------------------------------------------------------
MainThread ==
  \/ BugReporterInit \/ ShutdownProject \/ ShutdownAssignee \/ ShutdownLock
  \/ \E r \in Report : BugReportInit(r) \/ Abandon(r) \/ DispatchAsync(r) \/ DispatchSync(r)

Dispatch(r) ==
  \/ CountStrings(r) \/ WriteStrings(r) \/ Lock(r) \/ Connect(r) \/ Send(r) \/ Close(r)
  \/ Unlock(r) \/ Reset(r)

Next == MainThread \/ \E r \in Report : Dispatch(r)

Spec == Init /\ [][Next]_vars

(* Every thread runs on; connecting gives up after five seconds. *)
FairSpec == Spec /\ \A r \in Report : WF_vars(Dispatch(r))

----------------------------------------------------------------------------
(* Properties: what holds unless the reporter is shut down, or started     *)
(* anew, while a report is alive.  Nothing in the code keeps a program     *)
(* from that (bug_reporter.c:21, 30), and then none of this holds.         *)

(* One thread at a time uses the connection, and sends on the one it has   *)
(* opened itself, also when the reporter is shut down and started again.   *)
OneSender ==
  ~early =>
    /\ \A r, q \in Report : at[r] \in Critical /\ at[q] \in Critical => r = q
    /\ \A r \in Report : at[r] \in {"send", "close"} => con = r

(* A packet holds as many strings as it announces, although the assignee   *)
(* is looked at twice and without the lock.                                *)
PacketIsWhole ==
  ~early =>
    \A r \in Report : at[r] \in {"lock"} \cup Critical => announced[r] = strings[r]

(* So what goes over a connection is one packet, whole, of one report.     *)
OnePacketAtATime == TypeOK /\ OneSender /\ PacketIsWhole

(* What it rests on: a report is only made, and only lives, while the      *)
(* reporter is up, and the lock is held by the one in the critical section.*)
IInv ==
  /\ TypeOK
  /\ project => prog = "up"
  /\ ~early =>
       /\ prog # "up" => \A r \in Report : ~Alive(r)
       /\ prog = "up" => cs = "ready"
       /\ \A r \in Report : at[r] \in Critical <=> holder = r
       /\ \A r \in Report : at[r] \in {"send", "close"} => con = r
       /\ \A r \in Report : at[r] = "counted" =>
            announced[r] = 4 + (IF assignee THEN 1 ELSE 0) + Cardinality(opts[r])
       /\ PacketIsWhole

(* A report that was given away is freed, unless no thread could be        *)
(* created for it.                                                         *)
DispatchedIsFreed ==
  \A r \in Report : at[r] = "start" ~> at[r] = "freed" \/ early
=============================================================================
