----------------------------- MODULE Timesheet -----------------------------
(***************************************************************************)
(* One person's AttendanceDay.  Its row is folded from the punches that     *)
(* count and from the requests approved for it, by a job that reads both    *)
(* and writes later; a punch that comes after the day ended queues the day  *)
(* again; an approval marks the row inside its own transaction; HR may      *)
(* correct it by hand.  No lock joins these four, only the order of their   *)
(* statements, so the row can be left saying what nobody believes.          *)
(*                                                                          *)
(* A working day; the number of punches stands for the minutes they make.   *)
(* A leave and a trip on one day are not filed together: which of them the  *)
(* row shows depends on which was approved first.                           *)
(***************************************************************************)
EXTENDS Naturals, FiniteSets

CONSTANTS
    Requests,   \* requests that may be filed for the day
    MaxPunches, \* bound: punches stored
    MaxAsks,    \* bound: builds HR asks for, and corrections by hand
    MaxFaults   \* bound: crashes of the backend and refusals of the queue

ASSUME TimesheetAssumption ==
    /\ Requests \subseteq {"leave", "morning", "afternoon", "trip", "fix"}
    /\ {MaxPunches, MaxAsks, MaxFaults} \subseteq Nat

VARIABLES
    over,       \* the day has ended
    counted,    \* punches of the day that count
    held,       \* punches of the day waiting for HR
    owes,       \* handlers that stored a punch and have not queued its rebuild
    jobs,       \* jobs waiting in the timesheet queue
    nightly,    \* whether the nightly job has covered the day
    build,      \* the job in the worker's hands and what it has read
    row,        \* the AttendanceDay
    approved,   \* requests approved
    deciding,   \* of each request: unfiled, filed, or in decide's transaction, its mark
                \* having hit the row or passed it by
    correcting, \* the row a correction by hand has read, or NoRow
    lastBuilt,  \* history: the minutes the last build wrote
    holes,      \* history: which of the orders nothing here guards against have happened
    asks, faults

punching == <<counted, held, owes>>
history == <<lastBuilt, holes>>
desk == <<approved, deciding, correcting>>
budget == <<asks, faults>>
vars == <<over, punching, jobs, nightly, build, row, desk, history, budget>>

None == MaxPunches + 2
ByHand == MaxPunches + 1
Minutes == 0 .. None
NoRow == [state |-> "none", punches |-> 0, worked |-> 0, measured |-> None, adjusted |-> FALSE]
Idle == [job |-> "none", saw |-> {}, punches |-> 0, requests |-> {}]

\* "lost": a punch was stored and its rebuild never queued.  "passed": an approval and
\* a build each looked before the other wrote.  "halves": the two halves of a day were
\* decided at once.  "overwritten": the row moved under a correction by hand.
Holes == {"lost", "passed", "halves", "overwritten"}
Halves == {"morning", "afternoon"}

TypeOK ==
    /\ over \in BOOLEAN
    /\ counted \in 0 .. MaxPunches /\ held \in 0 .. MaxPunches
    /\ owes \subseteq {"record", "decide"}
    /\ jobs \subseteq {"nightly", "rebuild", "range"}
    /\ nightly \in {"due", "queued", "done"}
    /\ build \in [job : {"none", "nightly", "rebuild", "range"}, saw : SUBSET {"punches", "requests"},
                  punches : 0 .. MaxPunches, requests : SUBSET Requests]
    /\ {row, correcting} \subseteq
           [state : {"none", "ABSENT", "LEAVE", "WORKED"}, punches : 0 .. MaxPunches,
            worked : Minutes, measured : Minutes, adjusted : BOOLEAN]
    /\ approved \subseteq Requests
    /\ deciding \in [Requests -> {"unfiled", "filed", "marked", "passed"}]
    /\ lastBuilt \in Minutes /\ holes \subseteq Holes
    /\ asks \in 0 .. MaxAsks /\ faults \in 0 .. MaxFaults

Init ==
    /\ over = FALSE
    /\ counted = 0 /\ held = 0 /\ owes = {}
    /\ jobs = {} /\ nightly = "due" /\ build = Idle
    /\ row = NoRow
    /\ \E filed \in SUBSET Requests :
           /\ Cardinality({whole \in {{"leave"}, {"trip"}, Halves} : filed \cap whole # {}}) <= 1
           /\ deciding = [r \in Requests |-> IF r \in filed THEN "filed" ELSE "unfiled"]
    /\ approved = {} /\ correcting = NoRow
    /\ lastBuilt = 0 /\ holes = {}
    /\ asks = 0 /\ faults = 0

OnLeave(requests) == "leave" \in requests \/ Halves \subseteq requests

\* dayOf on a working day: a punch outranks every request.
DayOf(punches, requests) ==
    IF punches > 0
    THEN [state |-> "WORKED", punches |-> punches, worked |-> punches, measured |-> punches,
          adjusted |-> FALSE]
    ELSE [NoRow EXCEPT !.state = IF OnLeave(requests) THEN "LEAVE"
                                 ELSE IF "trip" \in requests THEN "WORKED" ELSE "ABSENT"]

InDecision(r) == deciding[r] \in {"marked", "passed"}
Locked == \E r \in Requests : deciding[r] = "marked"

-----------------------------------------------------------------------------
(* AttendanceService.record and decide: punches arrive, HR lets one count  *)

Midnight ==
    /\ ~over
    /\ over' = TRUE
    /\ UNCHANGED <<punching, jobs, nightly, build, row, desk, history, budget>>

\* Faulty form, for trying the properties: only a day that has its row is built again.
OwesRebuildOfRow(who) == owes' = IF row # NoRow THEN owes \cup {who} ELSE owes

\* Only a finished day is built again; the nightly build is still to read the others.
OwesRebuild(who) == owes' = IF over THEN owes \cup {who} ELSE owes

StorePunch ==
    /\ "record" \notin owes
    /\ counted + held < MaxPunches
    /\ \/ counted' = counted + 1 /\ OwesRebuild("record") /\ UNCHANGED held
       \/ held' = held + 1 /\ UNCHANGED <<counted, owes>>
    /\ UNCHANGED <<over, jobs, nightly, build, row, desk, history, budget>>

AcceptPunch ==
    /\ "decide" \notin owes /\ held > 0
    /\ held' = held - 1
    /\ \/ counted' = counted + 1 /\ OwesRebuild("decide")
       \/ UNCHANGED <<counted, owes>>
    /\ UNCHANGED <<over, jobs, nightly, build, row, desk, history, budget>>

\* Faulty form, for trying the properties: the active job takes the new one in as well.
ScheduleRebuildOnce(who) ==
    /\ who \in owes
    /\ owes' = owes \ {who}
    /\ jobs' = IF build.job = "rebuild" THEN jobs ELSE jobs \cup {"rebuild"}
    /\ UNCHANGED <<over, counted, held, nightly, build, row, desk, history, budget>>

\* A waiting rebuild of the day takes the new one in; an active one gets one after it.
ScheduleRebuild(who) ==
    /\ who \in owes
    /\ owes' = owes \ {who}
    /\ jobs' = jobs \cup {"rebuild"}
    /\ UNCHANGED <<over, counted, held, nightly, build, row, desk, history, budget>>

\* The queue refuses the job.  The punch is stored: told again, it is a duplicate,
\* and decided again it is PUNCH_ALREADY_DECIDED.
RebuildRefused(who) ==
    /\ faults < MaxFaults
    /\ who \in owes
    /\ owes' = owes \ {who}
    /\ faults' = faults + 1
    /\ holes' = holes \cup {"lost"}
    /\ UNCHANGED <<over, counted, held, jobs, nightly, build, row, desk, lastBuilt, asks>>

-----------------------------------------------------------------------------
(* TimesheetProcessor: one job at a time                                   *)

ScheduleNightly ==
    /\ over /\ nightly = "due"
    /\ nightly' = "queued"
    /\ jobs' = jobs \cup {"nightly"}
    /\ UNCHANGED <<over, punching, build, row, desk, history, budget>>

ScheduleBuild ==
    /\ over /\ asks < MaxAsks /\ "range" \notin jobs
    /\ asks' = asks + 1
    /\ jobs' = jobs \cup {"range"}
    /\ UNCHANGED <<over, punching, nightly, build, row, desk, history, faults>>

TakeJob(job) ==
    /\ build = Idle /\ job \in jobs
    /\ jobs' = jobs \ {job}
    /\ build' = [Idle EXCEPT !.job = job]
    /\ UNCHANGED <<over, punching, nightly, row, desk, history, budget>>

\* The reads of one Promise.all: each sees what is committed when it runs.
ReadPunches ==
    /\ build # Idle /\ "punches" \notin build.saw
    /\ build' = [build EXCEPT !.saw = @ \cup {"punches"}, !.punches = counted]
    /\ UNCHANGED <<over, punching, jobs, nightly, row, desk, history, budget>>

ReadRequests ==
    /\ build # Idle /\ "requests" \notin build.saw
    /\ build' = [build EXCEPT !.saw = @ \cup {"requests"}, !.requests = approved]
    /\ UNCHANGED <<over, punching, jobs, nightly, row, desk, history, budget>>

\* The upsert leaves an adjusted row alone and waits for a transaction that holds it.
WriteDay ==
    /\ build.saw = {"punches", "requests"}
    /\ ~Locked
    /\ IF row.adjusted
       THEN UNCHANGED <<row, lastBuilt>>
       ELSE row' = DayOf(build.punches, build.requests) /\ lastBuilt' = row'.worked
    /\ nightly' = IF build.job = "nightly" THEN "done" ELSE nightly
    /\ build' = Idle
    /\ holes' = holes \cup (IF \E r \in Requests : InDecision(r) THEN {"passed"} ELSE {})
    /\ UNCHANGED <<over, punching, jobs, desk, budget>>

-----------------------------------------------------------------------------
(* LeaveService.decide and its marks, TimesheetService.correct             *)

\* The mark runs in decide's transaction: it sees what others committed, and its own.
Marks(r) ==
    LET seen == approved \cup {r} IN
    /\ row.state = "ABSENT" /\ row.punches = 0 /\ ~row.adjusted
    /\ r \in {"leave", "trip"} \/ Halves \subseteq seen

\* Decisions of two halves queue on one LeaveBalance row only when their leave type is
\* the same (settle), so any two transactions may be open together.
Approve(r) ==
    /\ r \notin approved /\ deciding[r] = "filed"
    /\ r = "fix" => over
    /\ r = "fix" \/ Marks(r) => ~Locked
    /\ deciding' = [deciding EXCEPT ![r] = IF r = "fix" \/ Marks(r) THEN "marked" ELSE "passed"]
    /\ holes' = holes \cup (IF r \in Halves /\ \E other \in Halves \cap Requests : InDecision(other)
                           THEN {"halves"} ELSE {})
    /\ UNCHANGED <<over, punching, jobs, nightly, build, row, approved, correcting, lastBuilt, budget>>

\* Faulty form, for trying the properties: every fix takes the minutes it replaces as measured.
MarkedLosing(r) ==
    CASE r = "fix" -> [row EXCEPT !.state = "WORKED", !.worked = ByHand, !.adjusted = TRUE,
                                  !.measured = row.worked]
      [] r = "trip" -> [row EXCEPT !.state = "WORKED"]
      [] OTHER -> [row EXCEPT !.state = "LEAVE"]

\* What a request makes of the row it marked; applyFix keeps the first measurement.
Marked(r) ==
    CASE r = "fix" -> [row EXCEPT !.state = "WORKED", !.worked = ByHand, !.adjusted = TRUE,
                                  !.measured = IF row.measured # None THEN @ ELSE row.worked]
      [] r = "trip" -> [row EXCEPT !.state = "WORKED"]
      [] OTHER -> [row EXCEPT !.state = "LEAVE"]

CommitDecision(r) ==
    /\ InDecision(r)
    /\ approved' = approved \cup {r}
    /\ row' = IF deciding[r] = "marked" THEN Marked(r) ELSE row
    /\ deciding' = [deciding EXCEPT ![r] = "filed"]
    /\ holes' = holes \cup (IF "requests" \in build.saw THEN {"passed"} ELSE {})
    /\ UNCHANGED <<over, punching, jobs, nightly, build, correcting, lastBuilt, budget>>

CorrectRead ==
    /\ asks < MaxAsks
    /\ row # NoRow /\ correcting = NoRow
    /\ asks' = asks + 1
    /\ correcting' = row
    /\ UNCHANGED <<over, punching, jobs, nightly, build, row, approved, deciding, history, faults>>

\* The update names the row by its key and writes what was read, however old.
CorrectWrite ==
    /\ correcting # NoRow /\ ~Locked
    /\ row' = [row EXCEPT !.state = correcting.state, !.worked = ByHand, !.adjusted = TRUE,
                          !.measured = IF correcting.measured # None THEN correcting.measured
                                       ELSE correcting.worked]
    /\ correcting' = NoRow
    /\ holes' = holes \cup (IF row # correcting THEN {"overwritten"} ELSE {})
    /\ UNCHANGED <<over, punching, jobs, nightly, build, approved, deciding, lastBuilt, budget>>

\* The queue runs a stalled job again; transactions roll back, requests are lost.
Crash ==
    /\ faults < MaxFaults
    /\ faults' = faults + 1
    /\ holes' = holes \cup (IF owes # {} THEN {"lost"} ELSE {})
    /\ owes' = {} /\ correcting' = NoRow
    /\ deciding' = [r \in Requests |-> IF InDecision(r) THEN "filed" ELSE deciding[r]]
    /\ jobs' = IF build = Idle THEN jobs ELSE jobs \cup {build.job}
    /\ build' = Idle
    /\ UNCHANGED <<over, counted, held, nightly, row, approved, lastBuilt, asks>>

Worker == (\E job \in jobs : TakeJob(job)) \/ ReadPunches \/ ReadRequests \/ WriteDay
Schedulers == ScheduleNightly \/ \E who \in owes : ScheduleRebuild(who)

Next ==
    \/ Midnight \/ StorePunch \/ AcceptPunch \/ Schedulers \/ ScheduleBuild \/ Worker
    \/ \E who \in owes : RebuildRefused(who)
    \/ \E r \in Requests : Approve(r) \/ CommitDecision(r)
    \/ CorrectRead \/ CorrectWrite \/ Crash

\* The clock goes on, the scheduler and the worker run, a handler and a transaction
\* that began end.  Nobody has to punch, ask, decide or correct.
Fairness ==
    /\ WF_vars(Midnight) /\ WF_vars(Schedulers) /\ WF_vars(Worker)
    /\ WF_vars(CorrectWrite) /\ \A r \in Requests : WF_vars(CommitDecision(r))

Spec == Init /\ [][Next]_vars /\ Fairness

-----------------------------------------------------------------------------
Quiet ==
    /\ nightly = "done"
    /\ owes = {} /\ jobs = {} /\ build = Idle
    /\ correcting = NoRow /\ \A r \in Requests : ~InDecision(r)

\* With nothing left to run, a day nobody corrected says what its punches and its
\* approved requests make of it, unless a punch was cut off from its rebuild, an
\* approval and a build crossed, or two halves or a correction did (build, write,
\* markApproved, markHalvesApproved, scheduleRebuild).
DayFollowsItsFacts == Quiet /\ ~row.adjusted /\ holes = {} => row = DayOf(counted, approved)

\* What the device measured outlives every correction, unless the row moved between
\* the read and the write of one: the minutes the last build wrote stay in
\* measuredMinutes (correct, applyFix).
MeasureKept == row.adjusted /\ "overwritten" \notin holes => row.measured = lastBuilt

\* A day comes to its row and to what its facts make of it, however punches, jobs and
\* crashes fall outside those holes.
DaySettles ==
    <>[](row # NoRow /\ (row.adjusted \/ holes # {} \/ row = DayOf(counted, approved)))

\* What AttendanceService.record says of a late punch: it is not lost to its day.
LatePunchNotLost == Quiet /\ ~row.adjusted => row.punches = counted
=============================================================================
