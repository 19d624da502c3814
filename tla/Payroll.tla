------------------------------ MODULE Payroll ------------------------------
(***************************************************************************)
(* PayrollService seen by one employee: the periods of a few legal         *)
(* entities, the runs that price them, the payslip each run holds for the  *)
(* employee, and the salary advances a regular run deducts.                *)
(*                                                                         *)
(* Desks press under the period's row lock.  The worker prices without it: *)
(* it reads the period once, then deletes, writes and finishes in separate *)
(* statements.  An advance points at one payslip only, the one of the      *)
(* regular run that finished last, and the lock settles the advances that  *)
(* point at what it issues.                                                *)
(*                                                                         *)
(* One worker takes one job at a time.  Amounts, calendar days, the policy *)
(* and the checklist (which a desk may always accept) are left out, and so *)
(* is an advance nobody approved; a FINAL_SETTLEMENT run is left out: it    *)
(* reads its base as a BONUS does.                                         *)
(***************************************************************************)
EXTENDS Naturals, Sequences, FiniteSets

CONSTANTS
    Advances,      \* salary advances of the employee
    Calendar,      \* of each period: its legal entity and its month
    Plans,         \* what may happen: the runs desks may create, in the order of createdAt,
                   \* the legal entities the employee belongs to, one after the other, and
                   \* the bound on errors, crashes and redeliveries
    MaxExecutions  \* bound: presses of execute

Periods == DOMAIN Calendar

ASSUME PayrollAssumption ==
    /\ \A one \in Plans :
           /\ one.runs \in Seq([period : Periods, kind : {"REGULAR", "BONUS"}])
           /\ one.homes \in Seq({Calendar[p].entity : p \in Periods}) /\ one.homes # <<>>
           /\ one.faults \in Nat
    /\ MaxExecutions \in Nat

VARIABLES
    plan,       \* which of Plans this behaviour follows
    home,       \* where in the plan's homes the employee is
    period,     \* state of each PayrollPeriod
    locking,    \* of each period: the runs a lock in progress has chosen, or NotLocking
    run,        \* state of each PayrollRun
    slip,       \* the employee's payslip in each run, or NoSlip
    computed,   \* of each run: how many payslips it has written
    finished,   \* of each regular run: its place by finishedAt, the newest first, or 0
    advance,    \* state of each advance and the payslip it points at
    queue,      \* deliveries of each run's job waiting in the queue
    job,        \* the job in the worker's hands
    failing,    \* runs whose failRun is on its way
    refused,    \* runs whose press saw the queue refuse the job
    payHoles,   \* history: which of the orders nothing here guards against have happened
    executions, payFaults

jobs == <<queue, job, failing, refused>>
payBudget == <<executions, payFaults>>
payVars == <<plan, home, period, locking, run, slip, computed, finished, advance, jobs,
             payHoles, payBudget>>

Runs == DOMAIN plan.runs
PeriodOf(r) == plan.runs[r].period
KindOf(r) == plan.runs[r].kind
RunsOf(p) == {r \in Runs : PeriodOf(r) = p}
Done(p, kind) == {r \in RunsOf(p) : run[r] = "DONE" /\ KindOf(r) = kind}

NoSlip == [state |-> "none", no |-> 0, deducts |-> {}, base |-> {}]
NoRun == [run |-> 0, at |-> "idle", advances |-> {}, covers |-> FALSE, base |-> {}]
Nowhere == <<0, 0>>
NotLocking == {0}

\* A payslip keeps its id from the write to the delete.
IdOf(r) == <<r, slip[r].no>>
Held(r) == slip[r].state # "none"
Issued == {r \in Runs : slip[r].state = "ISSUED"}

\* "relost": a regular run that had finished was pressed again and came back without the
\* employee's payslip.  "crossed": drafts of two open periods both carry the employee, who
\* moved between their entities.  "undercut": the regular run under a bonus went while the
\* bonus was being priced.  "retaken": a bonus another one is taxed on top of was run again
\* or taken back.  "redelivered": a job came twice.  "overlapped": two periods of one month
\* were locked at once.  "elsewhere": a lock leaves out the regular payslip under a bonus it
\* issues, because another period of the month has issued one.
PayHoles == {"relost", "crossed", "undercut", "retaken", "redelivered", "overlapped", "elsewhere"}

PayInit ==
    /\ plan \in Plans
    /\ home = 1
    /\ period = [p \in Periods |-> "none"]
    /\ locking = [p \in Periods |-> NotLocking]
    /\ run = [r \in Runs |-> "none"]
    /\ slip = [r \in Runs |-> NoSlip]
    /\ computed = [r \in Runs |-> 0]
    /\ finished = [r \in Runs |-> 0]
    /\ advance = [a \in Advances |-> [state |-> "APPROVED", slip |-> Nowhere]]
    /\ queue = [r \in Runs |-> 0] /\ job = NoRun
    /\ failing = {} /\ refused = {}
    /\ payHoles = {} /\ executions = 0 /\ payFaults = 0

-----------------------------------------------------------------------------
(* What the SQL reads                                                      *)

Newest(runs) == CHOOSE r \in runs : \A other \in runs : other <= r

\* Faulty form, for trying the properties: only the newest regular run is looked at.
NewestSettled(p) ==
    LET kept == {r \in RunsOf(p) : run[r] \notin {"none", "DISCARDED"}}
        regular == {r \in kept : KindOf(r) = "REGULAR"} IN
    /\ regular # {} => run[Newest(regular)] = "DONE"
    /\ \A r \in kept \ regular : run[r] = "DONE"

\* requireRunsSettled: an older regular run may be anything but RUNNING.
RunsSettled(p) ==
    LET kept == {r \in RunsOf(p) : run[r] \notin {"none", "DISCARDED"}}
        regular == {r \in kept : KindOf(r) = "REGULAR"} IN
    /\ \A r \in kept : run[r] # "RUNNING"
    /\ regular # {} => run[Newest(regular)] = "DONE"
    /\ \A r \in kept \ regular : run[r] = "DONE"

HasFinished(r) == finished[r] > 0
FinishesNow(r) == [s \in Runs |-> IF s = r THEN 1 ELSE IF HasFinished(s) THEN finished[s] + 1 ELSE 0]
\* The payslip a lock would issue: of the regular run that finished last.
LastFinished(p) ==
    LET priced == {r \in Done(p, "REGULAR") : Held(r)} IN
    {r \in priced : \A other \in priced : finished[r] <= finished[other]}

\* Faulty form, for trying the properties: nobody asks what another period of the month issued.
PaidNowhere(p) == FALSE

PaidElsewhere(p) ==
    \E r \in Issued :
        /\ KindOf(r) = "REGULAR" /\ PeriodOf(r) # p
        /\ Calendar[PeriodOf(r)].month = Calendar[p].month

ChosenSlips(p) ==
    (IF PaidElsewhere(p) THEN {} ELSE LastFinished(p)) \cup {r \in Done(p, "BONUS") : Held(r)}

\* taxBases: the regular payslip the lock would issue and every other finished bonus.
TaxBases(r) ==
    LET p == PeriodOf(r) IN
    {IdOf(b) : b \in LastFinished(p) \cup {o \in Done(p, "BONUS") \ {r} : Held(o)}}

Locked(p) == locking[p] # NotLocking
-----------------------------------------------------------------------------
(* Writes several operations share                                         *)

\* dropSlips: the payslips go and the advances they deducted are let go.
DropSlips(runs) ==
    /\ slip' = [r \in Runs |-> IF r \in runs THEN NoSlip ELSE slip[r]]
    /\ advance' = [a \in Advances |->
           IF advance[a].state = "PAID" /\ \E r \in runs : Held(r) /\ advance[a].slip = IdOf(r)
           THEN [advance[a] EXCEPT !.slip = Nowhere] ELSE advance[a]]

\* Faulty form, for trying the properties: a bonus outlives the payslip it was taxed on.
StaleNone(r) == {}

\* A regular run that finishes leaves no bonus of its period done.
StaleOver(r) == Done(PeriodOf(r), "BONUS")

\* staleOver: what had finished goes back to draft.
BackToDraft(states, stale) == [r \in Runs |-> IF r \in stale THEN "DRAFT" ELSE states[r]]

-----------------------------------------------------------------------------
(* The desks                                                               *)

CreatePeriod(p) ==
    /\ period[p] = "none"
    /\ \A q \in Periods : Calendar[q].entity = Calendar[p].entity =>
           /\ period[q] # "OPEN"
           /\ period[q] # "none" => Calendar[q].month < Calendar[p].month
    /\ period' = [period EXCEPT ![p] = "OPEN"]
    /\ UNCHANGED <<plan, home, locking, run, slip, computed, finished, advance, jobs,
                   payHoles, payBudget>>

CreateRun(r) ==
    /\ run[r] = "none"
    /\ \A older \in RunsOf(PeriodOf(r)) : older < r => run[older] # "none"
    /\ period[PeriodOf(r)] = "OPEN" /\ ~Locked(PeriodOf(r))
    /\ run' = [run EXCEPT ![r] = "DRAFT"]
    /\ UNCHANGED <<plan, home, period, locking, slip, computed, finished, advance, jobs,
                   payHoles, payBudget>>

\* The claim, under the period's row lock.
Claim(r) ==
    /\ executions < MaxExecutions
    /\ run[r] \in {"DRAFT", "DONE", "FAILED"}
    /\ period[PeriodOf(r)] = "OPEN" /\ ~Locked(PeriodOf(r))
    /\ \A other \in RunsOf(PeriodOf(r)) : run[other] # "RUNNING"
    /\ KindOf(r) = "BONUS" => \E b \in Done(PeriodOf(r), "REGULAR") : Held(b)
    /\ run' = [run EXCEPT ![r] = "RUNNING"]
    /\ executions' = executions + 1
    /\ UNCHANGED <<plan, home, period, locking, slip, computed, finished, advance, job, failing>>

Execute(r) ==
    /\ Claim(r)
    /\ queue' = [queue EXCEPT ![r] = @ + 1]
    /\ UNCHANGED <<refused, payHoles, payFaults>>

\* The queue's answer is lost, whether it took the job or not.
ExecuteRefused(r) ==
    /\ payFaults < plan.faults
    /\ Claim(r)
    /\ \/ queue' = [queue EXCEPT ![r] = @ + 1] /\ payHoles' = payHoles \cup {"redelivered"}
       \/ UNCHANGED <<queue, payHoles>>
    /\ refused' = refused \cup {r}
    /\ payFaults' = payFaults + 1

\* The catch of execute writes FAILED whatever the worker has done meanwhile.
RefusedFails(r) ==
    /\ r \in refused
    /\ refused' = refused \ {r}
    /\ run' = [run EXCEPT ![r] = "FAILED"]
    /\ payHoles' = payHoles \cup (IF HasFinished(r) THEN {"relost"} ELSE {})
    /\ UNCHANGED <<plan, home, period, locking, slip, computed, finished, advance, queue, job,
                   failing, payBudget>>

\* What stands on a payslip that goes: a bonus being priced, a bonus that is done.
Cuts(gone) ==
    (IF \E r \in gone : KindOf(r) = "REGULAR" /\ IdOf(r) \in job.base THEN {"undercut"} ELSE {})
    \cup (IF \E r \in gone, b \in Runs \ gone :
              KindOf(r) = "BONUS" /\ IdOf(r) \in slip[b].base \cup job.base
          THEN {"retaken"} ELSE {})

Discard(r) ==
    /\ run[r] \in {"DRAFT", "DONE", "FAILED"}
    /\ period[PeriodOf(r)] = "OPEN" /\ ~Locked(PeriodOf(r))
    /\ LET stale == IF KindOf(r) = "REGULAR" /\ run[r] = "DONE"
                    THEN {o \in RunsOf(PeriodOf(r)) \ {r} : run[o] = "DONE"} ELSE {} IN
       /\ DropSlips(stale \cup {r})
       /\ payHoles' = payHoles \cup Cuts(stale \cup {r})
       /\ run' = [BackToDraft(run, stale) EXCEPT ![r] = "DISCARDED"]
    /\ UNCHANGED <<plan, home, period, locking, computed, finished, jobs, payBudget>>

\* setBonus on a run that is DONE; on any other it changes no state kept here.
Reload(r) ==
    /\ KindOf(r) = "BONUS" /\ run[r] = "DONE"
    /\ period[PeriodOf(r)] = "OPEN" /\ ~Locked(PeriodOf(r))
    /\ DropSlips({r})
    /\ run' = [run EXCEPT ![r] = "DRAFT"]
    /\ payHoles' = payHoles \cup Cuts({r})
    /\ UNCHANGED <<plan, home, period, locking, computed, finished, jobs, payBudget>>

\* taxBases does not ask what chosenSlips asks: whether the lock would issue the payslip.
LeavesBase(p) ==
    \E r \in LastFinished(p) \ ChosenSlips(p), b \in ChosenSlips(p) : IdOf(r) \in slip[b].base

Lock(p) ==
    /\ period[p] = "OPEN" /\ ~Locked(p)
    /\ RunsSettled(p)
    /\ locking' = [locking EXCEPT ![p] = ChosenSlips(p)]
    /\ payHoles' = payHoles \cup
           (IF \E q \in Periods \ {p} : Locked(q) /\ Calendar[q].month = Calendar[p].month
            THEN {"overlapped"} ELSE {})
           \cup (IF LeavesBase(p) THEN {"elsewhere"} ELSE {})
    /\ UNCHANGED <<plan, home, period, run, slip, computed, finished, advance, jobs, payBudget>>

\* Faulty form, for trying the properties: every advance paid out is settled.
SettlesOutstanding(a, issued) == advance[a].state = "PAID"

\* The advances the lock settles: paid out, and pointing at a payslip it issues.
Settles(a, issued) == advance[a].state = "PAID" /\ \E r \in issued : advance[a].slip = IdOf(r)

\* Issuing and spending are one transaction.
CommitLock(p) ==
    /\ Locked(p)
    /\ LET issued == {r \in locking[p] : slip[r].state = "DRAFT"} IN
       /\ slip' = [r \in Runs |-> IF r \in issued THEN [slip[r] EXCEPT !.state = "ISSUED"]
                                  ELSE slip[r]]
       /\ advance' = [a \in Advances |-> IF Settles(a, issued)
                                         THEN [advance[a] EXCEPT !.state = "SETTLED"]
                                         ELSE advance[a]]
    /\ period' = [period EXCEPT ![p] = "LOCKED"]
    /\ locking' = [locking EXCEPT ![p] = NotLocking]
    /\ UNCHANGED <<plan, home, run, computed, finished, jobs, payHoles, payBudget>>

\* AdvanceService.markPaid: the money has left the account.
MarkAdvancePaid(a) ==
    /\ advance[a].state = "APPROVED"
    /\ advance' = [advance EXCEPT ![a].state = "PAID"]
    /\ UNCHANGED <<plan, home, period, locking, run, slip, computed, finished, jobs,
                   payHoles, payBudget>>

MoveHome ==
    /\ home < Len(plan.homes)
    /\ home' = home + 1
    /\ UNCHANGED <<plan, period, locking, run, slip, computed, finished, advance, jobs,
                   payHoles, payBudget>>

-----------------------------------------------------------------------------
(* The worker                                                              *)

Idle == job.at = "idle"

\* computeRun reads the run and its period once; a period that is not OPEN fails the run.
TakeJob(r) ==
    /\ Idle /\ queue[r] > 0
    /\ queue' = [queue EXCEPT ![r] = @ - 1]
    /\ IF period[PeriodOf(r)] = "OPEN"
       THEN /\ job' = [NoRun EXCEPT !.run = r, !.at = "read"]
            /\ UNCHANGED run
       ELSE /\ run' = [run EXCEPT ![r] = "FAILED"]
            /\ UNCHANGED job
    /\ UNCHANGED <<plan, home, period, locking, slip, computed, finished, advance, failing,
                   refused, payHoles, payBudget>>

\* Another open period's draft already carries the employee.
Crosses(r) ==
    \E o \in Runs : /\ PeriodOf(o) # PeriodOf(r) /\ period[PeriodOf(o)] = "OPEN"
                    /\ KindOf(o) = "REGULAR" /\ Held(o)

\* Marks itself RUNNING, drops what an earlier attempt left and reads what to deduct.
\* The delete leaves the advances pointing at the payslip that went.
BeginRegular ==
    /\ job.at = "read" /\ KindOf(job.run) = "REGULAR"
    /\ LET covers == Calendar[PeriodOf(job.run)].entity = plan.homes[home] IN
       /\ job' = [job EXCEPT !.at = "priced", !.covers = covers,
                             !.advances = {a \in Advances : advance[a].state = "PAID"}]
       /\ payHoles' = payHoles \cup (IF covers /\ Crosses(job.run) THEN {"crossed"} ELSE {})
    /\ run' = [run EXCEPT ![job.run] = "RUNNING"]
    /\ slip' = [slip EXCEPT ![job.run] = NoSlip]
    /\ UNCHANGED <<plan, home, period, locking, computed, finished, advance, queue, failing,
                   refused, payBudget>>

WriteSlip ==
    /\ job.at = "priced"
    /\ LET r == job.run
           writes == KindOf(r) = "BONUS" \/ job.covers IN
       /\ slip' = IF writes
                  THEN [slip EXCEPT ![r] = [state |-> "DRAFT", no |-> computed[r] + 1,
                                            deducts |-> job.advances, base |-> job.base]]
                  ELSE slip
       /\ computed' = IF writes THEN [computed EXCEPT ![r] = @ + 1] ELSE computed
    /\ job' = [job EXCEPT !.at = "written"]
    /\ UNCHANGED <<plan, home, period, locking, run, finished, advance, queue, failing,
                   refused, payHoles, payBudget>>

\* markCarried: what the run read as outstanding now points at its payslip.
MarkCarried(r) ==
    [a \in Advances |-> IF a \in job.advances /\ advance[a].state = "PAID" /\ Held(r)
                        THEN [advance[a] EXCEPT !.slip = IdOf(r)] ELSE advance[a]]

\* A regular run that finishes sends the finished bonuses back to draft.
FinishRegular ==
    /\ job.at = "written" /\ KindOf(job.run) = "REGULAR"
    /\ LET r == job.run
           stale == StaleOver(r) IN
       /\ run' = [BackToDraft(run, stale) EXCEPT ![r] = "DONE"]
       /\ slip' = [s \in Runs |-> IF s \in stale THEN NoSlip ELSE slip[s]]
       /\ advance' = MarkCarried(r)
       /\ finished' = FinishesNow(r)
       /\ payHoles' = payHoles \cup (IF HasFinished(r) /\ ~Held(r) THEN {"relost"} ELSE {})
    /\ job' = NoRun
    /\ UNCHANGED <<plan, home, period, locking, computed, queue, failing, refused, payBudget>>

\* A bonus with no regular payslip under it is not worth another attempt.
BeginBonus ==
    /\ job.at = "read" /\ KindOf(job.run) = "BONUS"
    /\ IF LastFinished(PeriodOf(job.run)) = {}
       THEN /\ failing' = failing \cup {job.run}
            /\ job' = NoRun
            /\ UNCHANGED <<slip, payHoles>>
       ELSE /\ slip' = [slip EXCEPT ![job.run] = NoSlip]
            /\ job' = [job EXCEPT !.at = "priced", !.base = TaxBases(job.run)]
            /\ payHoles' = payHoles \cup Cuts({job.run})
            /\ UNCHANGED failing
    /\ UNCHANGED <<plan, home, period, locking, run, computed, finished, advance, queue,
                   refused, payBudget>>

FinishBonus ==
    /\ job.at = "written" /\ KindOf(job.run) = "BONUS"
    /\ run' = [run EXCEPT ![job.run] = "DONE"]
    /\ job' = NoRun
    /\ UNCHANGED <<plan, home, period, locking, slip, computed, finished, advance, queue,
                   failing, refused, payHoles, payBudget>>

\* An attempt falls, in an error or with the process: another one waits, or none is left.
AttemptFalls ==
    /\ ~Idle /\ payFaults < plan.faults
    /\ payFaults' = payFaults + 1
    /\ job' = NoRun
    /\ \/ queue' = [queue EXCEPT ![job.run] = @ + 1] /\ UNCHANGED failing
       \/ failing' = failing \cup {job.run} /\ UNCHANGED queue
    /\ UNCHANGED <<plan, home, period, locking, run, slip, computed, finished, advance, refused,
                   payHoles, executions>>

\* The worker's hold on the job lapses while it works: the queue hands the job out again.
Redeliver ==
    /\ ~Idle /\ payFaults < plan.faults
    /\ payFaults' = payFaults + 1
    /\ queue' = [queue EXCEPT ![job.run] = @ + 1]
    /\ payHoles' = payHoles \cup {"redelivered"}
    /\ UNCHANGED <<plan, home, period, locking, run, slip, computed, finished, advance, job,
                   failing, refused, executions>>

FailRun(r) ==
    /\ r \in failing
    /\ failing' = failing \ {r}
    /\ run' = [run EXCEPT ![r] = "FAILED"]
    /\ payHoles' = payHoles \cup (IF HasFinished(r) THEN {"relost"} ELSE {})
    /\ UNCHANGED <<plan, home, period, locking, slip, computed, finished, advance, queue, job,
                   refused, payBudget>>

Worker ==
    \/ \E r \in Runs : TakeJob(r) \/ FailRun(r) \/ RefusedFails(r)
    \/ BeginRegular \/ BeginBonus \/ WriteSlip \/ FinishRegular \/ FinishBonus
    \/ AttemptFalls \/ Redeliver

Desk ==
    \/ \E p \in Periods : CreatePeriod(p) \/ Lock(p) \/ CommitLock(p)
    \/ \E r \in Runs : CreateRun(r) \/ Execute(r) \/ ExecuteRefused(r) \/ Discard(r) \/ Reload(r)
    \/ (\E a \in Advances : MarkAdvancePaid(a)) \/ MoveHome

PayNext == Worker \/ Desk
PaySpec == PayInit /\ [][PayNext]_payVars

-----------------------------------------------------------------------------
PayTypeOK ==
    /\ period \in [Periods -> {"none", "OPEN", "LOCKED"}]
    /\ run \in [Runs -> {"none", "DRAFT", "RUNNING", "DONE", "FAILED", "DISCARDED"}]
    /\ \A r \in Runs : /\ slip[r].state \in {"none", "DRAFT", "ISSUED"}
                       /\ slip[r].no <= computed[r] /\ slip[r].deducts \subseteq Advances
    /\ \A a \in Advances : advance[a].state \in {"APPROVED", "PAID", "SETTLED"}
    /\ payHoles \subseteq PayHoles

Deducting(a) == {r \in Issued : a \in slip[r].deducts}

\* What an advance paid out comes back through one issued payslip and no second one, and
\* is SETTLED exactly then, unless the run it pointed at came back without the payslip, two
\* open periods carried the employee, or a job came twice (markCarried, dropSlips, lock).
ComesBackOnce ==
    payHoles \cap {"relost", "crossed", "redelivered"} = {} =>
        \A a \in Advances : /\ Cardinality(Deducting(a)) <= 1
                            /\ (advance[a].state = "SETTLED") <=> (Deducting(a) # {})

\* Every payslip a bonus was taxed on top of is issued with it: a run that finishes or goes
\* takes the bonuses on it back to draft, unless one was just being priced, a bonus another
\* is taxed on was taken again, the month's regular payslip was issued by another period, or
\* a job came twice (staleOver, taxBases, lock).
BonusStandsOnIssued ==
    payHoles \cap {"relost", "undercut", "retaken", "elsewhere", "redelivered"} = {} =>
        \A r \in Issued : slip[r].base \subseteq {IdOf(b) : b \in Issued}

\* However the employee moves between entities and their periods are locked, a month issues
\* one regular payslip, unless two periods of it are locked at once (paidElsewhere).
OneSlipAMonth ==
    payHoles \cap {"overlapped", "redelivered"} = {} =>
        \A r, o \in Issued :
            /\ KindOf(r) = "REGULAR" /\ KindOf(o) = "REGULAR"
            /\ Calendar[PeriodOf(r)].month = Calendar[PeriodOf(o)].month
            => r = o

\* No run, discard or repeated lock changes or removes what was issued, and a period that is
\* locked issues nothing more, unless a job came twice (requireRunsSettled, requireOpen).
IssuedStays ==
    [][/\ "redelivered" \notin payHoles => \A r \in Issued : slip'[r] = slip[r]
       /\ \A r \in Runs : slip'[r].state = "ISSUED" /\ r \notin Issued =>
              period[PeriodOf(r)] = "OPEN"]_payVars
=============================================================================
