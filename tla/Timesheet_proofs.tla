-------------------------- MODULE Timesheet_proofs --------------------------
(* Proofs of what Timesheet says of a person's day, for any requests on it, any  *)
(* number of punches and any faults.                                             *)
EXTENDS Timesheet, FiniteSetTheorems, TLAPS

Filed(r) == deciding[r] # "unfiled"

(* No two of what excludes one another are filed for the day. *)
FilingsApart ==
  /\ \A r \in approved : Filed(r)
  /\ \A r, s \in Requests : Filed(r) /\ Filed(s) => \/ r = s
                                                    \/ "fix" \in {r, s}
                                                    \/ r \in Halves /\ s \in Halves

(* Nothing is built before the day is over. *)
BuiltAfter ==
  /\ ~over => owes = {} /\ jobs = {} /\ build = Idle /\ nightly = "due"
  /\ build.job = "none" => build = Idle

(* What the device measured is in the row or, before a correction, is the row's. *)
Measure(r) == IF r.measured # None THEN r.measured ELSE r.worked
Measures ==
  /\ lastBuilt \in 0 .. MaxPunches
  /\ ~row.adjusted => Measure(row) = lastBuilt
  /\ row.adjusted /\ "overwritten" \notin holes => row.measured = lastBuilt

(* A rebuild that will see the punches stored by now is owed, queued or at work. *)
RebuildWaits == owes # {} \/ "rebuild" \in jobs
RebuildComes ==
  RebuildWaits \/ (build.job = "rebuild" /\ ("punches" \in build.saw => build.punches = counted))

(* A build that read before a punch has the rebuild of the punch behind it. *)
PunchesFollow ==
  /\ "punches" \in build.saw /\ build.punches # counted => RebuildWaits
  /\ nightly = "done" /\ ~row.adjusted /\ row.punches # counted => RebuildComes

(* No approval is unseen by a build that read the requests, nor by the row. *)
RequestsFollow ==
  /\ "requests" \in build.saw => build.requests = approved
  /\ nightly = "done" /\ ~row.adjusted => row = DayOf(row.punches, approved)

(* One decision at a time, beside fixes, and its mark is judged on the row as it stands. *)
DecisionsStand ==
  /\ \A r, s \in Requests \ {"fix"} : InDecision(r) /\ InDecision(s) => r = s
  /\ \A r \in Requests : InDecision(r) => Filed(r)
  /\ ~row.adjusted => \A r \in Requests \ {"fix"} :
        InDecision(r) => (deciding[r] = "marked" <=> Marks(r))
  /\ "fix" \in Requests => deciding["fix"] # "passed"

Facts == PunchesFollow /\ RequestsFollow /\ DecisionsStand

(* A punch HR lets count takes the place of one that waits. *)
Room == counted + held <= MaxPunches

IInv == TypeOK /\ Room /\ FilingsApart /\ BuiltAfter /\ Measures /\ (holes = {} => Facts)

Rows == [state : {"none", "ABSENT", "LEAVE", "WORKED"}, punches : 0 .. MaxPunches,
         worked : Minutes, measured : Minutes, adjusted : BOOLEAN]
Builds == [job : {"none", "nightly", "rebuild", "range"}, saw : SUBSET {"punches", "requests"},
           punches : 0 .. MaxPunches, requests : SUBSET Requests]

(* The bounds are natural numbers, and None is no number of minutes measured. *)
LEMMA Bounds ==
  /\ MaxPunches \in Nat /\ MaxAsks \in Nat /\ MaxFaults \in Nat
  /\ None \in Minutes /\ ByHand \in Minutes /\ ByHand # None
  /\ \A n \in 0 .. MaxPunches : n \in Minutes /\ n # None
  /\ NoRow \in Rows /\ Idle \in Builds
<1>1. MaxPunches \in Nat /\ MaxAsks \in Nat /\ MaxFaults \in Nat
  BY TimesheetAssumption
<1>2. /\ None \in Minutes /\ ByHand \in Minutes /\ ByHand # None
      /\ \A n \in 0 .. MaxPunches : n \in Minutes /\ n # None
  BY <1>1 DEF None, ByHand, Minutes
<1>3. NoRow \in Rows
  BY <1>1, <1>2 DEF NoRow, Rows
<1>4. Idle \in Builds
  BY <1>1 DEF Idle, Builds
<1> QED
  BY <1>1, <1>2, <1>3, <1>4

(* What a day comes to is a row. *)
LEMMA DayIsRow ==
  ASSUME NEW n \in 0 .. MaxPunches, NEW asked
  PROVE  /\ DayOf(n, asked) \in Rows
         /\ DayOf(n, asked).punches = n /\ DayOf(n, asked).worked = n
         /\ ~DayOf(n, asked).adjusted
         /\ Measure(DayOf(n, asked)) = n
<1>1. CASE n > 0
  BY <1>1, Bounds DEF DayOf, Rows, Measure
<1>2. CASE ~(n > 0)
  <2>1. n = 0
    BY <1>2, Bounds
  <2>2. PICK st : /\ st = IF OnLeave(asked) THEN "LEAVE" ELSE IF "trip" \in asked THEN "WORKED" ELSE "ABSENT"
                  /\ st \in {"LEAVE", "WORKED", "ABSENT"}
    OBVIOUS
  <2>3. DayOf(n, asked) = [state |-> st, punches |-> 0, worked |-> 0, measured |-> None, adjusted |-> FALSE]
    BY <1>2, <2>2 DEF DayOf, NoRow
  <2>4. 0 \in 0 .. MaxPunches /\ 0 \in Minutes /\ None \in Minutes
    BY Bounds
  <2>5. PICK day : day = DayOf(n, asked)
    OBVIOUS
  <2>6. /\ day = [state |-> st, punches |-> 0, worked |-> 0, measured |-> None, adjusted |-> FALSE]
        /\ day.measured = None /\ day.worked = 0 /\ day.punches = 0 /\ day.adjusted = FALSE
    BY <2>3, <2>5
  <2>7. day \in Rows
    BY <2>2, <2>4, <2>6 DEF Rows
  <2> QED
    BY <2>1, <2>5, <2>6, <2>7 DEF Measure
<1> QED
  BY <1>1, <1>2

(* Out of the night before, nothing is stored, filed for or built. *)
LEMMA InitIInv == Init => IInv
<1> SUFFICES ASSUME Init PROVE IInv
  OBVIOUS
<1>1. PICK filed \in SUBSET Requests :
        /\ Cardinality({whole \in {{"leave"}, {"trip"}, Halves} : filed \cap whole # {}}) <= 1
        /\ deciding = [r \in Requests |-> IF r \in filed THEN "filed" ELSE "unfiled"]
  BY DEF Init
<1>a. deciding = [r \in Requests |-> IF r \in filed THEN "filed" ELSE "unfiled"]
  BY <1>1
<1>2. /\ over = FALSE /\ counted = 0 /\ held = 0 /\ owes = {} /\ jobs = {} /\ nightly = "due"
      /\ build = Idle /\ row = NoRow /\ approved = {} /\ correcting = NoRow /\ lastBuilt = 0
      /\ holes = {} /\ asks = 0 /\ faults = 0
  BY DEF Init
<1>3. TypeOK
  <2>1. deciding \in [Requests -> {"unfiled", "filed", "marked", "passed"}]
    BY <1>a
  <2>2. {row, correcting} \subseteq Rows /\ build \in Builds
    BY <1>2, Bounds
  <2>3. 0 \in 0 .. MaxPunches /\ 0 \in Minutes /\ 0 \in 0 .. MaxAsks /\ 0 \in 0 .. MaxFaults
    BY Bounds
  <2> QED
    BY <1>2, <2>1, <2>2, <2>3 DEF TypeOK, Rows, Builds
<1>b. Room
  BY <1>2, Bounds DEF Room
<1>4. FilingsApart
  <2>0. PICK kinds, touched : /\ kinds = {{"leave"}, {"trip"}, Halves}
                              /\ touched = {whole \in kinds : filed \cap whole # {}}
    OBVIOUS
  <2>1. IsFiniteSet(kinds)
    <3>0. PICK one, two, three : one = {"leave"} /\ two = {"trip"} /\ three = Halves
      OBVIOUS
    <3>1. IsFiniteSet({one})
      BY FS_Singleton
    <3>2. IsFiniteSet({one} \cup {two})
      BY <3>1, FS_AddElement
    <3>3. IsFiniteSet(({one} \cup {two}) \cup {three})
      BY <3>2, FS_AddElement
    <3>4. kinds = ({one} \cup {two}) \cup {three}
      BY <2>0, <3>0
    <3> QED
      BY <3>3, <3>4
  <2>2. IsFiniteSet(touched) /\ Cardinality(touched) \in Nat /\ Cardinality(touched) <= 1
    <3>1. touched \in SUBSET kinds
      BY <2>0
    <3>2. IsFiniteSet(touched)
      BY <2>1, <3>1, FS_Subset
    <3> QED
      BY <1>1, <2>0, <3>2, FS_CardinalityType
  <2>3. ASSUME NEW a \in touched, NEW b \in touched, a # b PROVE FALSE
    <3>1. IsFiniteSet({a}) /\ Cardinality({a}) = 1
      BY FS_Singleton
    <3>2. b \notin {a}
      BY <2>3
    <3>3. IsFiniteSet({a} \cup {b}) /\ Cardinality({a} \cup {b}) = 1 + 1
      BY <3>1, <3>2, FS_AddElement
    <3>4. {a} \cup {b} \in SUBSET touched
      OBVIOUS
    <3>5. Cardinality({a} \cup {b}) <= Cardinality(touched)
      BY <2>2, <3>4, FS_Subset
    <3> QED
      BY <2>2, <3>3, <3>5
  <2>4. \A r \in filed : r = "fix" \/ \E whole \in touched : r \in whole
    <3> TAKE r \in filed
    <3>1. r \in {"leave", "morning", "afternoon", "trip", "fix"}
      BY TimesheetAssumption
    <3>2. \A whole \in kinds : r \in whole => whole \in touched
      BY <2>0
    <3>3. r = "fix" \/ \E whole \in kinds : r \in whole
      BY <2>0, <3>1 DEF Halves
    <3> QED
      BY <3>2, <3>3
  <2>5. \A r \in Requests : Filed(r) => r \in filed
    BY <1>1 DEF Filed
  <2>6. \A r, s \in filed : \/ r = s
                            \/ "fix" \in {r, s}
                            \/ r \in Halves /\ s \in Halves
    <3> TAKE r, s \in filed
    <3>1. CASE r # "fix" /\ s # "fix"
      <4>1. PICK whole \in touched : r \in whole /\ s \in whole
        BY <2>3, <2>4, <3>1
      <4> QED
        BY <2>0, <4>1
    <3> QED
      BY <3>1
  <2> QED
    BY <1>2, <2>5, <2>6 DEF FilingsApart
<1>5. BuiltAfter
  BY <1>2 DEF BuiltAfter
<1>6. Measures
  BY <1>2, Bounds DEF Measures, Measure, NoRow
<1>7. Facts
  <2>1. \A r \in Requests : ~InDecision(r) /\ deciding[r] # "passed"
    BY <1>1 DEF InDecision
  <2> QED
    BY <1>2, <2>1 DEF Facts, PunchesFollow, RequestsFollow, DecisionsStand, Idle
<1> QED
  BY <1>3, <1>b, <1>4, <1>5, <1>6, <1>7 DEF IInv
(* A step that leaves the row, the requests and what was measured alone. *)
LEMMA DeskRests ==
  ASSUME IInv, UNCHANGED <<row, approved, deciding, lastBuilt>>, holes \subseteq holes'
  PROVE  /\ FilingsApart' /\ Measures'
         /\ holes' = {} => DecisionsStand'
<1>1. FilingsApart'
  BY DEF IInv, FilingsApart, Filed
<1>2. Measures'
  BY DEF IInv, Measures, Measure
<1>3. ASSUME holes' = {} PROVE DecisionsStand'
  BY <1>3 DEF IInv, Facts, DecisionsStand, InDecision, Filed, Marks
<1> QED
  BY <1>1, <1>2, <1>3

(* The day ends; a punch comes and owes the rebuild of a day that has. *)
LEMMA PunchKeeps == ASSUME IInv, Midnight \/ StorePunch \/ AcceptPunch PROVE IInv'
<1>1. /\ UNCHANGED <<jobs, nightly, build, row, approved, deciding, correcting, lastBuilt, holes, asks, faults>>
      /\ over => over'
      /\ owes \subseteq owes' /\ owes' \subseteq owes \cup {"record", "decide"}
      /\ ~over' => owes' = owes
      /\ counted' # counted /\ over => owes' # {}
      /\ over' \in BOOLEAN
  <2>1. Midnight => /\ UNCHANGED <<jobs, nightly, build, row, approved, deciding, correcting, lastBuilt, holes, asks, faults>>
                    /\ over' = TRUE /\ owes' = owes /\ counted' = counted
    BY DEF Midnight, punching, desk, history, budget
  <2>2. StorePunch \/ AcceptPunch =>
           /\ UNCHANGED <<over, jobs, nightly, build, row, approved, deciding, correcting, lastBuilt, holes, asks, faults>>
           /\ \/ counted' = counted /\ owes' = owes
              \/ \E who \in {"record", "decide"} : owes' = IF over THEN owes \cup {who} ELSE owes
    BY DEF StorePunch, AcceptPunch, OwesRebuild, desk, history, budget
  <2> QED
    BY <2>1, <2>2 DEF IInv, TypeOK
<1>2. counted' \in 0 .. MaxPunches /\ held' \in 0 .. MaxPunches /\ counted' + held' <= MaxPunches
  <2>0. MaxPunches \in Nat /\ counted \in Nat /\ held \in Nat /\ counted + held <= MaxPunches
    BY Bounds DEF IInv, TypeOK, Room
  <2>1. \/ counted' = counted /\ held' = held
        \/ counted' = counted + 1 /\ held' = held /\ counted + held < MaxPunches
        \/ counted' = counted /\ held' = held + 1 /\ counted + held < MaxPunches
        \/ held > 0 /\ held' = held - 1 /\ counted' \in {counted, counted + 1}
    BY DEF Midnight, StorePunch, AcceptPunch, punching
  <2> QED
    BY <2>0, <2>1
<1>3. TypeOK'
  BY <1>1, <1>2 DEF IInv, TypeOK
<1>4. FilingsApart' /\ Measures' /\ (holes' = {} => DecisionsStand')
  BY <1>1, DeskRests
<1>5. BuiltAfter'
  BY <1>1 DEF IInv, BuiltAfter
<1>6. ASSUME holes' = {} PROVE PunchesFollow' /\ RequestsFollow'
  <2>1. PunchesFollow /\ RequestsFollow
    BY <1>1, <1>6 DEF IInv, Facts
  <2>2. RequestsFollow'
    BY <1>1, <2>1 DEF RequestsFollow
  <2>3. CASE counted' = counted
    <3>1. RebuildWaits => RebuildWaits'
      BY <1>1 DEF RebuildWaits
    <3>2. RebuildComes => RebuildComes'
      BY <1>1, <2>3, <3>1 DEF RebuildComes
    <3> QED
      BY <1>1, <2>1, <2>2, <2>3, <3>1, <3>2 DEF PunchesFollow
  <2>4. CASE counted' # counted /\ over
    <3>1. RebuildWaits' /\ RebuildComes'
      BY <1>1, <2>4 DEF RebuildComes, RebuildWaits
    <3> QED
      BY <2>2, <3>1 DEF PunchesFollow
  <2>5. CASE ~over
    <3>1. build' = Idle /\ nightly' = "due"
      BY <1>1, <2>5 DEF IInv, BuiltAfter
    <3>2. "punches" \notin Idle.saw
      BY DEF Idle
    <3>3. "punches" \notin build'.saw
      BY <3>1, <3>2
    <3> QED
      BY <2>2, <3>1, <3>3 DEF PunchesFollow
  <2> QED
    BY <2>2, <2>3, <2>4, <2>5
<1> QED
  BY <1>2, <1>3, <1>4, <1>5, <1>6 DEF IInv, Facts, Room

(* A rebuild that was owed waits, another build joins it, or a rebuild is lost. *)
LEMMA QueueKeeps ==
  ASSUME IInv,
         \/ ScheduleNightly \/ ScheduleBuild
         \/ \E who \in owes : ScheduleRebuild(who) \/ RebuildRefused(who)
  PROVE  IInv'
<1>1. /\ UNCHANGED <<over, counted, held, build, row, approved, deciding, correcting, lastBuilt>>
      /\ over /\ holes \subseteq holes' /\ holes' \subseteq Holes
      /\ owes' \subseteq owes
      /\ jobs \subseteq jobs' /\ jobs' \subseteq {"nightly", "rebuild", "range"}
      /\ nightly' \in {nightly, "queued"} /\ (nightly' # nightly => nightly = "due")
      /\ holes' = {} /\ owes' # owes => "rebuild" \in jobs'
      /\ asks' \in 0 .. MaxAsks /\ faults' \in 0 .. MaxFaults
  <2>1. ScheduleNightly \/ ScheduleBuild \/ (\E who \in owes : ScheduleRebuild(who) \/ RebuildRefused(who)) =>
           UNCHANGED <<over, counted, held, build, row, approved, deciding, correcting, lastBuilt>>
    BY DEF ScheduleNightly, ScheduleBuild, ScheduleRebuild, RebuildRefused, punching, desk, history, budget
  <2>2. CASE ScheduleNightly \/ ScheduleBuild
    <3>1. asks \in Nat /\ asks <= MaxAsks /\ MaxAsks \in Nat
      BY Bounds DEF IInv, TypeOK
    <3>2. asks' \in 0 .. MaxAsks
      BY <2>2, <3>1 DEF ScheduleNightly, ScheduleBuild, budget
    <3> QED
      BY <2>1, <2>2, <3>2 DEF ScheduleNightly, ScheduleBuild, punching, history, budget, IInv, TypeOK
  <2>3. CASE \E who \in owes : ScheduleRebuild(who)
    BY <2>1, <2>3 DEF ScheduleRebuild, history, budget, IInv, TypeOK, BuiltAfter
  <2>4. CASE \E who \in owes : RebuildRefused(who)
    BY <2>1, <2>4, Bounds DEF RebuildRefused, IInv, TypeOK, BuiltAfter, Holes
  <2> QED
    BY <2>1, <2>2, <2>3, <2>4
<1>2. TypeOK' /\ Room'
  BY <1>1 DEF IInv, TypeOK, Room
<1>3. FilingsApart' /\ Measures' /\ (holes' = {} => DecisionsStand')
  BY <1>1, DeskRests
<1>4. BuiltAfter'
  BY <1>1 DEF IInv, BuiltAfter
<1>5. ASSUME holes' = {} PROVE PunchesFollow' /\ RequestsFollow'
  <2>1. PunchesFollow /\ RequestsFollow
    BY <1>1, <1>5 DEF IInv, Facts
  <2>2. RebuildWaits => RebuildWaits'
    BY <1>1, <1>5 DEF RebuildWaits
  <2> QED
    BY <1>1, <2>1, <2>2 DEF PunchesFollow, RequestsFollow, RebuildComes
<1> QED
  BY <1>2, <1>3, <1>4, <1>5 DEF IInv, Facts

(* A job comes to the worker, which reads the punches and the requests. *)
LEMMA ReadKeeps ==
  ASSUME IInv, (\E job \in jobs : TakeJob(job)) \/ ReadPunches \/ ReadRequests PROVE IInv'
<1>1. /\ UNCHANGED <<over, counted, held, owes, nightly, row, approved, deciding, correcting, lastBuilt, holes, asks, faults>>
      /\ over /\ jobs' \subseteq jobs
  BY DEF TakeJob, ReadPunches, ReadRequests, punching, desk, history, budget, IInv, BuiltAfter
<1>2. /\ build \in Builds /\ jobs \subseteq {"nightly", "rebuild", "range"}
      /\ counted \in 0 .. MaxPunches /\ approved \in SUBSET Requests
  BY DEF IInv, TypeOK, Builds
<1>3. /\ build' \in Builds /\ build'.job # "none"
      /\ "rebuild" \in jobs => "rebuild" \in jobs' \/ (build'.job = "rebuild" /\ build'.saw = {})
      /\ build.job = "rebuild" => build'.job = "rebuild"
      /\ "punches" \in build'.saw =>
            ("punches" \in build.saw /\ build'.punches = build.punches /\ jobs' = jobs) \/ build'.punches = counted
      /\ "requests" \in build'.saw =>
            ("requests" \in build.saw /\ build'.requests = build.requests) \/ build'.requests = approved
  <2>1. ASSUME NEW job \in jobs, TakeJob(job) PROVE <1>3!:
    <3>1. /\ build = Idle /\ jobs' = jobs \ {job}
          /\ build' = [job |-> job, saw |-> {}, punches |-> 0, requests |-> {}]
      BY <2>1 DEF TakeJob, Idle
    <3> QED
      BY <1>2, <3>1, Bounds DEF Builds, Idle
  <2>2. CASE ReadPunches
    <3>1. /\ build # Idle /\ jobs' = jobs
          /\ build' = [job |-> build.job, saw |-> build.saw \cup {"punches"},
                       punches |-> counted, requests |-> build.requests]
      BY <1>2, <2>2 DEF ReadPunches, Builds
    <3>2. build.job # "none"
      BY <3>1 DEF IInv, BuiltAfter
    <3> QED
      BY <1>2, <3>1, <3>2 DEF Builds
  <2>3. CASE ReadRequests
    <3>1. /\ build # Idle /\ jobs' = jobs
          /\ build' = [job |-> build.job, saw |-> build.saw \cup {"requests"},
                       punches |-> build.punches, requests |-> approved]
      BY <1>2, <2>3 DEF ReadRequests, Builds
    <3>2. build.job # "none"
      BY <3>1 DEF IInv, BuiltAfter
    <3> QED
      BY <1>2, <3>1, <3>2 DEF Builds
  <2> QED
    BY <2>1, <2>2, <2>3
<1>4. TypeOK' /\ Room'
  BY <1>1, <1>2, <1>3 DEF IInv, TypeOK, Builds, Room
<1>5. FilingsApart' /\ Measures' /\ (holes' = {} => DecisionsStand')
  BY <1>1, DeskRests
<1>6. BuiltAfter'
  BY <1>1, <1>3 DEF BuiltAfter
<1>7. ASSUME holes' = {} PROVE PunchesFollow' /\ RequestsFollow'
  <2>1. PunchesFollow /\ RequestsFollow
    BY <1>1, <1>7 DEF IInv, Facts
  <2>2. RequestsFollow'
    BY <1>1, <1>3, <2>1 DEF RequestsFollow
  <2>3. "punches" \in build'.saw /\ build'.punches # counted => RebuildWaits'
    BY <1>1, <1>3, <2>1 DEF PunchesFollow, RebuildWaits
  <2>4. RebuildComes => RebuildComes'
    <3>1. CASE owes # {}
      BY <1>1, <3>1 DEF RebuildComes, RebuildWaits
    <3>2. CASE "rebuild" \in jobs
      BY <1>3, <3>2 DEF RebuildComes, RebuildWaits
    <3>3. CASE build.job = "rebuild" /\ ("punches" \in build.saw => build.punches = counted)
      BY <1>1, <1>3, <3>3 DEF RebuildComes, RebuildWaits
    <3> QED
      BY <3>1, <3>2, <3>3 DEF RebuildComes, RebuildWaits
  <2> QED
    BY <1>1, <2>1, <2>2, <2>3, <2>4 DEF PunchesFollow
<1> QED
  BY <1>4, <1>5, <1>6, <1>7 DEF IInv, Facts

(* The row becomes what the build read, or stays as it was corrected. *)
LEMMA WriteKeeps == ASSUME IInv, WriteDay PROVE IInv'
<1>1. /\ build.saw = {"punches", "requests"} /\ build' = Idle
      /\ holes \subseteq holes' /\ holes' \subseteq holes \cup {"passed"}
      /\ (\E r \in Requests : InDecision(r)) => holes' # {}
      /\ nightly' \in {nightly, "done"}
      /\ UNCHANGED <<over, counted, held, owes, jobs, approved, deciding, correcting, asks, faults>>
  BY DEF WriteDay, punching, desk, budget
<1>2. /\ row.adjusted => row' = row /\ lastBuilt' = lastBuilt
      /\ ~row.adjusted => row' = DayOf(build.punches, build.requests) /\ lastBuilt' = row'.worked
  BY DEF WriteDay
<1>3. PICK n : n = build.punches
  OBVIOUS
<1>4. /\ n \in 0 .. MaxPunches /\ build \in Builds /\ row \in Rows /\ correcting \in Rows
      /\ lastBuilt \in 0 .. MaxPunches /\ build # Idle
  BY <1>1, <1>3 DEF IInv, TypeOK, Builds, Rows, Measures, Idle
<1>5. ~row.adjusted => /\ row' \in Rows /\ row'.punches = n /\ ~row'.adjusted
                       /\ lastBuilt' = n /\ Measure(row)' = n
  BY <1>2, <1>3, <1>4, DayIsRow DEF Measure
<1>6. TypeOK' /\ Room'
  <2>1. row' \in Rows /\ lastBuilt' \in Minutes
    BY <1>2, <1>4, <1>5, Bounds
  <2>2. build' \in Builds
    BY <1>1, Bounds
  <2> QED
    BY <1>1, <1>4, <2>1, <2>2 DEF IInv, TypeOK, Rows, Builds, Holes, Room
<1>7. FilingsApart'
  BY <1>1 DEF IInv, FilingsApart, Filed
<1>8. BuiltAfter'
  BY <1>1, <1>4 DEF IInv, BuiltAfter
<1>9. Measures'
  BY <1>1, <1>2, <1>4, <1>5 DEF IInv, Measures, Measure
<1>10. ASSUME holes' = {} PROVE Facts'
  <2>1. Facts /\ \A r \in Requests : ~InDecision(r)
    BY <1>1, <1>10 DEF IInv
  <2>2. DecisionsStand'
    <3>1. \A r \in Requests : ~InDecision(r)'
      BY <1>1, <2>1 DEF InDecision
    <3> QED
      BY <1>1, <2>1, <3>1 DEF Facts, DecisionsStand
  <2>3. RequestsFollow'
    <3>1. build.requests = approved
      BY <1>1, <2>1 DEF Facts, RequestsFollow
    <3> QED
      BY <1>1, <1>2, <1>3, <1>5, <3>1 DEF RequestsFollow, Idle
  <2>4. PunchesFollow'
    <3>1. n # counted => RebuildWaits
      BY <1>1, <1>3, <2>1 DEF Facts, PunchesFollow
    <3> QED
      BY <1>1, <1>2, <1>5, <3>1 DEF PunchesFollow, RebuildComes, RebuildWaits, Idle
  <2> QED
    BY <2>2, <2>3, <2>4 DEF Facts
<1> QED
  BY <1>6, <1>7, <1>8, <1>9, <1>10 DEF IInv
(* A decision begins: it marks the row it sees, or passes it by. *)
LEMMA ApproveKeeps == ASSUME IInv, NEW r \in Requests, Approve(r) PROVE IInv'
<1>1. /\ r \notin approved /\ deciding[r] = "filed"
      /\ UNCHANGED <<over, counted, held, owes, jobs, nightly, build, row, approved, correcting, lastBuilt, asks, faults>>
      /\ holes \subseteq holes' /\ holes' \subseteq holes \cup {"halves"}
      /\ holes' = {} /\ r \in Halves => \A s \in Halves \cap Requests : ~InDecision(s)
  BY DEF Approve, punching, budget
<1>2. PICK side : /\ side = IF r = "fix" \/ Marks(r) THEN "marked" ELSE "passed"
                  /\ side \in {"marked", "passed"}
  OBVIOUS
<1>3. /\ deciding' = [deciding EXCEPT ![r] = side]
      /\ deciding \in [Requests -> {"unfiled", "filed", "marked", "passed"}]
  BY <1>2 DEF Approve, IInv, TypeOK
<1>4. /\ deciding' \in [Requests -> {"unfiled", "filed", "marked", "passed"}]
      /\ deciding'[r] = side
      /\ \A s \in Requests : s # r => deciding'[s] = deciding[s]
  BY <1>2, <1>3
<1>5. TypeOK' /\ Room'
  BY <1>1, <1>4 DEF IInv, TypeOK, Room, Holes
<1>6. FilingsApart'
  <2>1. \A s \in Requests : Filed(s)' <=> Filed(s)
    BY <1>1, <1>2, <1>4 DEF Filed
  <2>2. approved \subseteq Requests
    BY DEF IInv, TypeOK
  <2> QED
    BY <1>1, <2>1, <2>2 DEF IInv, FilingsApart
<1>7. BuiltAfter' /\ Measures'
  BY <1>1 DEF IInv, BuiltAfter, Measures, Measure
<1>8. ASSUME holes' = {} PROVE Facts'
  <2>1. Facts
    BY <1>1, <1>8 DEF IInv
  <2>2. PunchesFollow' /\ RequestsFollow'
    BY <1>1, <2>1 DEF Facts, PunchesFollow, RequestsFollow, RebuildComes, RebuildWaits
  <2>3. \A s \in Requests : s # r => (InDecision(s)' <=> InDecision(s))
    BY <1>4 DEF InDecision
  <2>4. ASSUME r # "fix", NEW s \in Requests, s # "fix", s # r, InDecision(s) PROVE FALSE
    <3>1. Filed(s) /\ Filed(r)
      BY <1>1, <2>1, <2>4 DEF Facts, DecisionsStand, Filed
    <3>2. r \in Halves /\ s \in Halves
      BY <2>4, <3>1 DEF IInv, FilingsApart
    <3> QED
      BY <1>1, <1>8, <2>4, <3>2
  <2>5. \A s, t \in Requests \ {"fix"} : InDecision(s)' /\ InDecision(t)' => s = t
    BY <2>1, <2>3, <2>4 DEF Facts, DecisionsStand
  <2>6. \A s \in Requests : InDecision(s)' => Filed(s)'
    BY DEF InDecision, Filed
  <2>7. \A s \in Requests \ {"fix"} :
           InDecision(s)' /\ ~row'.adjusted => (deciding'[s] = "marked" <=> Marks(s)')
    <3> TAKE s \in Requests \ {"fix"}
    <3>1. Marks(s)' <=> Marks(s)
      BY <1>1 DEF Marks
    <3>2. CASE s = r
      BY <1>2, <1>4, <3>1, <3>2
    <3>3. CASE s # r
      BY <1>1, <1>4, <2>1, <2>3, <3>1, <3>3 DEF Facts, DecisionsStand
    <3> QED
      BY <3>2, <3>3
  <2>8. "fix" \in Requests => deciding'["fix"] # "passed"
    BY <1>2, <1>4, <2>1 DEF Facts, DecisionsStand
  <2> QED
    BY <2>2, <2>5, <2>6, <2>7, <2>8 DEF Facts, DecisionsStand
<1> QED
  BY <1>5, <1>6, <1>7, <1>8 DEF IInv

(* What a mark makes of the row. *)
LEMMA MarkedRow ==
  ASSUME row \in Rows, NEW r
  PROVE  /\ Marked(r) \in Rows
         /\ Marked(r).punches = row.punches
         /\ r = "fix" => Marked(r).adjusted /\ Marked(r).measured = Measure(row)
         /\ r # "fix" => Marked(r) = [row EXCEPT !.state = IF r = "trip" THEN "WORKED" ELSE "LEAVE"]
<1>1. CASE r = "fix"
  <2>1. PICK m : m = Measure(row)
    OBVIOUS
  <2>2. Marked(r) = [row EXCEPT !.state = "WORKED", !.worked = ByHand, !.adjusted = TRUE, !.measured = m]
    <3>1. CASE row.measured # None
      BY <1>1, <2>1, <3>1 DEF Marked, Measure, Rows
    <3>2. CASE row.measured = None
      BY <1>1, <2>1, <3>2 DEF Marked, Measure, Rows
    <3> QED
      BY <3>1, <3>2
  <2>3. m \in Minutes
    BY <2>1 DEF Measure, Rows
  <2>4. Marked(r) = [state |-> "WORKED", punches |-> row.punches, worked |-> ByHand,
                     measured |-> m, adjusted |-> TRUE]
    BY <2>2 DEF Rows
  <2>5. PICK mark : mark = Marked(r)
    OBVIOUS
  <2>6. /\ mark = [state |-> "WORKED", punches |-> row.punches, worked |-> ByHand,
                   measured |-> m, adjusted |-> TRUE]
        /\ row.punches \in 0 .. MaxPunches /\ ByHand \in Minutes
    BY <2>4, <2>5, Bounds DEF Rows
  <2>7. mark \in Rows
    BY <2>3, <2>6 DEF Rows
  <2>8. mark.punches = row.punches /\ mark.adjusted /\ mark.measured = m
    BY <2>6
  <2> QED
    BY <1>1, <2>1, <2>5, <2>7, <2>8
<1>2. CASE r = "trip"
  BY <1>2 DEF Marked, Rows
<1>3. CASE r # "fix" /\ r # "trip"
  BY <1>3 DEF Marked, Rows
<1> QED
  BY <1>1, <1>2, <1>3

(* A row that says what its requests make of it does so with one more of them: *)
(* marked if it was to be, passed by if it says so already.                    *)
LEMMA DayTakesOneMore ==
  ASSUME row \in Rows, row = DayOf(row.punches, approved), ~row.adjusted,
         FilingsApart, approved \subseteq Requests,
         NEW r \in Requests, r # "fix", Filed(r)
  PROVE  /\ Marks(r) => Marked(r) = DayOf(row.punches, approved \cup {r})
         /\ ~Marks(r) => row = DayOf(row.punches, approved \cup {r})
<1>1. CASE row.punches > 0
  BY <1>1 DEF DayOf, Marks, Rows
<1>2. CASE ~(row.punches > 0)
  <2>1. row.punches = 0
    BY <1>2, Bounds DEF Rows
  <2>2. PICK old, new : /\ old = IF OnLeave(approved) THEN "LEAVE"
                                 ELSE IF "trip" \in approved THEN "WORKED" ELSE "ABSENT"
                        /\ new = IF OnLeave(approved \cup {r}) THEN "LEAVE"
                                 ELSE IF "trip" \in approved \cup {r} THEN "WORKED" ELSE "ABSENT"
    OBVIOUS
  <2>3. /\ row = [NoRow EXCEPT !.state = old]
        /\ DayOf(row.punches, approved \cup {r}) = [NoRow EXCEPT !.state = new]
    BY <1>2, <2>2 DEF DayOf
  <2>4. row.state = old /\ row.punches = 0 /\ row.adjusted = FALSE
    BY <2>1, <2>3 DEF NoRow
  <2>5. /\ r \in {"leave", "trip", "morning", "afternoon"}
        /\ \A s \in approved : /\ s \in Requests /\ Filed(s)
                              /\ s \in {"leave", "trip", "morning", "afternoon", "fix"}
    BY TimesheetAssumption DEF FilingsApart, Filed
  <2>6. /\ r = "leave" => "trip" \notin approved
        /\ r = "trip" => "leave" \notin approved /\ "morning" \notin approved /\ "afternoon" \notin approved
        /\ r \in Halves => "trip" \notin approved
    <3>1. ASSUME NEW s \in approved, s # "fix"
          PROVE  r = s \/ (r \in Halves /\ s \in Halves)
      BY <2>5, <3>1 DEF FilingsApart
    <3> QED
      BY <3>1 DEF Halves
  <2>7. Marks(r) <=> old = "ABSENT" /\ (r \in {"leave", "trip"} \/ Halves \subseteq approved \cup {r})
    BY <2>4 DEF Marks
  <2>8. /\ Marks(r) => new = (IF r = "trip" THEN "WORKED" ELSE "LEAVE")
        /\ ~Marks(r) => new = old
    <3>1. CASE r = "leave"
      BY <2>2, <2>6, <2>7, <3>1 DEF OnLeave
    <3>2. CASE r = "trip"
      BY <2>2, <2>6, <2>7, <3>2 DEF OnLeave, Halves
    <3>3. CASE r \in Halves
      BY <2>2, <2>6, <2>7, <3>3 DEF OnLeave, Halves
    <3> QED
      BY <2>5, <3>1, <3>2, <3>3 DEF Halves
  <2>9. Marks(r) => Marked(r) = [NoRow EXCEPT !.state = new]
    <3>1. Marked(r) = [row EXCEPT !.state = IF r = "trip" THEN "WORKED" ELSE "LEAVE"]
      BY MarkedRow
    <3>2. PICK st : st = IF r = "trip" THEN "WORKED" ELSE "LEAVE"
      OBVIOUS
    <3>3. Marked(r) = [row EXCEPT !.state = st]
      BY <3>1, <3>2
    <3>4. Marked(r) = [NoRow EXCEPT !.state = st]
      BY <2>3, <3>3 DEF NoRow
    <3> QED
      BY <2>8, <3>2, <3>4
  <2> QED
    BY <2>3, <2>8, <2>9
<1> QED
  BY <1>1, <1>2
(* A decision ends: its request counts from here on, its mark is in the row. *)
LEMMA CommitKeeps == ASSUME IInv, NEW r \in Requests, CommitDecision(r) PROVE IInv'
<1>1. /\ InDecision(r) /\ approved' = approved \cup {r}
      /\ UNCHANGED <<over, counted, held, owes, jobs, nightly, build, correcting, lastBuilt, asks, faults>>
      /\ holes \subseteq holes' /\ holes' \subseteq holes \cup {"passed"}
      /\ holes' = {} => "requests" \notin build.saw
  BY DEF CommitDecision, punching, budget
<1>2. /\ deciding[r] = "marked" => row' = Marked(r)
      /\ deciding[r] # "marked" => row' = row
  BY DEF CommitDecision
<1>3. /\ row \in Rows /\ correcting \in Rows /\ approved \subseteq Requests
      /\ deciding \in [Requests -> {"unfiled", "filed", "marked", "passed"}]
  BY DEF IInv, TypeOK, Rows
<1>4. /\ deciding' \in [Requests -> {"unfiled", "filed", "marked", "passed"}]
      /\ deciding'[r] = "filed"
      /\ \A s \in Requests : s # r => deciding'[s] = deciding[s]
  BY <1>3 DEF CommitDecision
<1>5. PICK mark : mark = Marked(r)
  OBVIOUS
<1>6. /\ mark \in Rows /\ mark.punches = row.punches
      /\ r = "fix" => mark.adjusted /\ mark.measured = Measure(row)
      /\ r # "fix" => mark = [row EXCEPT !.state = IF r = "trip" THEN "WORKED" ELSE "LEAVE"]
  BY <1>3, <1>5, MarkedRow
<1>7. row' \in Rows /\ row'.punches = row.punches /\ (row.adjusted => row'.adjusted)
  <2>1. row.adjusted => mark.adjusted
    BY <1>3, <1>6 DEF Rows
  <2> QED
    BY <1>2, <1>3, <1>5, <1>6, <2>1
<1>8. TypeOK' /\ Room'
  BY <1>1, <1>3, <1>4, <1>7 DEF IInv, TypeOK, Rows, Room, Holes
<1>9. FilingsApart'
  <2>1. \A s \in Requests : Filed(s)' <=> Filed(s)
    BY <1>1, <1>4 DEF Filed, InDecision
  <2>2. Filed(r)
    BY <1>1 DEF Filed, InDecision
  <2> QED
    BY <1>1, <1>3, <2>1, <2>2 DEF IInv, FilingsApart
<1>10. BuiltAfter'
  BY <1>1 DEF IInv, BuiltAfter
<1>11. Measures'
  <2>1. CASE row' = row
    BY <1>1, <2>1 DEF IInv, Measures, Measure
  <2>2. CASE row' = mark /\ r = "fix"
    <3>1. lastBuilt \in 0 .. MaxPunches /\ lastBuilt # None
      BY Bounds DEF IInv, Measures
    <3>2. "overwritten" \notin holes => Measure(row) = lastBuilt
      BY <3>1 DEF IInv, Measures, Measure
    <3> QED
      BY <1>1, <1>6, <2>2, <3>1, <3>2 DEF Measures
  <2>3. CASE row' = mark /\ r # "fix"
    <3>1. mark.worked = row.worked /\ mark.measured = row.measured /\ mark.adjusted = row.adjusted
      BY <1>3, <1>6, <2>3 DEF Rows
    <3> QED
      BY <1>1, <2>3, <3>1 DEF IInv, Measures, Measure
  <2> QED
    BY <1>2, <1>5, <2>1, <2>2, <2>3
<1>12. ASSUME holes' = {} PROVE Facts'
  <2>1. Facts /\ "requests" \notin build.saw
    BY <1>1, <1>12 DEF IInv
  <2>2. PunchesFollow'
    <3>1. RebuildWaits' <=> RebuildWaits
      BY <1>1 DEF RebuildWaits
    <3>2. RebuildComes' <=> RebuildComes
      BY <1>1, <3>1 DEF RebuildComes
    <3> QED
      BY <1>1, <1>7, <2>1, <3>1, <3>2 DEF Facts, PunchesFollow
  <2>3. r = "fix" => row'.adjusted
    BY <1>1, <1>2, <1>5, <1>6, <2>1 DEF Facts, DecisionsStand, InDecision
  <2>4. RequestsFollow'
    <3> SUFFICES ASSUME nightly = "done", ~row'.adjusted
                 PROVE  row' = DayOf(row'.punches, approved')
      BY <1>1, <2>1 DEF RequestsFollow
    <3>1. r # "fix" /\ ~row.adjusted /\ row = DayOf(row.punches, approved)
      BY <1>7, <2>1, <2>3 DEF Facts, RequestsFollow
    <3>2. FilingsApart /\ Filed(r) /\ (deciding[r] = "marked" <=> Marks(r))
      BY <1>1, <2>1, <3>1 DEF IInv, Facts, DecisionsStand
    <3>3. /\ Marks(r) => Marked(r) = DayOf(row.punches, approved \cup {r})
          /\ ~Marks(r) => row = DayOf(row.punches, approved \cup {r})
      BY <1>3, <3>1, <3>2, DayTakesOneMore
    <3> QED
      BY <1>1, <1>2, <1>7, <3>2, <3>3
  <2>5. DecisionsStand'
    <3>1. \A s \in Requests : InDecision(s)' => s # r /\ InDecision(s)
      BY <1>4 DEF InDecision
    <3>2. \A s \in Requests : InDecision(s)' => Filed(s)'
      BY DEF InDecision, Filed
    <3>3. ~row'.adjusted => \A s \in Requests \ {"fix"} : ~InDecision(s)'
      <4>1. ~row'.adjusted => r # "fix"
        BY <2>3
      <4> QED
        BY <1>1, <2>1, <3>1, <4>1 DEF Facts, DecisionsStand
    <3>4. "fix" \in Requests => deciding'["fix"] # "passed"
      BY <1>4, <2>1 DEF Facts, DecisionsStand
    <3>5. \A s, t \in Requests \ {"fix"} : InDecision(s)' /\ InDecision(t)' => s = t
      BY <2>1, <3>1 DEF Facts, DecisionsStand
    <3> QED
      BY <3>2, <3>3, <3>4, <3>5 DEF DecisionsStand
  <2> QED
    BY <2>2, <2>4, <2>5 DEF Facts
<1> QED
  BY <1>8, <1>9, <1>10, <1>11, <1>12 DEF IInv

(* A correction by hand reads the row. *)
LEMMA CorrectReadKeeps == ASSUME IInv, CorrectRead PROVE IInv'
<1>1. /\ UNCHANGED <<over, counted, held, owes, jobs, nightly, build, row, approved, deciding, lastBuilt, holes, faults>>
      /\ correcting' = row /\ asks < MaxAsks /\ asks' = asks + 1
  BY DEF CorrectRead, punching, history
<1>2. asks' \in 0 .. MaxAsks
  BY <1>1, Bounds DEF IInv, TypeOK
<1>3. TypeOK' /\ Room'
  BY <1>1, <1>2 DEF IInv, TypeOK, Room
<1>4. FilingsApart' /\ Measures' /\ (holes' = {} => DecisionsStand')
  BY <1>1, DeskRests
<1>5. BuiltAfter'
  BY <1>1 DEF IInv, BuiltAfter
<1>6. ASSUME holes' = {} PROVE PunchesFollow' /\ RequestsFollow'
  BY <1>1, <1>6 DEF IInv, Facts, PunchesFollow, RequestsFollow, RebuildComes, RebuildWaits
<1> QED
  BY <1>3, <1>4, <1>5, <1>6 DEF IInv, Facts

(* It writes what it read, and from then on no build touches the row. *)
LEMMA CorrectWriteKeeps == ASSUME IInv, CorrectWrite PROVE IInv'
<1>1. /\ UNCHANGED <<over, counted, held, owes, jobs, nightly, build, approved, deciding, lastBuilt, asks, faults>>
      /\ correcting' = NoRow
      /\ holes' = holes \cup (IF row # correcting THEN {"overwritten"} ELSE {})
  BY DEF CorrectWrite, punching, budget
<1>2. row \in Rows /\ correcting \in Rows
  BY DEF IInv, TypeOK, Rows
<1>3. PICK m, st : m = Measure(correcting) /\ st = correcting.state
  OBVIOUS
<1>4. row' = [row EXCEPT !.state = st, !.worked = ByHand, !.adjusted = TRUE, !.measured = m]
  BY <1>3 DEF CorrectWrite, Measure
<1>5. row' = [state |-> st, punches |-> row.punches, worked |-> ByHand, measured |-> m, adjusted |-> TRUE]
  BY <1>2, <1>4 DEF Rows
<1>6. row' \in Rows /\ row'.adjusted /\ row'.measured = m
  <2>1. /\ st \in {"none", "ABSENT", "LEAVE", "WORKED"} /\ m \in Minutes
        /\ row.punches \in 0 .. MaxPunches /\ ByHand \in Minutes
    BY <1>2, <1>3, Bounds DEF Rows, Measure
  <2> QED
    BY <1>5, <2>1 DEF Rows
<1>7. TypeOK' /\ Room'
  BY <1>1, <1>6, Bounds DEF IInv, TypeOK, Rows, Room, Holes
<1>8. FilingsApart' /\ BuiltAfter'
  BY <1>1 DEF IInv, FilingsApart, Filed, BuiltAfter
<1>9. Measures'
  <2>1. lastBuilt \in 0 .. MaxPunches /\ lastBuilt # None
    BY Bounds DEF IInv, Measures
  <2>2. "overwritten" \notin holes' => row = correcting /\ "overwritten" \notin holes
    BY <1>1
  <2>3. "overwritten" \notin holes => Measure(row) = lastBuilt
    BY <2>1 DEF IInv, Measures, Measure
  <2> QED
    BY <1>1, <1>3, <1>6, <2>1, <2>2, <2>3 DEF Measures
<1>10. ASSUME holes' = {} PROVE Facts'
  <2>1. Facts
    BY <1>1, <1>10 DEF IInv
  <2>2. PunchesFollow' /\ RequestsFollow'
    BY <1>1, <1>6, <2>1 DEF Facts, PunchesFollow, RequestsFollow, RebuildWaits
  <2>3. DecisionsStand'
    BY <1>1, <1>6, <2>1 DEF Facts, DecisionsStand, InDecision, Filed
  <2> QED
    BY <2>2, <2>3 DEF Facts
<1> QED
  BY <1>7, <1>8, <1>9, <1>10 DEF IInv

(* A crash rolls back what was open and hands the job at work out again. *)
LEMMA CrashKeeps == ASSUME IInv, Crash PROVE IInv'
<1>1. /\ UNCHANGED <<over, counted, held, nightly, row, approved, lastBuilt, asks>>
      /\ owes' = {} /\ correcting' = NoRow /\ build' = Idle
      /\ holes \subseteq holes' /\ holes' \subseteq holes \cup {"lost"} /\ (holes' = {} => owes = {})
      /\ jobs' = IF build = Idle THEN jobs ELSE jobs \cup {build.job}
      /\ faults < MaxFaults /\ faults' = faults + 1
      /\ deciding' = [s \in Requests |-> IF InDecision(s) THEN "filed" ELSE deciding[s]]
  BY DEF Crash
<1>2. deciding \in [Requests -> {"unfiled", "filed", "marked", "passed"}]
  BY DEF IInv, TypeOK
<1>3. \A s \in Requests : /\ deciding'[s] \in {"unfiled", "filed"}
                          /\ deciding'[s] # "unfiled" <=> deciding[s] # "unfiled"
  BY <1>1, <1>2 DEF InDecision
<1>4. jobs \subseteq jobs' /\ jobs' \subseteq {"nightly", "rebuild", "range"}
  BY <1>1 DEF IInv, TypeOK, BuiltAfter
<1>5. TypeOK' /\ Room'
  <2>1. faults' \in 0 .. MaxFaults
    BY <1>1, Bounds DEF IInv, TypeOK
  <2>2. deciding' \in [Requests -> {"unfiled", "filed", "marked", "passed"}]
    BY <1>1, <1>3
  <2> QED
    BY <1>1, <1>4, <2>1, <2>2, Bounds DEF IInv, TypeOK, Room, Rows, Builds, Holes
<1>6. FilingsApart'
  <2>1. approved \subseteq Requests
    BY DEF IInv, TypeOK
  <2> QED
    BY <1>1, <1>3, <2>1 DEF IInv, FilingsApart, Filed
<1>7. BuiltAfter'
  BY <1>1 DEF IInv, BuiltAfter
<1>8. Measures'
  BY <1>1 DEF IInv, Measures, Measure
<1>9. ASSUME holes' = {} PROVE Facts'
  <2>1. Facts /\ owes = {}
    BY <1>1, <1>9 DEF IInv
  <2>2. "punches" \notin build'.saw /\ "requests" \notin build'.saw
    BY <1>1 DEF Idle
  <2>3. RequestsFollow'
    BY <1>1, <2>1, <2>2 DEF Facts, RequestsFollow
  <2>4. RebuildComes => "rebuild" \in jobs'
    BY <1>1, <2>1 DEF RebuildComes, RebuildWaits, Idle
  <2>5. PunchesFollow'
    BY <1>1, <2>1, <2>2, <2>4 DEF Facts, PunchesFollow, RebuildComes, RebuildWaits
  <2>6. \A s \in Requests : ~InDecision(s)' /\ deciding'[s] # "passed"
    BY <1>3 DEF InDecision
  <2>7. DecisionsStand'
    BY <2>6 DEF DecisionsStand
  <2> QED
    BY <2>3, <2>5, <2>7 DEF Facts
<1> QED
  BY <1>5, <1>6, <1>7, <1>8, <1>9 DEF IInv

(* The invariant survives every step. *)
LEMMA NextKeeps == ASSUME IInv, [Next]_vars PROVE IInv'
<1>1. CASE Midnight \/ StorePunch \/ AcceptPunch
  BY <1>1, PunchKeeps
<1>2. CASE Schedulers \/ ScheduleBuild \/ \E who \in owes : RebuildRefused(who)
  BY <1>2, QueueKeeps DEF Schedulers
<1>3. CASE Worker
  BY <1>3, ReadKeeps, WriteKeeps DEF Worker
<1>4. CASE \E r \in Requests : Approve(r) \/ CommitDecision(r)
  BY <1>4, ApproveKeeps, CommitKeeps
<1>5. CASE CorrectRead BY <1>5, CorrectReadKeeps
<1>6. CASE CorrectWrite BY <1>6, CorrectWriteKeeps
<1>7. CASE Crash BY <1>7, CrashKeeps
<1>8. CASE UNCHANGED vars
  <2>1. UNCHANGED <<over, counted, held, owes, jobs, nightly, build, row, approved, deciding,
                    correcting, lastBuilt, holes, asks, faults>>
    BY <1>8 DEF vars, punching, history, desk, budget
  <2>2. TypeOK' /\ Room' /\ BuiltAfter'
    BY <2>1 DEF IInv, TypeOK, Room, BuiltAfter
  <2>3. FilingsApart' /\ Measures' /\ (holes' = {} => DecisionsStand')
    BY <2>1, DeskRests
  <2>4. holes' = {} => PunchesFollow' /\ RequestsFollow'
    BY <2>1 DEF IInv, Facts, PunchesFollow, RequestsFollow, RebuildComes, RebuildWaits
  <2> QED
    BY <2>2, <2>3, <2>4 DEF IInv, Facts
<1> QED
  BY <1>1, <1>2, <1>3, <1>4, <1>5, <1>6, <1>7, <1>8 DEF Next

(* It holds at every moment of every behaviour. *)
LEMMA DayHolds == Spec => []IInv
<1>1. IInv /\ [Next]_vars => IInv'
  BY NextKeeps
<1> QED
  BY InitIInv, <1>1, PTL DEF Spec

(* The day, its jobs, its row and the requests on it are well typed, for any     *)
(* requests of the day, any number of punches, of corrections and of faults.     *)
THEOREM DayTypeCorrect == Spec => []TypeOK
<1>1. IInv => TypeOK
  BY DEF IInv
<1> QED
  BY <1>1, DayHolds, PTL

(* With nothing left to run, a day nobody corrected says what its punches and    *)
(* its approved requests make of it, but through the recorded holes (build,      *)
(* write, markApproved, markHalvesApproved, scheduleRebuild).                    *)
THEOREM DayFollows == Spec => []DayFollowsItsFacts
<1>1. IInv => DayFollowsItsFacts
  <2> SUFFICES ASSUME IInv, Quiet, ~row.adjusted, holes = {}
               PROVE  row = DayOf(counted, approved)
    BY DEF DayFollowsItsFacts
  <2>1. Facts /\ nightly = "done" /\ owes = {} /\ jobs = {} /\ build = Idle
    BY DEF IInv, Quiet
  <2>2. ~RebuildComes
    BY <2>1 DEF RebuildComes, RebuildWaits, Idle
  <2> QED
    BY <2>1, <2>2 DEF Facts, PunchesFollow, RequestsFollow
<1> QED
  BY <1>1, DayHolds, PTL

(* What the device measured outlives every correction, unless the row moved      *)
(* under one (correct, applyFix).                                                *)
THEOREM MeasureStays == Spec => []MeasureKept
<1>1. IInv => MeasureKept
  BY DEF IInv, Measures, MeasureKept
<1> QED
  BY <1>1, DayHolds, PTL
=============================================================================
