----------------------------- MODULE DoorAccess ------------------------------
(* A face at the kiosk, the barrier and the punch (svc_attendance.cpp, fsm.cpp,  *)
(* servo_door.cpp). attend_task takes one event after the other; sync_task may   *)
(* open the barrier for a command; the timer's task brings it down. The three    *)
(* meet in m_door, which each gives up on after 50 ms: the timer's callback then *)
(* arms the timer again without it. Times are left out: a hold, a refusal and    *)
(* the dedup window may end at any moment, stamps in the order they were taken.  *)
EXTENDS Integers, Sequences, SequencesExt

CONSTANTS
    People,     \* those the door knows
    Stranger,   \* employee_id 0, whom a spoof, an unknown face and an empty result carry
    Nobody,
    KRecent,    \* kRecentStamps
    MaxPunches  \* bound: how many punches lie inside one dedup window

\* How a restart stands among the punches.
Restarted == "restart"

ASSUME DoorAssumption ==
    /\ {Stranger, Nobody, Restarted} \intersect People = {} /\ Stranger # Nobody
    /\ KRecent \in Nat \ {0} /\ MaxPunches \in Nat

VARIABLES
    state,         \* s_state
    left,          \* s_left_since_grant
    lastEmployee,  \* s_last_employee
    recent,        \* s_recent: the stamps still inside the window, oldest first
    call,          \* of attend_task and sync_task: the door call it is in
    arm,           \* the servo's arm
    alarm,         \* what the one-shot timer is armed for; "old" from before the last opening
    fired,         \* the callback under way: what it was armed for, and where it is
    mdoor,         \* the task inside m_door
    standing,      \* who stands at the glass
    visit,         \* of that stay: whether the door was opened for it, or may be again
    punches,       \* the punches of the window as flash has them, and restarts among them
    doorHoles      \* what happened that may bring the barrier down early, or leave it up

timing == <<arm, alarm, fired, mdoor, doorHoles>>
mind == <<state, left, lastEmployee, recent>>
glass == <<standing, visit, punches>>
doorVars == <<mind, call, timing, glass>>

Callers == {"attend", "sync"}
NotCalling == [what |-> "none", step |-> "idle", who |-> Nobody]
NoCallback == [for |-> "none", step |-> "idle"]

\* svc_attendance_init, and ServoDoor::init, which lowers the arm.
DoorInit ==
    /\ state = "Idle" /\ left = TRUE /\ lastEmployee = Stranger /\ recent = <<>>
    /\ call = [c \in Callers |-> NotCalling]
    /\ arm = "Lowering" /\ alarm = "arrive" /\ fired = NoCallback /\ mdoor = "free"
    /\ standing = Nobody /\ visit = "new" /\ punches = <<>> /\ doorHoles = {}

-----------------------------------------------------------------------------
(* attend_task: the state machine. *)

\* kTable: where an event leads and what is done; an event without a row changes nothing.
Row(from, on) ==
    CASE on = "Match" -> <<"Granted", "Grant">>
      [] on \in {"Spoof", "Unknown"} -> <<"Denied", "Refuse">>
      [] on \in {"PresenceOn", "FaceSmall"} /\ from = "Idle" -> <<"Detecting", "Watch">>
      [] on \in {"NoFace", "PresenceOff"} /\ from = "Detecting" -> <<"Idle", "Rest">>
      [] on = "Timeout" /\ from \in {"Granted", "Denied"} -> <<"Cooldown", "Rest">>
      [] on \in {"Timeout", "PresenceOff"} /\ from = "Cooldown" -> <<"Idle", "None">>
      [] OTHER -> <<from, "None">>

\* Faulty form, for trying the properties: only the newest stamp is compared.
StampedLast(who) == recent # <<>> /\ Last(recent) = who

\* stamped_recently: every person has a window of their own.
StampedRecently(who) == who \in Range(recent)

\* Leaving, as it is told; and another seen, in a queue, ends the last one's turn.
LeftBy(on, who) ==
    \/ on \in {"NoFace", "PresenceOff", "OffGuide"}
    \/ on \in {"Match", "Unknown", "Spoof"} /\ who # lastEmployee

\* Faulty form, for trying the properties: whether the face went away since is not asked.
SameStamp(who, gone) == StampedRecently(who)

\* same_arrival: stamped, and not gone since the grant.
SameArrival(who, gone) == ~gone /\ StampedRecently(who)

Asks(c, what, who) == call' = [call EXCEPT ![c] = [what |-> what, step |-> "lock", who |-> who]]

\* What an opening, an "already" and a reason to open again make of a stay.
OpenedFor(stay) == IF stay = "opened" THEN "twice" ELSE "opened"
Already(stay) == IF stay = "new" THEN "sent away" ELSE stay
Excused(stay) == IF stay = "opened" THEN "excused" ELSE stay

\* apply, and act_on up to its call of the door; live: the policy takes the liveness score;
\* stay: the stay at the glass with what this event tells of it.
Apply(on, who, live, stay) ==
    LET gone == left \/ LeftBy(on, who)
        to == Row(state, IF on = "OffGuide" THEN "FaceSmall" ELSE on)
        already == to[2] = "Grant" /\ SameArrival(who, gone)
        grants == to[2] = "Grant" /\ ~already /\ live
    IN  /\ call["attend"] = NotCalling
        /\ state' = IF already THEN state ELSE IF to[2] = "Grant" /\ ~live THEN "Denied" ELSE to[1]
        /\ left' = (gone /\ ~grants)
        /\ lastEmployee' = IF grants THEN who ELSE lastEmployee
        /\ IF grants THEN Asks("attend", "open", who)
           ELSE IF to[2] = "Rest" THEN Asks("attend", "close", Nobody) ELSE UNCHANGED call
        /\ visit' = IF already THEN Already(stay) ELSE IF grants THEN OpenedFor(stay) ELSE stay
        /\ UNCHANGED <<recent, timing, punches>>

\* A verdict on the face that stands there; one misread is a verdict on another.
Verdict ==
    /\ standing # Nobody
    /\ \/ \E live \in BOOLEAN : Apply("Match", standing, live, visit)
       \/ \E on \in {"Spoof", "Unknown"} : Apply(on, Stranger, TRUE, Excused(visit))
    /\ UNCHANGED standing

\* Guidance, the distance sensor and the tick. Out of the guide, or off the sensor, is gone:
\* what comes next is a new stay.
Guidance ==
    /\ \/ standing # Nobody /\ Apply("FaceSmall", Stranger, TRUE, visit)
       \/ standing # Nobody /\ Apply("OffGuide", Stranger, TRUE, "new")
       \/ \E on \in {"PresenceOn", "Timeout"} : Apply(on, Stranger, TRUE, visit)
       \/ \E on \in {"NoFace", "PresenceOff"} : standing = Nobody /\ Apply(on, Stranger, TRUE, "new")
       \/ Apply("PresenceOff", Stranger, TRUE, "new")
    /\ UNCHANGED standing

Arrives ==
    /\ standing = Nobody /\ standing' \in People
    /\ UNCHANGED <<mind, call, timing, visit, punches>>

\* The frame loses the face; under an operator screen the result is thrown away.
Leaves ==
    /\ standing # Nobody /\ standing' = Nobody
    /\ \/ Apply("NoFace", Stranger, TRUE, "new")
       \/ visit' = "unseen" /\ UNCHANGED <<mind, call, timing, punches>>

\* The rest of act_on, back from the door: a punch, unless one lies in the window. A punch that
\* is not written leaves no stamp either.
Punch ==
    LET who == call["attend"].who IN
    /\ call["attend"].step = "back" /\ who # Nobody
    /\ call' = [call EXCEPT !["attend"] = NotCalling]
    /\ \/ /\ StampedRecently(who)
          /\ UNCHANGED <<recent, punches, visit>>
       \/ /\ ~StampedRecently(who) /\ Len(punches) < MaxPunches
          /\ punches' = Append(punches, who)
          /\ recent' = Append(IF Len(recent) = KRecent THEN Tail(recent) ELSE recent, who)
          /\ UNCHANGED visit
       \/ /\ ~StampedRecently(who)
          /\ visit' = (IF standing = who THEN Excused(visit) ELSE visit) /\ UNCHANGED <<recent, punches>>
    /\ UNCHANGED <<state, left, lastEmployee, timing, standing>>

\* The oldest punch comes to lie a whole dedup window back.
WindowPasses ==
    /\ punches # <<>> /\ punches' = Tail(punches)
    /\ recent' = IF Len(recent) = Len(punches) THEN Tail(recent) ELSE recent
    /\ visit' = IF standing = Head(punches) THEN Excused(visit) ELSE visit
    /\ UNCHANGED <<state, left, lastEmployee, call, timing, standing>>

-----------------------------------------------------------------------------
(* The barrier. *)

\* run_command in sync_task: OPEN_DOOR.
Command ==
    /\ call["sync"] = NotCalling
    /\ Asks("sync", "open", Nobody)
    /\ UNCHANGED <<mind, timing, glass>>

GoesTo(c, step) == call' = [call EXCEPT ![c].step = step]

\* ServoDoor::open and close inside m_door. A servo that fails ends the call; an opening makes
\* old whatever the timer was armed for, and a callback under way has missed it.
TakeDoor(c) ==
    /\ call[c].step = "lock" /\ mdoor = "free"
    /\ \/ /\ mdoor' = c /\ GoesTo(c, "stop")
          /\ IF call[c].what = "open"
             THEN /\ arm' = "Raised"
                  /\ alarm' = IF alarm = "none" THEN alarm ELSE "old"
                  /\ fired' = IF fired = NoCallback THEN fired ELSE [fired EXCEPT !.for = "old"]
                  /\ doorHoles' = IF fired = NoCallback THEN doorHoles ELSE doorHoles \union {"crossed"}
             ELSE arm' = "Lowering" /\ UNCHANGED <<alarm, fired, doorHoles>>
       \/ /\ call[c].what = "close" \/ arm # "Raised"
          /\ GoesTo(c, "back") /\ UNCHANGED timing
    /\ UNCHANGED <<mind, glass>>

\* m_door is not had in 50 ms.
DoorTimeout(c) ==
    /\ call[c].step = "lock" /\ mdoor # "free"
    /\ GoesTo(c, "back")
    /\ UNCHANGED <<mind, timing, glass>>

\* Faulty form, for trying the properties: a timer under way is not stopped first.
NotStopped == alarm

\* fire_after stops the timer ...
Stopped == "none"

\* ... and starts it, which fails for one that was started meanwhile.
Started(for) == IF alarm = "none" THEN for ELSE alarm

StopTimer(c) ==
    /\ call[c].step = "stop" /\ GoesTo(c, "start")
    /\ alarm' = Stopped
    /\ UNCHANGED <<mind, arm, fired, mdoor, doorHoles, glass>>

StartTimer(c) ==
    /\ call[c].step = "start" /\ GoesTo(c, "back")
    /\ alarm' = Started(IF call[c].what = "open" THEN "hold" ELSE "arrive")
    /\ mdoor' = "free"
    /\ UNCHANGED <<mind, arm, fired, doorHoles, glass>>

\* A command, or a close, is done; attend_task goes on with the punch after an open.
DoorDone(c) ==
    /\ call[c].step = "back" /\ call[c].who = Nobody
    /\ call' = [call EXCEPT ![c] = NotCalling]
    /\ UNCHANGED <<mind, timing, glass>>

\* The timer's task runs one callback at a time. One that goes off between an opening's raise
\* and its stop of the timer is the old hold's.
Fires ==
    /\ alarm # "none" /\ fired = NoCallback
    /\ fired' = [for |-> alarm, step |-> "take"] /\ alarm' = "none"
    /\ doorHoles' = IF alarm = "old" /\ \E c \in Callers : call[c].step = "stop"
                    THEN doorHoles \union {"crossed"} ELSE doorHoles
    /\ UNCHANGED <<mind, call, arm, mdoor, glass>>

\* on_timer inside m_door: down with the arm, or, once down, no more power to it.
OnTimer ==
    /\ fired.step = "take" /\ mdoor = "free" /\ fired' = NoCallback
    /\ \/ /\ arm = "Raised" /\ arm' = "Lowering" /\ alarm' = "arrive"
          /\ doorHoles' = IF fired.for = "hold" THEN doorHoles ELSE doorHoles \union {"cut"}
       \/ /\ arm # "Raised" /\ arm' = "Limp" /\ UNCHANGED <<alarm, doorHoles>>
       \/ /\ arm # "Limp"
          /\ doorHoles' = doorHoles \union {"servo"} /\ UNCHANGED <<arm, alarm>>
    /\ UNCHANGED <<mind, call, mdoor, glass>>

\* on_timer without m_door: fire_after, in its two steps.
OnTimerAgain ==
    /\ \/ /\ fired.step = "take" /\ mdoor # "free"
          /\ fired' = [fired EXCEPT !.step = "stop"] /\ UNCHANGED alarm
       \/ /\ fired.step = "stop" /\ alarm' = Stopped
          /\ fired' = [fired EXCEPT !.step = "start"]
       \/ /\ fired.step = "start" /\ alarm' = Started("retry")
          /\ fired' = NoCallback
    /\ UNCHANGED <<mind, call, arm, mdoor, doorHoles, glass>>

\* A restart forgets the stamps; the arm goes home.
DoorRestarts ==
    /\ state' = "Idle" /\ left' = TRUE /\ lastEmployee' = Stranger /\ recent' = <<>>
    /\ call' = [c \in Callers |-> NotCalling]
    /\ arm' = "Lowering" /\ alarm' = "arrive" /\ fired' = NoCallback /\ mdoor' = "free"
    /\ visit' = Excused(visit)
    /\ IF punches = <<>> THEN UNCHANGED punches
       ELSE Len(punches) < MaxPunches /\ punches' = Append(punches, Restarted)
    /\ UNCHANGED <<standing, doorHoles>>

\* A behaviour is followed up to its first hole.
DoorNext ==
  /\ doorHoles = {}
  /\ \/ Verdict \/ Guidance \/ Arrives \/ Leaves \/ Punch \/ WindowPasses \/ Command
     \/ \E c \in Callers : TakeDoor(c) \/ DoorTimeout(c) \/ StopTimer(c) \/ StartTimer(c) \/ DoorDone(c)
     \/ Fires \/ OnTimer \/ OnTimerAgain \/ DoorRestarts

DoorSpec == DoorInit /\ [][DoorNext]_doorVars

-----------------------------------------------------------------------------
(* Properties. *)

\* What the tasks, the timer and the stamps may hold.
DoorTypeOK ==
    /\ state \in {"Idle", "Detecting", "Granted", "Denied", "Cooldown"}
    /\ left \in BOOLEAN /\ lastEmployee \in People \union {Stranger}
    /\ recent \in Seq(People) /\ Len(recent) <= KRecent
    /\ punches \in Seq(People \union {Restarted}) /\ Len(punches) <= MaxPunches
    /\ call \in [Callers -> [what : {"none", "open", "close"}, who : People \union {Nobody},
                             step : {"idle", "lock", "stop", "start", "back"}]]
    /\ arm \in {"Raised", "Lowering", "Limp"} /\ mdoor \in Callers \union {"free"}
    /\ alarm \in {"none", "hold", "arrive", "retry", "old"}
    /\ fired \in [for : {"none", "hold", "arrive", "retry", "old"},
                  step : {"idle", "take", "stop", "start"}]
    /\ standing \in People \union {Nobody}
    /\ visit \in {"new", "unseen", "opened", "excused", "twice", "sent away"}
    /\ doorHoles \subseteq {"crossed", "cut", "servo"}

\* Nobody is punched twice inside the dedup window, whoever is punched in between (A, B, A);
\* only a restart, or more people than s_recent has room for, lets a second punch through.
OnePunchAWindow ==
    \A i, j \in DOMAIN punches :
        i < j /\ punches[i] = punches[j] /\ punches[i] # Restarted =>
            \/ \E k \in i..j : punches[k] = Restarted
            \/ j - i > KRecent

\* An arrival opens the door once. Each further time takes a reason: a verdict on somebody
\* else in between, the end of the window, a punch that was not written, or a restart. And
\* nobody is told "already" who has not been let in since coming, but for one whose leaving
\* went unseen.
OneOpeningAnArrival == visit \notin {"twice", "sent away"}

\* The timer brings the barrier down only when the hold of the last opening is over, unless its
\* callback was under way as that opening took m_door. And a barrier up, or a motor under
\* power, has somebody on the way to end it: the timer, its callback or the task in m_door;
\* only a servo that fails in the callback leaves it as it is.
BarrierKeepsItsTime ==
    /\ "cut" \notin doorHoles
    /\ arm # "Limp" => alarm # "none" \/ fired # NoCallback \/ mdoor # "free" \/ "servo" \in doorHoles
=============================================================================
