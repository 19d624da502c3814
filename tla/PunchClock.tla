------------------------------ MODULE PunchClock ------------------------------
(* What a punch's time is worth (sys_time, write_record of svc_attendance,       *)
(* place and drain of svc_sync).  Three sources set the system clock: the SNTP   *)
(* task, the Date of an answer of the api, taken in ota_task, and at start the   *)
(* DS3231, which both of them write back.  A marker in NVS says whether NTP set  *)
(* what the chip holds.  attend_task stamps punches meanwhile, and sync_task     *)
(* adds to a stamp counted from the start what that start was.                   *)
(*                                                                               *)
(* A time is modelled by where it comes from: "bench" is whatever the chip held  *)
(* when the kiosk was made, "since boot" a count nobody can read without knowing *)
(* the start it counts from.                                                     *)
EXTENDS Integers, Sequences

CONSTANTS
    MaxStamps, \* punches
    MaxStarts  \* times the kiosk starts

ASSUME ClockAssumption ==
    /\ MaxStamps \in Nat
    /\ MaxStarts \in Nat \ {0}

VARIABLES
    powered,  \* the kiosk runs
    source,   \* s_source: "none", "rtc", "ntp" (SYS_TIME_SOURCE_RTC_NTP) or "api"
    wall,     \* what gettimeofday was last set from
    marker,   \* s_ntp_marker
    chip,     \* the DS3231: what its time was set from, and its oscillator flag
    saved,    \* rtc_ntp_set in NVS
    step,     \* where each of the two tasks that set the clock is
    held,     \* held of sys_time_take_http_date: the source it loaded
    alone,    \* the sync under way met no Date
    punching, \* write_record: whether the source it read was NTP
    backlog,  \* the records behind the cursor, the oldest first
    draining, \* svc_sync_drain: "rest", or the clock that places for it
    givenUp,  \* given_up of clock_may_come
    start,    \* the boot count
    stamps,   \* punches taken so far
    rows,     \* what the server stored of each
    doubt     \* what a meeting of both setters or a fault leaves in doubt

setting == <<step, held, alone>>
keeping == <<source, wall, marker, chip, saved, setting, doubt>>
sending == <<backlog, draining, givenUp, rows>>
clockVars == <<powered, keeping, punching, sending, start, stamps>>

Setters == {"sntp", "api"}
NotPunching == [busy |-> FALSE, ntp |-> FALSE]

Trusted == source \in {"ntp", "api"}
Is(task, at) == powered /\ step[task] = at
Gets(task, to) == step' = [step EXCEPT ![task] = to]

-----------------------------------------------------------------------------
\* Out of the factory, switched off: NTP never set the chip.
ClockInit ==
    /\ powered = FALSE
    /\ source = "none" /\ wall = "unset" /\ marker = FALSE
    /\ chip \in [time : {"bench"}, stopped : BOOLEAN]
    /\ saved = FALSE
    /\ step = [task \in Setters |-> "rest"] /\ held = "none" /\ alone = TRUE
    /\ punching = NotPunching /\ backlog = <<>> /\ draining = "rest"
    /\ givenUp = FALSE /\ start = 0 /\ stamps = 0 /\ rows = {} /\ doubt = {}

(* sys_time_init before any task runs: the chip may be silent, and its oscillator may have
   stopped with the battery. *)
PowersUp ==
    /\ ~powered /\ start < MaxStarts
    /\ powered' = TRUE /\ start' = start + 1
    /\ marker' = saved
    /\ \E silent, flat \in BOOLEAN :
          /\ chip' = IF flat THEN [chip EXCEPT !.stopped = TRUE] ELSE chip
          /\ IF silent \/ chip'.stopped
             THEN source' = "none" /\ wall' = "unset"
             ELSE source' = (IF saved THEN "ntp" ELSE "rtc") /\ wall' = chip.time
    /\ doubt' = IF "chip" \in doubt THEN {"chip", "wall"} ELSE {}
    /\ UNCHANGED <<saved, setting, punching, sending, stamps>>

(* A cut takes what is in RAM, and leaves in doubt a chip that has a time of the api
   which NVS is not told of yet. *)
PowerLost ==
    /\ powered /\ powered' = FALSE
    /\ source' = "none" /\ wall' = "unset" /\ marker' = FALSE
    /\ step' = [task \in Setters |-> "rest"] /\ held' = "none" /\ alone' = TRUE
    /\ punching' = NotPunching /\ draining' = "rest" /\ givenUp' = FALSE
    /\ doubt' = doubt \cup
          IF step["api"] \in {"oscillator", "tell"} THEN {"chip"} ELSE {}
    /\ UNCHANGED <<chip, saved, backlog, start, stamps, rows>>

-----------------------------------------------------------------------------
(* The tasks that set the clock. *)

Unaffected == UNCHANGED <<powered, punching, sending, start, stamps>>

\* lwip sets the clock and calls on_sntp, in one task.
SntpSets ==
    /\ Is("sntp", "rest") /\ Gets("sntp", "raise")
    /\ wall' = "ntp"
    /\ alone' = (step["api"] = "rest")
    /\ doubt' = IF alone' THEN doubt ELSE {"wall", "chip"}
    /\ UNCHANGED <<held, source, marker, chip, saved>> /\ Unaffected

SntpRaises ==
    /\ Is("sntp", "raise") /\ Gets("sntp", "time")
    /\ source' = "ntp"
    /\ doubt' = IF alone THEN doubt \ {"wall"} ELSE doubt
    /\ UNCHANGED <<held, alone, wall, marker, chip, saved>> /\ Unaffected

\* sys_time_take_http_date, up to the load of the source: NTP's clock takes no Date.
ApiHears ==
    /\ Is("api", "rest") /\ source # "ntp"
    /\ Gets("api", "set")
    /\ held' = source
    /\ alone' = (alone /\ step["sntp"] \notin {"raise", "time"})
    /\ doubt' = IF step["sntp"] = "rest" THEN doubt ELSE {"wall", "chip"}
    /\ UNCHANGED <<source, wall, marker, chip, saved>> /\ Unaffected

\* A step of less than a second is no news to a clock of the api.
ApiSets ==
    /\ Is("api", "set")
    /\ \/ held = "api" /\ held' = "none" /\ Gets("api", "rest") /\ UNCHANGED wall
       \/ UNCHANGED held /\ wall' = "api" /\ Gets("api", "raise")
    /\ UNCHANGED <<alone, source, marker, chip, saved, doubt>> /\ Unaffected

\* The exchange fails when NTP landed after the load.
ApiRaises ==
    /\ Is("api", "raise") /\ held' = "none"
    /\ IF source = held
       THEN source' = "api" /\ Gets("api", "time")
       ELSE UNCHANGED source /\ Gets("api", "rest")
    /\ UNCHANGED <<alone, wall, marker, chip, saved, doubt>> /\ Unaffected

\* sys_time_write_rtc.  A write that fails leaves chip and marker, and the rest is told all
\* the same.
SetsTime(task) ==
    /\ Is(task, "time")
    /\ \/ /\ chip' = [chip EXCEPT !.time = wall]
          /\ Gets(task, "oscillator")
          /\ doubt' = IF task = "sntp" /\ alone THEN doubt \ {"chip"} ELSE doubt
       \/ UNCHANGED <<chip, doubt>> /\ Gets(task, "tell")
    /\ alone' = (alone \/ task = "sntp")
    /\ UNCHANGED <<held, source, wall, marker, saved>> /\ Unaffected

\* Faulty form, for trying the properties: a time of the api is marked as NTP's.
ClearsStoppedMarked(task) ==
    /\ Is(task, "oscillator")
    /\ \/ /\ chip' = [chip EXCEPT !.stopped = FALSE]
          /\ marker' = TRUE
          /\ UNCHANGED doubt
       \/ /\ UNCHANGED <<chip, marker>>
          /\ doubt' = doubt \cup IF task = "api" THEN {"chip"} ELSE {}
    /\ Gets(task, "tell")
    /\ UNCHANGED <<held, alone, source, wall, saved>> /\ Unaffected

\* The marker follows a chip that is written whole.  The status may fail behind the time: a
\* marker that is up then stays up.
ClearsStopped(task) ==
    /\ Is(task, "oscillator")
    /\ \/ /\ chip' = [chip EXCEPT !.stopped = FALSE]
          /\ marker' = (task = "sntp")
          /\ UNCHANGED doubt
       \/ /\ UNCHANGED <<chip, marker>>
          /\ doubt' = doubt \cup IF task = "api" THEN {"chip"} ELSE {}
    /\ Gets(task, "tell")
    /\ UNCHANGED <<held, alone, source, wall, saved>> /\ Unaffected

\* tell_synced: on_time_synced writes the marker to NVS.
Tells(task) ==
    /\ Is(task, "tell")
    /\ \/ saved' = marker /\ UNCHANGED doubt
       \/ UNCHANGED saved /\ doubt' = doubt \cup IF task = "api" THEN {"chip"} ELSE {}
    /\ Gets(task, "rest")
    /\ UNCHANGED <<held, alone, source, wall, marker, chip>> /\ Unaffected

-----------------------------------------------------------------------------
(* attend_task. *)

\* write_record reads the source first.
ReadsSource ==
    /\ powered /\ ~punching.busy /\ stamps < MaxStamps
    /\ punching' = [busy |-> TRUE, ntp |-> source = "ntp"]
    /\ UNCHANGED <<powered, keeping, sending, start, stamps>>

(* Then the clock, with a load of its own: a source that is there stays there, so the clock
   is set once the load found one. *)
Stamps ==
    /\ powered /\ punching.busy
    /\ stamps' = stamps + 1
    /\ backlog' = Append(backlog,
          [id |-> stamps', start |-> start, flagged |-> ~punching.ntp,
           at |-> IF source = "none" THEN "since start" ELSE wall,
           sure |-> punching.ntp /\ "wall" \notin doubt])
    /\ punching' = NotPunching
    /\ UNCHANGED <<powered, keeping, draining, givenUp, start, rows>>

-----------------------------------------------------------------------------
(* sync_task. *)

\* Ten minutes with the broker and no clock at all.
GivesUp ==
    /\ powered /\ draining = "rest" /\ source = "none" /\ ~givenUp
    /\ givenUp' = TRUE
    /\ UNCHANGED <<powered, keeping, punching, backlog, draining, start, stamps, rows>>

\* svc_sync_drain reads the clock once, for all the records of the batch; it is told to wait
\* for one until sync_task gave up.
DrainBegins ==
    /\ powered /\ draining = "rest" /\ backlog # <<>>
    /\ draining' = IF Trusted THEN wall ELSE "no clock"
    /\ UNCHANGED <<powered, keeping, punching, backlog, givenUp, start, stamps, rows>>

\* Faulty form, for trying the properties: the start a stamp counts from is not compared.
UnclockedOnce(rec) == rec.flagged /\ rec.at = "since start"

\* A stamp this start took with no clock.
Unclocked(rec) == rec.flagged /\ rec.at = "since start" /\ rec.start = start

\* Faulty form, for trying the properties: a stamp waits for a clock without end.
PlaceOrHold(rec) ==
    IF ~Unclocked(rec) THEN rec.at ELSE IF draining = "no clock" THEN "held" ELSE draining

\* What becomes of a record's time.
Place(rec) ==
    CASE ~Unclocked(rec) -> rec.at
      [] Unclocked(rec) /\ draining # "no clock" -> draining
      [] Unclocked(rec) /\ draining = "no clock" -> IF givenUp THEN rec.at ELSE "held"

\* The server keeps the first copy of a record.
Stored(rec) ==
    rows' = IF \E row \in rows : row.id = rec.id THEN rows
            ELSE rows \cup {[id |-> rec.id, at |-> rec.at, flagged |-> rec.flagged,
                             sure |-> rec.sure, ts |-> Place(rec),
                             own |-> rec.at = "since start" /\ rec.start = start,
                             gaveUp |-> givenUp /\ rec.at = "since start"]}

Sends ==
    /\ powered /\ draining # "rest" /\ backlog # <<>> /\ Place(Head(backlog)) # "held"
    /\ Stored(Head(backlog))
    /\ backlog' = Tail(backlog)
    /\ UNCHANGED <<powered, keeping, punching, draining, givenUp, start, stamps>>

\* No ack came for the record, or its cursor was not written: it is sent again later.
SendFails ==
    /\ powered /\ draining # "rest" /\ backlog # <<>> /\ Place(Head(backlog)) # "held"
    /\ Stored(Head(backlog)) \/ UNCHANGED rows
    /\ draining' = "rest"
    /\ UNCHANGED <<powered, keeping, punching, backlog, givenUp, start, stamps>>

\* The log is empty, the batch is full, or the record at the cursor waits for a clock.
DrainEnds ==
    /\ powered /\ draining # "rest"
    /\ draining' = "rest"
    /\ UNCHANGED <<powered, keeping, punching, backlog, givenUp, start, stamps, rows>>

-----------------------------------------------------------------------------
ClockNext ==
    \/ PowersUp \/ PowerLost
    \/ SntpSets \/ SntpRaises \/ ApiHears \/ ApiSets \/ ApiRaises
    \/ \E task \in Setters : SetsTime(task) \/ ClearsStopped(task) \/ Tells(task)
    \/ ReadsSource \/ Stamps
    \/ GivesUp \/ DrainBegins \/ Sends \/ SendFails \/ DrainEnds

(* sync_task goes round and looks at the time in each round, ten minutes with the broker pass
   for a kiosk that has something to send, and not every one of infinitely many sends fails. *)
ClockFairness ==
    /\ SF_clockVars(backlog # <<>> /\ GivesUp)
    /\ WF_clockVars(DrainBegins)
    /\ WF_clockVars(DrainEnds)
    /\ SF_clockVars(Sends)

ClockSpec == ClockInit /\ [][ClockNext]_clockVars /\ ClockFairness

-----------------------------------------------------------------------------
Kinds == {"unset", "bench", "ntp", "api"}
Times == Kinds \cup {"since start"}
Records == [id : 1 .. MaxStamps, start : 0 .. MaxStarts, flagged : BOOLEAN, at : Times, sure : BOOLEAN]

ClockTypeOK ==
    /\ powered \in BOOLEAN /\ marker \in BOOLEAN /\ saved \in BOOLEAN /\ givenUp \in BOOLEAN
    /\ source \in {"none", "rtc", "ntp", "api"} /\ wall \in Kinds
    /\ chip \in [time : Kinds \ {"unset"}, stopped : BOOLEAN]
    /\ doubt \subseteq {"wall", "chip"}
    /\ step \in [Setters -> {"rest", "raise", "set", "time", "oscillator", "tell"}]
    /\ held \in {"none", "rtc", "api"} /\ alone \in BOOLEAN
    /\ punching \in [busy : BOOLEAN, ntp : BOOLEAN]
    /\ draining \in {"rest", "no clock", "ntp", "api"}
    /\ start \in 0 .. MaxStarts /\ stamps \in 0 .. MaxStamps
    /\ backlog \in Seq(Records)
    /\ rows \subseteq [id : 1 .. MaxStamps, at : Times, flagged : BOOLEAN, sure : BOOLEAN,
                      ts : Times, own : BOOLEAN, gaveUp : BOOLEAN]

(* A punch that is not marked clock_unsynced carries a time of NTP, of this start or kept by
   the chip, and never a count since the start, however the two setters, the punch and the
   restarts fall: but where NTP and the api met, or a fault left the chip and its marker
   apart, and no later sync of NTP mended it. *)
VouchedByNtp ==
    \A row \in rows : /\ ~row.flagged => row.at # "since start"
                      /\ ~row.flagged /\ row.sure => row.at = "ntp"

(* A count since the start leaves as a time only with the clock of its own start, and as it is
   only when that start is over or gave up waiting; a time leaves as it was stamped. *)
PlacedByItsStart ==
    \A row \in rows :
        IF row.at # "since start" THEN row.ts = row.at
        ELSE IF row.ts = "since start" THEN row.own => row.gaveUp
        ELSE row.own /\ row.ts \in {"ntp", "api"} /\ row.flagged

(* No punch waits for a clock for ever, nor does one held hold those behind it: each reaches
   the server, but for those of a kiosk that stays off. *)
HeldIsSent ==
    \A n \in 1 .. MaxStamps :
        stamps >= n /\ powered ~> ~powered \/ \E row \in rows : row.id = n
=============================================================================
