----------------------------- MODULE RosterSync -----------------------------
(***************************************************************************)
(* One door and the roster the server holds for it.  EnrollmentService      *)
(* numbers every message of the door, one number each, under the door's     *)
(* lock; sync_task of the kiosk applies a counted message only when it is   *)
(* the next number and otherwise waits for a REPLACE_ALL.  The kiosk's      *)
(* heartbeat names its number and the server starts the roster over when    *)
(* the two differ.  So equal numbers are the only proof that the two sides  *)
(* hold the same people, and nothing may make them equal by accident.       *)
(*                                                                          *)
(* A face is the number of the capture session it came from; 0 is none.     *)
(* The broker's leg and q_roster are one lane: the kiosk's session is clean *)
(* and q_roster drops what it cannot take, so any message may be lost.      *)
(***************************************************************************)
EXTENDS Naturals, Sequences, FiniteSets, SequencesExt

CONSTANTS
    Staff,       \* employees, numbered: the server replays them in id order
    PendingCap,  \* rows of the kiosk's pending list, STORAGE_PENDING_CAP
    FaceCap,     \* sets the face table has room for, CONFIG_FACEDB_MAX_RECORDS
    MaxOps,      \* bound: what the dashboard and the other doors do
    MaxNumber,   \* bound: the door's roster number
    MaxFaces,    \* bound: capture sessions
    MaxBeats,    \* bound: heartbeats on their way
    MaxRosterFaults, \* bound: lost messages, failed writes, power cuts, restarts
    Captures,    \* TRUE: this door captures faces of its own
    SlowAck,     \* TRUE: a capture may finish while a report waits for its ack
    SlowLane,    \* TRUE: a heartbeat may leave while roster messages are on their way
    PendingFails,\* TRUE: save_pending may fail
    Restores     \* TRUE: the database may be put back to a backup

ASSUME RosterAssumption ==
    /\ Staff \in SUBSET (Nat \ {0}) /\ IsFiniteSet(Staff)
    /\ {PendingCap, FaceCap, MaxOps, MaxNumber, MaxFaces, MaxBeats, MaxRosterFaults} \subseteq Nat
    /\ {Captures, SlowAck, SlowLane, PendingFails, Restores} \subseteq BOOLEAN

VARIABLES
    server,    \* the rows of the door: number, pair, face; and the run in memory
    backup,    \* the rows as the last backup took them
    lane,      \* roster messages not yet taken by sync_task, oldest first
    beats,     \* heartbeats not yet heard
    reports,   \* captured samples acked by the broker, not yet handled
    ram,       \* face table, pending list, s_roster_gapped, the batch in hand; and, as
               \* history, whose message was spent and whose face found no room
    flash,     \* face table, pending list and roster_ver as they survive
    capturing, \* the person a session at the kiosk is open for, or 0
    reporting, \* the sample drain_reports waits on an ack for, or NoReport
    fate,      \* history: what became of each session captured here
    ops, minted, rosterFaults

rosterVars == <<server, backup, lane, beats, reports, ram, flash, capturing,
          reporting, fate, ops, minted, rosterFaults>>
kiosk == <<ram, flash, capturing, reporting, fate>>
rosterBudget == <<ops, minted, rosterFaults>>

Faces == 0 .. MaxFaces
NoRun == [from |-> 0, heard |-> 0]
NoReport == [who |-> 0, face |-> 0]
NoBatch == [at |-> "none", held |-> 0, changed |-> FALSE]
Pairs == {"NONE", "ASSIGNED", "ENROLLED", "RETAKE", "REVOKED"}
Active == {"ASSIGNED", "ENROLLED", "RETAKE"}
Waiting == {"ASSIGNED", "RETAKE"}
Rows == [number : Nat, pair : [Staff -> Pairs], face : [Staff -> Faces]]

\* A record of the face table: what a push or an acked capture put there, and
\* a sealed capture not yet reported.
Record == [held : Faces, own : Faces]
Message ==
    {m \in [op : {"ASSIGN", "UPSERT", "DELETE_EMPLOYEE", "REPLACE_ALL", "CAPTURED"},
            who : Staff \cup {0}, face : Faces, number : Nat] :
        m.op # "REPLACE_ALL" => m.who \in Staff}

RosterTypeOK ==
    /\ server \in [number : Nat, pair : [Staff -> Pairs], face : [Staff -> Faces],
                   run : [from : Nat, heard : Nat]]
    /\ backup \in Rows
    /\ lane \in Seq(Message)
    /\ beats \in Seq([number : Nat, old : BOOLEAN])
    /\ reports \in Seq([who : Staff, face : Faces \ {0}])
    /\ ram \in [table : [Staff -> Record], asks : SUBSET Staff, gapped : BOOLEAN,
                spent : SUBSET Staff, lacks : SUBSET Staff,
                batch : [at : {"none", "taking", "storing"}, held : Nat, changed : BOOLEAN]]
    /\ flash \in [table : [Staff -> Record], asks : SUBSET Staff, held : Nat]
    /\ capturing \in Staff \cup {0}
    /\ reporting \in [who : Staff \cup {0}, face : Faces]
    /\ fate \in [Faces -> {"none", "sealed", "judged", "dropped"}]
    /\ ops \in 0 .. MaxOps /\ minted \in Faces /\ rosterFaults \in 0 .. MaxRosterFaults

\* A door just made.  The other doors may have captured people already, each in a
\* session of its own.
RosterInit ==
    LET nobody == [p \in Staff |-> [held |-> 0, own |-> 0]]
        none == [p \in Staff |-> "NONE"]
    IN  /\ minted \in Faces
        /\ server \in [number : {0}, pair : {none}, face : [Staff -> 0 .. minted], run : {NoRun}]
        /\ \A p, q \in Staff : p # q => server.face[p] # server.face[q] \/ server.face[p] = 0
        /\ backup = [number |-> 0, pair |-> none, face |-> server.face]
        /\ lane = <<>> /\ beats = <<>> /\ reports = <<>>
        /\ ram = [table |-> nobody, asks |-> {}, gapped |-> FALSE, spent |-> {},
                  lacks |-> {}, batch |-> NoBatch]
        /\ flash = [table |-> nobody, asks |-> {}, held |-> 0]
        /\ capturing = 0 /\ reporting = NoReport
        /\ fate = [f \in Faces |-> "none"]
        /\ ops = 0 /\ rosterFaults = 0

Fault == rosterFaults < MaxRosterFaults /\ rosterFaults' = rosterFaults + 1
NoFault == UNCHANGED rosterFaults
Ordered == ops < MaxOps /\ ops' = ops + 1 /\ UNCHANGED minted

-----------------------------------------------------------------------------
(* The messages of the door, and their way to the kiosk.                   *)

Ask(p) == [op |-> "ASSIGN", who |-> p, face |-> 0, number |-> 0]
Upsert(p, f) == [op |-> "UPSERT", who |-> p, face |-> f, number |-> 0]
Drop(p) == [op |-> "DELETE_EMPLOYEE", who |-> p, face |-> 0, number |-> 0]
StartOver == [op |-> "REPLACE_ALL", who |-> 0, face |-> 0, number |-> 0]

\* Faulty form, for trying the properties: The numbers of a run start one too late.
NumberedLate(bodies, after) ==
    [i \in DOMAIN bodies |-> [bodies[i] EXCEPT !.number = after + i + 1]]

Numbered(bodies, after) == [i \in DOMAIN bodies |-> [bodies[i] EXCEPT !.number = after + i]]

\* The i-th of a set of numbers, in their order.
Nth(numbers, i) == CHOOSE n \in numbers : Cardinality({m \in numbers : m <= n}) = i

\* deliver, and the broker after it: the messages at the places in gone never
\* reach sync_task.  A publish that throws or an api that dies leaves a prefix.
Deliver(messages, gone) ==
    /\ rosterFaults + Cardinality(gone) <= MaxRosterFaults
    /\ rosterFaults' = rosterFaults + Cardinality(gone)
    /\ lane' = lane \o
           LET kept == (DOMAIN messages) \ gone
           IN  [i \in 1 .. Cardinality(kept) |-> messages[Nth(kept, i)]]

\* One transaction writes the rows and moves the counter by one number per
\* message; the messages leave under the same lock.
Tell(rows, bodies) ==
    LET top == server.number + Len(bodies)
    IN  /\ top <= MaxNumber
        /\ server' = [rows EXCEPT !.number = top]
        /\ \E gone \in SUBSET (DOMAIN bodies) :
               Deliver(Numbered(bodies, server.number), gone)

\* What a replay says of one person: the set held, then the ask, because an
\* upsert takes a person off the pending list.
Standing(p) ==
    IF server.pair[p] \notin Active THEN <<>>
    ELSE (IF server.face[p] # 0 THEN <<Upsert(p, server.face[p])>> ELSE <<>>)
         \o (IF server.pair[p] # "ENROLLED" \/ server.face[p] = 0 THEN <<Ask(p)>> ELSE <<>>)

HighestOf(a, b) == IF a > b THEN a ELSE b
ReplayBase(floor) == HighestOf(server.number, floor) + 1

\* The whole roster behind a REPLACE_ALL, numbered above both sides.  A run that
\* was published to its end is remembered; the heartbeats received by then are old.
Replay(floor) ==
    LET base == ReplayBase(floor)
        bodies == <<StartOver>> \o
                  FlattenSeq([i \in 1 .. Cardinality(Staff) |-> Standing(Nth(Staff, i))])
        top == base + Len(bodies) - 1
    IN  /\ top <= MaxNumber
        /\ \E threw \in BOOLEAN, gone \in SUBSET (DOMAIN bodies) :
               /\ threw => Len(bodies) \in gone
               /\ Deliver(Numbered(bodies, base - 1), gone)
               /\ server' = [server EXCEPT
                      !.number = top,
                      !.pair = [p \in Staff |->
                          IF server.face[p] = 0 /\ server.pair[p] \in {"ENROLLED", "RETAKE"}
                          THEN "ASSIGNED" ELSE server.pair[p]],
                      !.run = IF threw THEN server.run ELSE [from |-> base, heard |-> 0]]

\* The first heard of them were received before the run ended.
Aged(queue, heard) == [i \in DOMAIN queue |-> [queue[i] EXCEPT !.old = @ \/ i <= heard]]

-----------------------------------------------------------------------------
(* EnrollmentService: the dashboard and the other doors.                    *)

\* assign: a door that holds the face is asked for a new one, a door new to the
\* person is handed the face held, or asked.
Assign(p) ==
    /\ Ordered
    /\ LET next == IF server.pair[p] \in {"ENROLLED", "RETAKE"} THEN "RETAKE"
                   ELSE IF server.face[p] # 0 THEN "ENROLLED" ELSE "ASSIGNED"
       IN  Tell([server EXCEPT !.pair[p] = next],
                IF next = "ENROLLED" THEN <<Upsert(p, server.face[p])>> ELSE <<Ask(p)>>)
    /\ UNCHANGED <<backup, beats, reports, kiosk>>

Revoke(p) ==
    /\ server.pair[p] # "NONE"
    /\ Ordered
    /\ Tell([server EXCEPT !.pair[p] = "REVOKED"], <<Drop(p)>>)
    /\ UNCHANGED <<backup, beats, reports, kiosk>>

\* eraseWith: consent withdrawn or the person left.  Every row of the person is
\* told, one revoked long ago too.
Erase(p) ==
    /\ Ordered
    /\ Tell([server EXCEPT !.face[p] = 0,
                           !.pair[p] = IF @ = "NONE" THEN @ ELSE "REVOKED"],
            IF server.pair[p] = "NONE" THEN <<>> ELSE <<Drop(p)>>)
    /\ UNCHANGED <<backup, beats, reports, kiosk>>

\* takeSample of another door, then spread to this one.
CapturedElsewhere(p) ==
    /\ ops < MaxOps /\ minted < MaxFaces
    /\ ops' = ops + 1 /\ minted' = minted + 1
    /\ LET here == server.pair[p] \in Active
       IN  Tell([server EXCEPT !.face[p] = minted + 1,
                               !.pair[p] = IF here THEN "ENROLLED" ELSE @],
                IF ~here THEN <<>>
                ELSE (IF server.face[p] # 0 THEN <<Drop(p)>> ELSE <<>>)
                     \o <<Upsert(p, minted + 1)>>)
    /\ UNCHANGED <<backup, beats, reports, kiosk>>

ResyncByHand ==
    /\ Ordered
    /\ Replay(0)
    /\ \E heard \in 0 .. Len(beats) : beats' = Aged(beats, heard)
    /\ UNCHANGED <<backup, reports, kiosk>>

\* Faulty form, for trying the properties: A kiosk that stopped climbing is left alone for good.
ClimbingForGood(n) == server.run # NoRun /\ n >= server.run.from /\ n < server.number

\* converge: equal numbers end the matter; a beat received before the last run
\* ended says nothing; a kiosk still climbing through it is left one beat.
Climbing(n) ==
    /\ server.run # NoRun
    /\ n >= server.run.from /\ n < server.number /\ n # server.run.heard

Converge ==
    /\ beats # <<>>
    /\ LET beat == Head(beats)
           n == beat.number
           rest == Tail(beats)
       IN  \/ /\ n = server.number
              /\ server' = [server EXCEPT !.run = NoRun]
              /\ beats' = rest /\ UNCHANGED lane /\ NoFault
           \/ /\ n # server.number /\ server.run # NoRun /\ beat.old
              /\ beats' = rest /\ UNCHANGED <<server, lane>> /\ NoFault
           \/ /\ ~beat.old /\ Climbing(n)
              /\ server' = [server EXCEPT !.run.heard = n]
              /\ beats' = rest /\ UNCHANGED lane /\ NoFault
           \/ /\ n # server.number /\ ~(server.run # NoRun /\ beat.old) /\ ~Climbing(n)
              /\ Replay(n)
              /\ \E heard \in 0 .. Len(rest) : beats' = Aged(rest, heard)
    /\ UNCHANGED <<backup, reports, kiosk, ops, minted>>

\* refuse: the door drops the person and is sent what the server holds.
Refusal(p) ==
    <<Drop(p)>>
    \o (IF server.pair[p] \in Active /\ server.face[p] # 0
        THEN <<Upsert(p, server.face[p])>> ELSE <<>>)
    \o (IF server.pair[p] \in Waiting THEN <<Ask(p)>> ELSE <<>>)

\* takeSample for this door.  A pair that waits takes the session; one enrolled
\* from this very session takes more of it while the window is open; a pair the
\* server never made is a stranger's; the rest is refused.
TakeReport ==
    /\ reports # <<>>
    /\ reports' = Tail(reports)
    /\ LET p == Head(reports).who
           f == Head(reports).face
           waits == server.pair[p] \in Waiting
           current == server.face[p] = f
       IN  /\ \/ /\ server.pair[p] = "NONE" \/ (waits /\ current)
                    \/ (server.pair[p] = "ENROLLED" /\ current)
                 /\ UNCHANGED <<server, lane>> /\ NoFault
              \/ /\ waits /\ ~current
                 /\ server' = [server EXCEPT !.face[p] = f, !.pair[p] = "ENROLLED"]
                 /\ UNCHANGED lane /\ NoFault
              \/ /\ server.pair[p] \in {"ENROLLED", "REVOKED"}
                 /\ Tell(server, Refusal(p))
           /\ fate' = [fate EXCEPT ![f] = "judged"]
    /\ UNCHANGED <<backup, beats, ram, flash, capturing, reporting, ops, minted>>

\* The runs are held in the api's memory; its broker session outlives it.
ApiRestart ==
    /\ Fault
    /\ server' = [server EXCEPT !.run = NoRun]
    /\ UNCHANGED <<backup, lane, beats, reports, kiosk, ops, minted>>

Rowed == [number |-> server.number, pair |-> server.pair, face |-> server.face]

BackUp ==
    /\ Restores
    /\ backup' = Rowed
    /\ UNCHANGED <<server, lane, beats, reports, kiosk, rosterBudget>>

\* The api comes up over the older rows.
Restore ==
    /\ Restores /\ Fault
    /\ server' = [number |-> backup.number, pair |-> backup.pair, face |-> backup.face,
                  run |-> NoRun]
    /\ UNCHANGED <<backup, lane, beats, reports, kiosk, ops, minted>>

-----------------------------------------------------------------------------
(* sync_task: take_roster.                                                  *)

Batch == IF ram.batch = NoBatch
         THEN [at |-> "taking", held |-> flash.held, changed |-> FALSE]
         ELSE ram.batch
\* History: these captures are gone because the server said so, a newer one came,
\* or the power went before they were saved.
Dropped(faces) == [f \in Faces |-> IF f \in faces /\ fate[f] = "sealed" THEN "dropped" ELSE fate[f]]

CanTake == reporting = NoReport /\ lane # <<>> /\ ram.batch.at # "storing"

\* roster_gate
Stale(m) == m.op # "REPLACE_ALL" /\ m.number <= Batch.held
Takes(m) == m.op = "REPLACE_ALL" \/ (~ram.gapped /\ m.number = Batch.held + 1)

\* The sets in the face table: what compact cannot give back.
Used == Cardinality({p \in Staff : ram.table[p].held # 0})
        + Cardinality({p \in Staff : ram.table[p].own # 0})

\* FaceDb::enroll: a push spares the sample of an unreported capture when it names
\* the same place, and a new place wants room.  A session that is open may have its
\* samples in the table already.
MaySpare(m) == m.op = "UPSERT" /\ ram.table[m.who].own # 0
NewPlace(m) == m.op = "UPSERT" /\ ram.table[m.who].held = 0
MayCrowd(m) == NewPlace(m) /\ Used + (IF capturing = 0 THEN 0 ELSE 1) >= FaceCap
NoRoom(m) == NewPlace(m) /\ Used >= FaceCap

\* apply_roster on the face table and on the pending list, of a message that is
\* spent there (one spared or crowded out) or not.
Table(m, refused) ==
    CASE m.op = "UPSERT" /\ ~refused ->
             [ram.table EXCEPT ![m.who].held = m.face]
      [] m.op = "DELETE_EMPLOYEE" -> [ram.table EXCEPT ![m.who] = [held |-> 0, own |-> 0]]
      [] m.op = "REPLACE_ALL" ->
             [p \in Staff |-> [held |-> 0, own |-> ram.table[p].own]]
      [] OTHER -> ram.table
Full(m) == m.op = "ASSIGN" /\ m.who \notin ram.asks /\ Cardinality(ram.asks) >= PendingCap
AsksAfter(m, refused) ==
    CASE m.op = "ASSIGN" -> IF Full(m) THEN ram.asks ELSE ram.asks \cup {m.who}
      [] m.op = "REPLACE_ALL" -> {}
      [] m.op = "UPSERT" -> IF refused THEN ram.asks ELSE ram.asks \ {m.who}
      [] OTHER -> ram.asks \ {m.who}

\* save_pending: what it says is only logged.
SavePending(asks) ==
    \/ flash' = [flash EXCEPT !.asks = asks] /\ NoFault
    \/ PendingFails /\ asks # ram.asks /\ Fault /\ UNCHANGED flash

\* History: who is missing a face that was pushed and found no room, and who had a
\* message spent.
LacksAfter(m, spared, crowded) ==
    CASE m.op = "REPLACE_ALL" -> {}
      [] crowded -> ram.lacks \cup {m.who}
      [] m.op = "ASSIGN" \/ spared -> ram.lacks
      [] OTHER -> ram.lacks \ {m.who}
SpentAfter(m, spared, crowded) ==
    CASE m.op = "REPLACE_ALL" -> {}
      [] Full(m) \/ spared -> ram.spent \cup {m.who}
      [] crowded -> ram.spent
      [] OTHER -> ram.spent \ {m.who}

\* One message of the batch is applied, or spent, and the number moves on: an ask the
\* full list refuses and a face the full table refuses are told of by an event alone.
TakeOne ==
    /\ CanTake
    /\ LET m == Head(lane)
       IN  /\ m.op # "CAPTURED" /\ Takes(m)
           /\ \E spared, crowded \in BOOLEAN :
                  /\ spared => MaySpare(m)
                  /\ crowded => MayCrowd(m) /\ ~spared
                  /\ NoRoom(m) => spared \/ crowded
                  /\ SavePending(AsksAfter(m, spared \/ crowded))
                  /\ ram' = [ram EXCEPT
                         !.table = Table(m, spared \/ crowded),
                         !.asks = AsksAfter(m, spared \/ crowded),
                         !.gapped = IF m.op = "REPLACE_ALL" THEN FALSE ELSE @,
                         !.spent = SpentAfter(m, spared, crowded),
                         !.lacks = LacksAfter(m, spared, crowded),
                         !.batch = [Batch EXCEPT
                             !.held = m.number,
                             !.changed = @ \/ (m.op # "ASSIGN" /\ ~(spared \/ crowded))]]
           /\ fate' = IF m.op = "DELETE_EMPLOYEE" THEN Dropped({ram.table[m.who].own}) ELSE fate
           /\ lane' = Tail(lane)
    /\ UNCHANGED <<server, backup, beats, reports, capturing, reporting, ops, minted>>

\* The face table refused (a lock timed out): the number holds, the kiosk stops.
TakeFails ==
    /\ CanTake /\ Fault
    /\ LET m == Head(lane)
       IN  /\ m.op \in {"UPSERT", "DELETE_EMPLOYEE", "REPLACE_ALL"} /\ Takes(m)
           /\ LET asks == IF m.op = "REPLACE_ALL" THEN {}
                          ELSE IF m.op = "DELETE_EMPLOYEE" THEN ram.asks \ {m.who}
                          ELSE ram.asks
              IN  /\ ram' = [ram EXCEPT !.gapped = TRUE, !.asks = asks, !.batch = Batch]
                  /\ flash' = [flash EXCEPT !.asks = asks]
           /\ lane' = Tail(lane)
    /\ UNCHANGED <<server, backup, beats, reports, capturing, reporting, fate, ops, minted>>

\* A stale number is dropped; one past the next opens a gap.
PassOver ==
    /\ CanTake
    /\ LET m == Head(lane)
       IN  /\ m.op # "CAPTURED" /\ ~Takes(m)
           /\ ram' = [ram EXCEPT !.gapped = @ \/ ~Stale(m), !.batch = Batch]
           /\ lane' = Tail(lane)
    /\ UNCHANGED <<server, backup, beats, reports, flash, capturing, reporting, fate, rosterBudget>>

\* A capture finished at this door: off the pending list, no number.
TakeCaptured ==
    /\ CanTake /\ Head(lane).op = "CAPTURED"
    /\ LET asks == ram.asks \ {Head(lane).who}
       IN  /\ SavePending(asks)
           /\ ram' = [ram EXCEPT !.asks = asks, !.batch = Batch]
    /\ lane' = Tail(lane)
    /\ UNCHANGED <<server, backup, beats, reports, capturing, reporting, fate, ops, minted>>

\* Faulty form, for trying the properties: The number is stored whether the table was saved or not.
EndBatchUnchecked ==
    /\ ram.batch.at = "taking"
    /\ \/ /\ flash' = IF ram.batch.changed THEN [flash EXCEPT !.table = ram.table] ELSE flash
          /\ NoFault
       \/ ram.batch.changed /\ Fault /\ UNCHANGED flash
    /\ ram' = [ram EXCEPT !.batch.at = "storing"]
    /\ UNCHANGED <<server, backup, lane, beats, reports, capturing, reporting, fate, ops, minted>>

\* The queue ran dry: the table goes to flash before the number may.
EndBatch ==
    /\ ram.batch.at = "taking"
    /\ \/ /\ flash' = IF ram.batch.changed THEN [flash EXCEPT !.table = ram.table] ELSE flash
          /\ ram' = [ram EXCEPT !.batch.at = "storing"]
          /\ NoFault
       \/ /\ ram.batch.changed /\ Fault
          /\ ram' = [ram EXCEPT !.batch = NoBatch, !.gapped = TRUE]
          /\ UNCHANGED flash
    /\ UNCHANGED <<server, backup, lane, beats, reports, capturing, reporting, fate, ops, minted>>

\* roster_ver, whose write may fail in silence.
StoreNumber ==
    /\ ram.batch.at = "storing"
    /\ \/ flash' = [flash EXCEPT !.held = ram.batch.held] /\ NoFault
       \/ UNCHANGED flash /\ ram.batch.held # flash.held /\ Fault
    /\ ram' = [ram EXCEPT !.batch = NoBatch]
    /\ UNCHANGED <<server, backup, lane, beats, reports, capturing, reporting, fate, ops, minted>>

AtRest == ram.batch = NoBatch /\ reporting = NoReport

\* A heartbeat leaves between two batches and names the number in flash.
Heartbeat ==
    /\ AtRest /\ Len(beats) < MaxBeats
    /\ SlowLane \/ lane = <<>>
    /\ beats' = Append(beats, [number |-> flash.held, old |-> FALSE])
    /\ UNCHANGED <<server, backup, lane, reports, kiosk, rosterBudget>>

LoseBeat ==
    /\ beats # <<>> /\ Fault
    /\ beats' = Tail(beats)
    /\ UNCHANGED <<server, backup, lane, reports, kiosk, ops, minted>>

-----------------------------------------------------------------------------
(* ui_task captures, sync_task reports.                                     *)

\* A session opens on a row of the pending list.
OpenSession(p) ==
    /\ Captures /\ capturing = 0 /\ p \in ram.asks /\ minted < MaxFaces
    /\ capturing' = p
    /\ UNCHANGED <<server, backup, lane, beats, reports, ram, flash, reporting, fate, rosterBudget>>

LeaveSession ==
    /\ capturing # 0
    /\ capturing' = 0
    /\ UNCHANGED <<server, backup, lane, beats, reports, ram, flash, reporting, fate, rosterBudget>>

\* The samples found room, in a bank of their own or in one the person has already;
\* seal_session, keep_session, persist; hand_roster only when the table was saved.
SealSession ==
    /\ capturing # 0 /\ minted < MaxFaces
    /\ SlowAck \/ reporting = NoReport
    /\ Used < FaceCap \/ 0 \notin {ram.table[capturing].held, ram.table[capturing].own}
    /\ LET table == [ram.table EXCEPT ![capturing] = [held |-> 0, own |-> minted + 1]]
       IN  /\ ram' = [ram EXCEPT !.table = table]
           /\ \/ /\ flash' = [flash EXCEPT !.table = table]
                 /\ \E i \in 0 .. Len(lane) :
                        lane' = InsertAt(lane, i + 1, [op |-> "CAPTURED", who |-> capturing,
                                                       face |-> 0, number |-> 0])
                 /\ NoFault
              \/ Fault /\ UNCHANGED <<flash, lane>>
    /\ capturing' = 0 /\ minted' = minted + 1
    /\ fate' = [Dropped({ram.table[capturing].own}) EXCEPT ![minted + 1] = "sealed"]
    /\ UNCHANGED <<server, backup, beats, reports, reporting, ops>>

\* drain_reports: the sample is published and sync_task waits for the ack.
Report(p) ==
    /\ AtRest /\ ram.table[p].own # 0
    /\ reporting' = [who |-> p, face |-> ram.table[p].own]
    /\ reports' = Append(reports, reporting')
    /\ UNCHANGED <<server, backup, lane, beats, ram, flash, capturing, fate, rosterBudget>>

\* mark_reported clears the flag of that session only; keep_session then drops
\* every record of the person outside it.
Kept(record, f) ==
    [held |-> IF f \in {record.own, record.held} THEN f ELSE 0, own |-> 0]

Acked ==
    /\ reporting # NoReport
    /\ LET p == reporting.who
           f == reporting.face
           table == [ram.table EXCEPT ![p] = Kept(@, f)]
       IN  /\ ram' = [ram EXCEPT !.table = table]
           /\ \/ flash' = [flash EXCEPT !.table = table] /\ NoFault
              \/ Fault /\ UNCHANGED flash
    /\ reporting' = NoReport
    /\ UNCHANGED <<server, backup, lane, beats, reports, capturing, fate, ops, minted>>

\* Faulty form, for trying the properties: A report that timed out clears the flag as an ack would.
NotAckedCleared ==
    /\ reporting # NoReport /\ Fault
    /\ reporting' = NoReport
    /\ reports' = IF reports # <<>> /\ Last(reports) = reporting THEN Front(reports) ELSE reports
    /\ ram' = [ram EXCEPT !.table[reporting.who] = Kept(@, reporting.face)]
    /\ UNCHANGED <<server, backup, lane, beats, flash, capturing, fate, ops, minted>>

\* No ack came: the sample keeps its flag and goes again.
NotAcked ==
    /\ reporting # NoReport /\ Fault
    /\ reporting' = NoReport
    /\ \/ UNCHANGED reports
       \/ /\ reports # <<>> /\ Last(reports) = reporting
          /\ reports' = Front(reports)
    /\ UNCHANGED <<server, backup, lane, beats, ram, flash, capturing, fate, ops, minted>>

\* RAM and what was on its way down are gone; load, load_pending and
\* roster_version read flash.
PowerCut ==
    /\ Fault
    /\ ram' = [table |-> flash.table, asks |-> flash.asks, gapped |-> FALSE,
               spent |-> ram.spent, lacks |-> ram.lacks, batch |-> NoBatch]
    /\ lane' = <<>>
    /\ capturing' = 0 /\ reporting' = NoReport
    /\ fate' = Dropped({ram.table[p].own : p \in Staff} \ {flash.table[p].own : p \in Staff})
    /\ UNCHANGED <<server, backup, beats, reports, flash, ops, minted>>

-----------------------------------------------------------------------------
Dashboard == \E p \in Staff : Assign(p) \/ Revoke(p) \/ Erase(p) \/ CapturedElsewhere(p)
TakeRoster == TakeOne \/ TakeFails \/ PassOver \/ TakeCaptured

RosterNext ==
    \/ Dashboard \/ ResyncByHand \/ Converge \/ TakeReport
    \/ ApiRestart \/ BackUp \/ Restore
    \/ TakeRoster \/ EndBatch \/ StoreNumber \/ Heartbeat \/ LoseBeat
    \/ \E p \in Staff : OpenSession(p) \/ Report(p)
    \/ LeaveSession \/ SealSession \/ Acked \/ NotAcked \/ PowerCut

\* sync_task runs its loop and heartbeats every 30 s; the api handles what it hears.
RosterFairness ==
    /\ WF_rosterVars(TakeRoster) /\ WF_rosterVars(EndBatch) /\ WF_rosterVars(StoreNumber)
    /\ WF_rosterVars(Heartbeat) /\ WF_rosterVars(Converge) /\ WF_rosterVars(TakeReport)
    /\ WF_rosterVars(Acked) /\ \A p \in Staff : WF_rosterVars(Report(p))

RosterSpec == RosterInit /\ [][RosterNext]_rosterVars
FairSpec == RosterSpec /\ RosterFairness

-----------------------------------------------------------------------------
(* Properties.                                                              *)

\* Nothing is on its way and nothing is half done at the kiosk.
Settled ==
    /\ lane = <<>> /\ reports = <<>> /\ AtRest /\ capturing = 0
    /\ \A p \in Staff : ram.table[p].own = 0

\* What the kiosk should hold of one person, but for an ask the full list refused and
\* a face the full table refused: both are spent with an event, and who lacks the
\* face stays on the list if there.
Agrees(p) ==
    /\ \/ ram.table[p].held = IF server.pair[p] \in Active THEN server.face[p] ELSE 0
       \/ p \in ram.lacks /\ ram.table[p].held = 0
    /\ \/ (p \in ram.asks) = (server.pair[p] \in Waiting)
       \/ p \in ram.spent /\ p \notin ram.asks
       \/ p \in ram.lacks /\ p \in ram.asks

\* The heartbeat compares numbers and nothing else (converge), so once nothing is
\* on its way equal numbers must mean equal rosters: no face the server took
\* back still opens the door, and nobody enrolled is missing whom the table had room
\* for.
EqualNumbersEqualRosters ==
    Settled /\ flash.held = server.number => \A p \in Staff : Agrees(p)

\* drain_reports and apply_roster: a capture sealed at the kiosk is held there with
\* its flag, or is with the broker, until the server has judged it, ordered its
\* person dropped, or a newer session took its place.
NoCaptureVanishes ==
    \A f \in Faces : fate[f] = "sealed" =>
        \/ \E p \in Staff : ram.table[p].own = f
        \/ \E i \in DOMAIN reports : reports[i].face = f

\* The kiosk's number never runs ahead of the counter that hands numbers out, so
\* no number is ever spent twice on this door.
NeverAhead == flash.held <= server.number /\ ram.batch.held <= server.number

\* converge and the gate together: once nobody changes anything and nothing more
\* breaks, the door comes level and stays level.
ComesLevel == <>[](flash.held = server.number)

=============================================================================
