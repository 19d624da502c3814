------------------------------ MODULE AttendLog ------------------------------
(* A punch on the kiosk, from the record attend_task appends to flash to the   *)
(* row the server keeps: the rotating log, its cursor and the boot count of    *)
(* sys_storage.c, the ids write_record of svc_attendance.cpp gives, and the    *)
(* drain of svc_sync/uplink.cpp that sends a record, waits for the broker's    *)
(* acknowledgement and only then moves the cursor; then the backend session    *)
(* the broker keeps, and AttendanceService.record.                             *)
(*                                                                             *)
(* attend_task (AppendRecord...), sync_task (ReadNext...MoveCursor), ota_task  *)
(* (Collect), the broker (Accept) and the backend (Handle) interleave.  Each   *)
(* storage call is one action because s_lock covers it, and a power cut inside *)
(* a call is an outcome of PowerCut.                                           *)
EXTENDS Naturals, Sequences, FiniteSets, TwoPhase

CONSTANTS
  Files,          \* STORAGE_ATTEND_FILES, the names the log may take
  FileCap,        \* records that fit under STORAGE_ATTEND_ROTATE_BYTES
  MaxPunches,     \* bound on the punches of a behaviour
  MaxBoots,       \* bound on the boot a power cut may still follow
  MaxRot,         \* records whose bytes flash may lose
  NvsMayFail,     \* may a boot find NVS erased (open_settings erases it)
  CountMayFail,   \* may writing a copy of the boot count fail
  MayErase        \* may the whole flash be erased at the bench

ASSUME SizesAssumption ==
  /\ Files \in Nat \ {0} /\ FileCap \in Nat \ {0}
  /\ MaxPunches \in Nat /\ MaxBoots \in Nat /\ MaxRot \in Nat
ASSUME FaultsAssumption ==
  /\ NvsMayFail \in BOOLEAN /\ CountMayFail \in BOOLEAN /\ MayErase \in BOOLEAN

VARIABLES
  \* on flash
  files,      \* the attend.NNN names that exist
  cells,      \* the records of each, in order
  tail,       \* does a file end in part of a record
  cursor,     \* cursor.bin, a two-phase register
  nvsBoot,    \* sys/boot_count in NVS, 0 when the key is gone
  bootBin,    \* boot.bin, a two-phase register
  ticket,     \* does NVS hold a ticket
  roster,     \* does the face table know anybody
  \* in RAM
  power,      \* "off", "counted" once NVS holds the new boot, "on"
  boot,       \* s_boot_count
  seq,        \* s_seq of svc_attendance
  logIndex,   \* s_log_index
  dropped,    \* s_log_dropped_below
  pc,         \* where the drain stands
  next,       \* the cursor past the record it holds
  holding,    \* that record
  \* beyond the kiosk
  wire,       \* messages handed to the link, which may come late or again
  accepted,   \* those the broker took for the session of the backend
  server,     \* rows of AttendanceRecord, one for a (boot, seq)
  refused,    \* messages the backend is done with and keeps no row of
  \* what the properties speak of
  punches,    \* how many punches were written or tried
  promised,   \* those the append answered ESP_OK for
  rotted,     \* those whose bytes flash lost
  ran,        \* the last boot count tasks have run under
  holes       \* which of the two losses the design does not cover have happened

flash == <<files, cells, tail, cursor, nvsBoot, bootBin, ticket, roster>>
ram == <<power, boot, seq, logIndex, dropped, pc, next, holding>>
ghosts == <<punches, promised, rotted, ran, holes>>
backend == <<server, refused>>
vars == <<flash, ram, wire, accepted, backend, ghosts>>

FileIds == 0..(Files - 1)
Message == [boot : Nat, seq : Nat, punch : Nat]
Cell == [boot : Nat, seq : Nat, punch : Nat, whole : BOOLEAN]
Cursor == [file : FileIds, rec : Nat]
Start == [file |-> 0, rec |-> 0]

(* "copies": a boot found NVS erased and boot.bin under neither of its names.   *)
(* "equal": an erased kiosk was approved at just the count the server holds.    *)
Holes == {"copies", "equal"}

TypeOK ==
  /\ files \subseteq FileIds
  /\ cells \in [FileIds -> Seq(Cell)]
  /\ tail \in [FileIds -> BOOLEAN]
  /\ cursor \in Registers(Cursor)
  /\ nvsBoot \in Nat /\ bootBin \in Registers(Nat)
  /\ ticket \in BOOLEAN /\ roster \in BOOLEAN
  /\ power \in {"off", "counted", "on"}
  /\ boot \in Nat /\ seq \in Nat
  /\ logIndex \in FileIds /\ dropped \in Nat
  /\ pc \in {"idle", "read", "sent", "acked"}
  /\ next \in Cursor /\ holding \in Message
  /\ wire \subseteq Message /\ accepted \subseteq Message
  /\ server \subseteq Message /\ refused \subseteq Message
  /\ punches \in Nat /\ promised \subseteq Nat /\ rotted \subseteq Nat
  /\ ran \in Nat /\ holes \subseteq Holes

Init ==
  /\ files = {} /\ cells = [f \in FileIds |-> <<>>]
  /\ tail = [f \in FileIds |-> FALSE]
  /\ cursor = NoFile(Start)
  /\ nvsBoot = 0 /\ bootBin = NoFile(0)
  /\ ticket = FALSE /\ roster = FALSE
  /\ power = "off" /\ boot = 0 /\ seq = 0
  /\ logIndex = 0 /\ dropped = 0
  /\ pc = "idle" /\ next = Start
  /\ holding = [boot |-> 0, seq |-> 0, punch |-> 0]
  /\ ran = 0 /\ holes = {}
  /\ wire = {} /\ accepted = {} /\ server = {} /\ refused = {}
  /\ punches = 0 /\ promised = {} /\ rotted = {}

-----------------------------------------------------------------------------
(* Where things are in the log. *)

Ahead(f, i, c) == f > c.file \/ (f = c.file /\ i > c.rec)

IsRecord(f, i) == f \in files /\ i \in 1..Len(cells[f]) /\ cells[f][i].whole

(* sys_storage_attend_read: the first whole record past the cursor.  A file    *)
(* that is gone is stepped over, and so is a record that fails its crc.        *)
\* Faulty form, for trying the properties: The reader never leaves the file its cursor names.
IsNextInItsFile(f, i, c) ==
  /\ IsRecord(f, i) /\ f = c.file /\ i > c.rec
  /\ \A j \in 1..Len(cells[f]) : IsRecord(f, j) /\ j > c.rec => j >= i
IsNext(f, i, c) ==
  /\ IsRecord(f, i) /\ Ahead(f, i, c)
  /\ \A g \in FileIds : \A j \in 1..Len(cells[g]) :
       IsRecord(g, j) /\ Ahead(g, j, c) =>
         g > f \/ (g = f /\ j >= i)

(* The highest of the names, and of some counts: each the set of the one value. *)
Newest(names) ==
  {f \in FileIds : IF names = {} THEN f = 0 ELSE f \in names /\ \A g \in names : g <= f}

Highest(S) == {b \in S \cup {0} : \A c \in S : c <= b}

(* The boot of the last record of each file, where that record reads whole. *)
LoggedBoots ==
  {cells[f][Len(cells[f])].boot :
     f \in {g \in files : cells[g] # <<>> /\ cells[g][Len(cells[g])].whole}}

HighestBoot == Highest({r.boot : r \in server})

(* active_log: from the newest name on, past every file that is full or whose  *)
(* torn tail would not come off.                                               *)
ActiveLog(f, stuck) ==
  /\ f >= logIndex /\ f \notin stuck /\ Len(cells[f]) < FileCap
  /\ \A g \in FileIds : logIndex <= g /\ g < f => g \in stuck \/ Len(cells[g]) = FileCap

\* Faulty form, for trying the properties: A torn tail is appended to.
TailStays(f) == tail[f]

(* What truncate leaves of a torn tail.  A record written behind one would be  *)
(* read out of frame.                                                          *)
TailLeft(f) == FALSE

NoMessage == [boot |-> 0, seq |-> 0, punch |-> 0]

(* The drain returns; what it held on its stack is gone. *)
Return == pc' = "idle" /\ next' = Start /\ holding' = NoMessage

(* The row the unique index of AttendanceRecord lets in: the first of its id.  *)
Known(m) == \E r \in server : r.boot = m.boot /\ r.seq = m.seq
Stored(m) == IF Known(m) THEN server ELSE server \cup {m}

-----------------------------------------------------------------------------
(* attend_task: write_record builds the id from the boot count and ++s_seq,    *)
(* a number spent even when the append fails.                                  *)

\* Faulty form, for trying the properties: s_seq does not go on.
PunchingUncounted ==
  /\ power = "on" /\ roster /\ punches < MaxPunches
  /\ punches' = punches + 1 /\ seq' = 1
Punching ==
  /\ power = "on" /\ roster /\ punches < MaxPunches
  /\ punches' = punches + 1 /\ seq' = seq + 1

(* The record is whole on flash.  The append may still answer an error (the    *)
(* sync failed), and then nobody was promised anything.                        *)
AppendRecord ==
  /\ Punching
  /\ \E stuck \in SUBSET {g \in files : tail[g]}, f \in FileIds :
       /\ ActiveLog(f, stuck)
       /\ files' = files \cup {f} /\ logIndex' = f
       /\ cells' = [cells EXCEPT ![f] = Append(@,
            [boot |-> boot, seq |-> seq', punch |-> punches', whole |-> ~TailLeft(f)])]
       /\ tail' = [tail EXCEPT ![f] = TailLeft(f)]
  /\ promised' \in {promised, promised \cup {punches'}}
  /\ UNCHANGED <<cursor, nvsBoot, bootBin, ticket, roster, power, boot, dropped,
                 pc, next, holding, wire, accepted, backend, rotted, ran, holes>>

(* Part of the record is written, or none: the append answers an error, or the *)
(* power goes right after.  With every file full there is nowhere to write.    *)
AppendFails ==
  /\ Punching
  /\ \/ \E stuck \in SUBSET {g \in files : tail[g]}, f \in FileIds :
          /\ ActiveLog(f, stuck)
          /\ files' = files \cup {f} /\ logIndex' = f
          /\ tail' \in {[tail EXCEPT ![f] = TRUE], [tail EXCEPT ![f] = FALSE]}
     \/ UNCHANGED <<files, tail, logIndex>>
  /\ UNCHANGED <<cells, cursor, nvsBoot, bootBin, ticket, roster, power, boot,
                 dropped, pc, next, holding, wire, accepted, backend,
                 promised, rotted, ran, holes>>

-----------------------------------------------------------------------------
(* sync_task: UplinkQueue::drain, once round its loop. *)

ReadNext ==
  /\ power = "on" /\ ticket /\ pc = "idle"
  /\ \E f \in FileIds, i \in 1..FileCap :
       /\ IsNext(f, i, cursor.val)
       /\ next' = [file |-> f, rec |-> i]
       /\ holding' = [boot |-> cells[f][i].boot, seq |-> cells[f][i].seq,
                      punch |-> cells[f][i].punch]
  /\ pc' = "read"
  /\ UNCHANGED <<flash, power, boot, seq, logIndex, dropped, wire, accepted, backend, ghosts>>

Send ==
  /\ power = "on" /\ pc = "read"
  /\ wire' = wire \cup {holding}
  /\ pc' = "sent"
  /\ UNCHANGED <<flash, power, boot, seq, logIndex, dropped, next, holding, accepted, backend, ghosts>>

(* The PUBACK of the message the drain waits on. *)
\* Faulty form, for trying the properties: A message handed to the link counts as acknowledged.
HandedOver ==
  /\ power = "on" /\ pc = "sent"
  /\ pc' = "acked"
  /\ UNCHANGED <<flash, power, boot, seq, logIndex, dropped, next, holding, wire,
                 accepted, backend, ghosts>>
Acked ==
  /\ power = "on" /\ pc = "sent"
  /\ holding \in accepted
  /\ pc' = "acked"
  /\ UNCHANGED <<flash, power, boot, seq, logIndex, dropped, next, holding, wire,
                 accepted, backend, ghosts>>

(* The link is down, or no PUBACK in time: the record stays queued. *)
GiveUp ==
  /\ power = "on" /\ pc \in {"read", "sent"}
  /\ Return
  /\ UNCHANGED <<flash, power, boot, seq, logIndex, dropped, wire, accepted, backend, ghosts>>

(* drop_synced_logs: the names below the cursor, each tried once a session. *)
Synced(below) == {f \in files : dropped <= f /\ f < below}

(* sys_storage_attend_cursor_set, after the acknowledgement. *)
MoveCursor ==
  /\ power = "on" /\ pc = "acked"
  /\ Return
  /\ \/ /\ cursor' = Finished(next)
        /\ files' = files \ Synced(next.file)
        /\ cells' = [f \in FileIds |-> IF f \in Synced(next.file) THEN <<>> ELSE cells[f]]
        /\ tail' = [f \in FileIds |-> f \notin Synced(next.file) /\ tail[f]]
        /\ dropped' = IF next.file > dropped THEN next.file ELSE dropped
     \/ /\ cursor' \in Failed(cursor, Start)
        /\ UNCHANGED <<files, cells, tail, dropped>>
  /\ UNCHANGED <<nvsBoot, bootBin, ticket, roster, power, boot, seq, logIndex,
                 wire, accepted, backend, ghosts>>

(* The broker takes a message, late and more than once if it likes, for the    *)
(* session of the backend: MqttService connects with a client id and a session *)
(* that lives on without it.                                                   *)
BrokerTakes(m) ==
  /\ m \in wire /\ accepted' = accepted \cup {m}
  /\ UNCHANGED <<flash, ram, wire, backend, ghosts>>

Accept == \E m \in wire : BrokerTakes(m)

(* The backend gets a message from its session, and again when its own         *)
(* acknowledgement was lost.  AttendanceService.record stores it unless its id *)
(* is taken; a kiosk or a person that does not belong to the door, or a        *)
(* handler that failed HANDLER_TRIES times with the database up, is the end of *)
(* it too.  Anything else leaves it with the broker.                           *)
Settle(m) ==
  /\ m \in accepted
  /\ \/ server' = Stored(m) /\ UNCHANGED refused
     \/ ~Known(m) /\ refused' = refused \cup {m} /\ UNCHANGED server
  /\ UNCHANGED <<flash, ram, wire, accepted, ghosts>>

Handle == \E m \in accepted : Settle(m)

Settled(m) == Known(m) \/ m \in refused

-----------------------------------------------------------------------------
(* ota_task: net_provision_register answered 200.  The count is lifted past    *)
(* what the server holds before the ticket is kept; a count that is already    *)
(* there stays.  The server counts the boots of events too, which can only lift *)
(* it further; they are left out.  NVS may refuse any of the writes.            *)
\* Faulty form, for trying the properties: The count is lifted to the highest, not past it.
LiftToBootCount(highest) ==
  IF boot >= highest
  THEN UNCHANGED <<boot, nvsBoot, bootBin>>
  ELSE boot' = highest /\ nvsBoot' = boot' /\ bootBin' = Finished(boot')
LiftBootCount(highest) ==
  IF boot >= highest
  THEN UNCHANGED <<boot, nvsBoot, bootBin>>
  ELSE /\ boot' = highest + 1
       /\ \/ nvsBoot' = boot' /\ bootBin' = Finished(boot')
          \/ CountMayFail /\ nvsBoot' = boot' /\ bootBin' \in Failed(bootBin, 0)
          \/ CountMayFail /\ UNCHANGED <<nvsBoot, bootBin>>

Collect ==
  /\ power = "on" /\ ~ticket
  /\ \E highest \in HighestBoot :
       /\ LiftBootCount(highest)
       /\ holes' = holes \cup (IF ~roster /\ boot = highest THEN {"equal"} ELSE {})
  /\ ran' = boot'
  /\ \/ ticket' = TRUE /\ roster' = TRUE
     \/ CountMayFail /\ UNCHANGED <<ticket, roster>>
  /\ UNCHANGED <<files, cells, tail, cursor, power, seq, logIndex, dropped, pc,
                 next, holding, wire, accepted, backend, punches, promised, rotted>>

-----------------------------------------------------------------------------
(* sys_storage_init: above the highest of the three places, and into NVS first. *)
BootCounts ==
  /\ power = "off"
  /\ \E lost \in {FALSE, NvsMayFail} :
       /\ \E last \in Highest({IF lost THEN 0 ELSE nvsBoot, bootBin.val} \cup LoggedBoots) :
            boot' = last + 1
       /\ ticket' = (ticket /\ ~lost)
       /\ holes' = holes \cup (IF lost /\ bootBin.at = "none" THEN {"copies"} ELSE {})
  /\ nvsBoot' = boot' /\ power' = "counted"
  /\ seq' = 0 /\ logIndex' \in Newest(files) /\ dropped' = 0
  /\ UNCHANGED <<files, cells, tail, cursor, bootBin, roster, pc, next, holding,
                 wire, accepted, backend, punches, promised, rotted, ran>>

(* The second half of keep_boot_count: a boot.bin that fails is only logged. *)
\* Faulty form, for trying the properties: boot.bin is written when it is missing only.
BootFilesOnce ==
  /\ power = "counted" /\ power' = "on"
  /\ bootBin' = IF bootBin.at = "none" THEN Finished(boot) ELSE bootBin
  /\ ran' = boot
  /\ UNCHANGED <<files, cells, tail, cursor, nvsBoot, ticket, roster, boot, seq,
                 logIndex, dropped, pc, next, holding, wire, accepted, backend,
                 punches, promised, rotted, holes>>
BootFiles ==
  /\ power = "counted" /\ power' = "on"
  /\ bootBin' \in {Finished(boot)} \cup (IF CountMayFail THEN Failed(bootBin, 0) ELSE {})
  /\ ran' = boot
  /\ UNCHANGED <<files, cells, tail, cursor, nvsBoot, ticket, roster, boot, seq,
                 logIndex, dropped, pc, next, holding, wire, accepted, backend, punches,
                 promised, rotted, holes>>

(* RAM goes.  A replace that was under way leaves one of its outcomes, and a   *)
(* cursor that made it may have dropped some of the files below it.            *)
PowerCut ==
  /\ power # "off" /\ boot < MaxBoots
  /\ power' = "off" /\ Return
  /\ boot' = 0 /\ seq' = 0 /\ logIndex' = 0 /\ dropped' = 0
  /\ \/ /\ bootBin' \in IF power = "counted" THEN Cut(bootBin, boot, 0) ELSE {bootBin}
        /\ UNCHANGED nvsBoot
     \/ /\ power = "on" /\ ~ticket
        /\ \E highest \in HighestBoot :                      \* inside a lift
             /\ boot < highest /\ nvsBoot' = highest + 1
             /\ bootBin' \in Cut(bootBin, highest + 1, 0)
  /\ cursor' \in IF pc = "acked" THEN Cut(cursor, next, Start) ELSE {cursor}
  /\ \E below \in IF pc = "acked" /\ cursor' = Finished(next) THEN 0..next.file ELSE {0} :
       /\ files' = files \ Synced(below)
       /\ cells' = [f \in FileIds |-> IF f \in Synced(below) THEN <<>> ELSE cells[f]]
       /\ tail' = [f \in FileIds |-> f \notin Synced(below) /\ tail[f]]
  /\ UNCHANGED <<ticket, roster, wire, accepted, backend, ghosts>>

(* Flash loses a record's bytes: its crc fails from now on. *)
Spoilt(record) == [record EXCEPT !.whole = FALSE]
Rot ==
  /\ Cardinality(rotted) < MaxRot
  /\ \E f \in files, i \in 1..FileCap :
       /\ IsRecord(f, i)
       /\ cells' = [cells EXCEPT ![f] = [cells[f] EXCEPT ![i] = Spoilt(cells[f][i])]]
       /\ rotted' = rotted \cup {cells[f][i].punch}
  /\ UNCHANGED <<files, tail, cursor, nvsBoot, bootBin, ticket, roster, ram, wire,
                 accepted, backend, punches, promised, ran, holes>>

(* erase-flash at the bench: log, cursor, counts, ticket and face table go, and *)
(* with them whatever the kiosk still owed.  No message is that late.           *)
EraseFlash ==
  /\ MayErase /\ power = "off"
  /\ \A m \in wire : m \in accepted /\ Settled(m)
  /\ wire' = {} /\ accepted' = {}
  /\ files' = {} /\ cells' = [f \in FileIds |-> <<>>]
  /\ tail' = [f \in FileIds |-> FALSE]
  /\ cursor' = NoFile(Start) /\ nvsBoot' = 0 /\ bootBin' = NoFile(0)
  /\ ticket' = FALSE /\ roster' = FALSE
  /\ promised' = {} /\ ran' = 0
  /\ UNCHANGED <<ram, backend, punches, rotted, holes>>

Next ==
  \/ AppendRecord \/ AppendFails
  \/ ReadNext \/ Send \/ Acked \/ GiveUp \/ MoveCursor \/ Accept \/ Handle
  \/ Collect \/ BootCounts \/ BootFiles \/ PowerCut \/ Rot \/ EraseFlash

Spec == Init /\ [][Next]_vars

(* The scheduler runs every task, power stays once the cuts are over, and of   *)
(* the tries repeated for ever one gets through: the link takes a message, it  *)
(* reaches the broker, its PUBACK comes back in time, a cursor is written.     *)
Fairness ==
  /\ WF_vars(BootCounts) /\ WF_vars(BootFiles) /\ WF_vars(Collect)
  /\ WF_vars(ReadNext) /\ SF_vars(Send)
  /\ SF_vars(pc = "sent" /\ BrokerTakes(holding))
  /\ WF_vars(\E m \in accepted : ~Settled(m) /\ Settle(m))
  /\ SF_vars(Acked)
  /\ \A c \in [file : FileIds, rec : 1..FileCap] :
       SF_vars(MoveCursor /\ next = c /\ cursor' = Finished(c))

FairSpec == Spec /\ Fairness

-----------------------------------------------------------------------------
Kept == {r.punch : r \in server}
Refused == {m.punch : m \in refused} \ Kept

(* On its way: whole in a file past the cursor a reader would load, or with    *)
(* the broker; and not settled by an earlier sending yet.                      *)
Waiting(f) == {i \in 1..Len(cells[f]) : IsRecord(f, i) /\ Ahead(f, i, cursor.val)}
Queued == UNION {{cells[f][i].punch : i \in Waiting(f)} : f \in FileIds}
Underway == (Queued \cup {m.punch : m \in accepted}) \ (Kept \cup Refused)

(* A punch the append answered ESP_OK for is never lost: until the backend has *)
(* settled it, it stands in a log file, whole, past the cursor, or with the    *)
(* broker (attend_append, drain, cursor_set and drop_synced_logs under power   *)
(* cuts, late and repeated messages).                                          *)
NothingLost == promised \ rotted \subseteq Underway \cup Kept \cup Refused

(* Every id the kiosk has written or sent belongs to one punch (boot_count and *)
(* s_seq across cuts, a lost NVS and a lift): the server drops the second      *)
(* punch of an id as a repeat of the first, unless it kept no row of that.     *)
Ids ==
  (wire \cup accepted \cup server \cup
   UNION {{[boot |-> cells[f][i].boot, seq |-> cells[f][i].seq, punch |-> cells[f][i].punch] :
             i \in 1..Len(cells[f])} : f \in FileIds})
  \ (refused \ server)
OneIdOnePunch ==
  \A m, n \in Ids : m.boot = n.boot /\ m.seq = n.seq => m.punch = n.punch

(* Of NVS and boot.bin one is enough: a boot runs tasks under an earlier count *)
(* again only after some boot found both of them gone (sys_storage_init takes  *)
(* the larger copy, and keep_boot_count writes NVS before boot.bin).           *)
BootCountsOn == power = "counted" => boot > ran \/ "copies" \in holes

(* KE_HOACH 6.2.5 says an id never repeats, even after a power cut or a lost    *)
(* NVS, and erase-flash is one of the losses it lists.  There are two holes in  *)
(* that: an erased kiosk approved again at just the highest count the server    *)
(* holds (LiftBootCount leaves it there), and an emptied log under two lost     *)
(* copies of the count.                                                        *)
RepeatsOnlyThroughAHole == holes # {} \/ OneIdOnePunch

(* What the log promises of each punch: see PunchLedger. *)
Ledger == INSTANCE PunchLedger
            WITH taken <- punches, owed <- Underway \ rotted, kept <- Kept,
                 refused <- Refused, forgotten <- rotted, MaxForgotten <- MaxRot
LedgerSteps == Ledger!Spec
LedgerPays == Ledger!EveryDebtPaid
=============================================================================
