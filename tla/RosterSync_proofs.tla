-------------------------- MODULE RosterSync_proofs --------------------------
(* Proofs about a door and the roster the server holds for it, for any staff,     *)
(* any pending list and any faults: of a capture made at the kiosk; of the types; *)
(* of the numbers; and that equal numbers mean equal rosters.                     *)
EXTENDS RosterSync, SequenceTheorems, FiniteSetTheorems, WellFoundedInduction, TLAPS

(***************************************************************************)
(* The captures of the roster.                                             *)
(***************************************************************************)
(* A face table has a row for each employee, and each row a capture or none. *)
IsTable(table) ==
  /\ table = [p \in Staff |-> [held |-> table[p].held, own |-> table[p].own]]
  /\ \A p \in Staff : table[p].own \in Faces

(* What of the kiosk's state the captures hang on. *)
KioskShape ==
  /\ ram = [table |-> ram.table, asks |-> ram.asks, gapped |-> ram.gapped,
            spent |-> ram.spent, lacks |-> ram.lacks, batch |-> ram.batch]
  /\ flash = [table |-> flash.table, asks |-> flash.asks, held |-> flash.held]
  /\ IsTable(ram.table) /\ IsTable(flash.table)
  /\ fate = [f \in Faces |-> fate[f]]
  /\ minted \in Nat /\ capturing \in Staff \cup {0}
  /\ reports \in Seq([who : Staff, face : Faces])

Sent(f) == \E i \in DOMAIN reports : reports[i].face = f

(* While a report waits for its ack the sample it carries stays in the table,   *)
(* flagged, and is with the broker or judged already.                          *)
Waited ==
  reporting # NoReport =>
    /\ reporting.who \in Staff
    /\ ram.table[reporting.who].own = reporting.face
    /\ Sent(reporting.face) \/ fate[reporting.face] # "sealed"

CaptureInv == KioskShape /\ Waited /\ NoCaptureVanishes

(* The factory has captured nobody. *)
LEMMA CaptureInit == RosterInit => CaptureInv
<1> SUFFICES ASSUME RosterInit PROVE CaptureInv
  OBVIOUS
<1> USE RosterAssumption DEF RosterInit
<1>0. 0 \in Faces
  BY DEF Faces
<1>1. KioskShape
  BY <1>0 DEF KioskShape, IsTable
<1>2. \A f \in Faces : fate[f] = "none"
  BY DEF RosterInit
<1> QED
  BY <1>1, <1>2 DEF CaptureInv, Waited, NoCaptureVanishes

(* A step that touches no face table, no capture and no report. *)
LEMMA CaptureUntouched ==
  ASSUME CaptureInv, KioskShape', ram'.table = ram.table, UNCHANGED <<fate, reports, reporting>>
  PROVE  CaptureInv'
  BY DEF CaptureInv, Waited, NoCaptureVanishes, Sent

(* The dashboard, the other doors, and what the api does on its own. *)
LEMMA ServerKeepsCaptures ==
  ASSUME CaptureInv,
         \/ Dashboard \/ ResyncByHand \/ Converge \/ ApiRestart \/ BackUp \/ Restore \/ LoseBeat \/ Heartbeat
  PROVE  CaptureInv'
<1>1. UNCHANGED kiosk /\ UNCHANGED reports /\ minted' \in {minted, minted + 1}
  <2>1. Dashboard => UNCHANGED kiosk /\ UNCHANGED reports /\ minted' \in {minted, minted + 1}
    BY DEF Dashboard, Assign, Revoke, Erase, CapturedElsewhere, Ordered
  <2>2. ResyncByHand => UNCHANGED kiosk /\ UNCHANGED reports /\ minted' \in {minted, minted + 1}
    BY DEF ResyncByHand, Ordered
  <2>3. \/ Converge \/ ApiRestart \/ BackUp \/ Restore \/ LoseBeat \/ Heartbeat
        => UNCHANGED kiosk /\ UNCHANGED reports /\ minted' \in {minted, minted + 1}
    BY DEF Converge, ApiRestart, BackUp, Restore, LoseBeat, Heartbeat, rosterBudget
  <2> QED
    BY <2>1, <2>2, <2>3
<1>2. KioskShape'
  BY <1>1 DEF CaptureInv, KioskShape, kiosk
<1> QED
  BY <1>1, <1>2, CaptureUntouched DEF kiosk

(* The first report is judged, the others move up. *)
LEMMA TakeReportKeepsCaptures == ASSUME CaptureInv, TakeReport PROVE CaptureInv'
<1>1. /\ reports # <<>> /\ reports' = Tail(reports)
      /\ fate' = [fate EXCEPT ![Head(reports).face] = "judged"]
      /\ UNCHANGED <<ram, flash, capturing, reporting, minted>>
  BY DEF TakeReport
<1>2. reports \in Seq([who : Staff, face : Faces])
  BY DEF CaptureInv, KioskShape
<1>3. /\ reports' \in Seq([who : Staff, face : Faces])
      /\ Len(reports') = Len(reports) - 1
      /\ \A i \in 1..Len(reports') : reports'[i] = reports[i + 1]
      /\ Head(reports) = reports[1]
  BY <1>1, <1>2
<1>4. KioskShape'
  BY <1>1, <1>3 DEF CaptureInv, KioskShape
<1>5. ASSUME NEW f \in Faces, fate'[f] = "sealed"
      PROVE  fate[f] = "sealed" /\ (Sent(f) => Sent(f)')
  <2>1. f # Head(reports).face /\ fate[f] = "sealed"
    BY <1>1, <1>5 DEF CaptureInv, KioskShape
  <2>2. ASSUME NEW i \in DOMAIN reports, reports[i].face = f PROVE Sent(f)'
    <3>1. i \in 1..Len(reports) /\ i # 1
      BY <1>2, <1>3, <2>1, <2>2
    <3>2. i - 1 \in 1..Len(reports') /\ (i - 1) + 1 = i
      BY <1>2, <1>3, <3>1
    <3>3. reports'[i - 1].face = f
      BY <1>3, <2>2, <3>2
    <3>4. i - 1 \in DOMAIN reports'
      BY <1>3, <3>2
    <3> QED
      BY <3>3, <3>4 DEF Sent
  <2> QED
    BY <2>1, <2>2 DEF Sent
<1>6. NoCaptureVanishes'
  BY <1>1, <1>5 DEF CaptureInv, NoCaptureVanishes, Sent
<1>7. Waited'
  <2>1. SUFFICES ASSUME reporting # NoReport PROVE Waited'
    BY <1>1 DEF Waited
  <2>2. reporting.who \in Staff /\ ram.table[reporting.who].own = reporting.face
    BY <2>1 DEF CaptureInv, Waited
  <2>3. reporting.face \in Faces
    BY <2>2 DEF CaptureInv, KioskShape, IsTable
  <2>4. PICK f \in Faces : f = reporting.face
    BY <2>3
  <2>5. fate'[f] = "sealed" => Sent(f)'
    BY <1>5, <2>1, <2>4 DEF CaptureInv, Waited
  <2> QED
    BY <1>1, <2>2, <2>4, <2>5 DEF Waited, Sent
<1> QED
  BY <1>4, <1>6, <1>7 DEF CaptureInv

(* What becomes of a message taken into a batch: it is applied, or refused for one of two
   reasons. *)
TakenAs(m, batch, spared, crowded, refused) ==
  /\ refused = (spared \/ crowded)
  /\ spared => m.op = "UPSERT" /\ ram.table[m.who].own # 0
  /\ crowded => m.op = "UPSERT" /\ ram.table[m.who].held = 0
  /\ SavePending(AsksAfter(m, refused))
  /\ ram' = [ram EXCEPT
         !.table = Table(m, refused),
         !.asks = AsksAfter(m, refused),
         !.gapped = IF m.op = "REPLACE_ALL" THEN FALSE ELSE ram.gapped,
         !.spent = SpentAfter(m, spared, crowded),
         !.lacks = LacksAfter(m, spared, crowded),
         !.batch = [batch EXCEPT
             !.held = m.number,
             !.changed = batch.changed \/ (m.op # "ASSIGN" /\ ~refused)]]

(* Every step of TakeOne is of that form. *)
LEMMA OneTaken ==
  ASSUME TakeOne, NEW m, m = Head(lane), NEW batch, batch = Batch
  PROVE  \E spared, crowded, refused \in BOOLEAN : TakenAs(m, batch, spared, crowded, refused)
<1>1. PICK spared \in BOOLEAN, crowded \in BOOLEAN :
        /\ spared => MaySpare(m)
        /\ crowded => MayCrowd(m) /\ ~spared
        /\ SavePending(AsksAfter(m, spared \/ crowded))
        /\ ram' = [ram EXCEPT
               !.table = Table(m, spared \/ crowded),
               !.asks = AsksAfter(m, spared \/ crowded),
               !.gapped = IF m.op = "REPLACE_ALL" THEN FALSE ELSE ram.gapped,
               !.spent = SpentAfter(m, spared, crowded),
               !.lacks = LacksAfter(m, spared, crowded),
               !.batch = [batch EXCEPT
                   !.held = m.number,
                   !.changed = batch.changed \/ (m.op # "ASSIGN" /\ ~(spared \/ crowded))]]
  BY DEF TakeOne
<1>2. PICK refused \in BOOLEAN : refused = (spared \/ crowded)
  OBVIOUS
<1>3. TakenAs(m, batch, spared, crowded, refused)
  BY <1>1, <1>2 DEF TakenAs, MaySpare, MayCrowd, NewPlace
<1> QED
  BY <1>3

(* A push, an ask or a replace spares what was not reported; a drop is told of. *)
LEMMA TakeOneKeepsCaptures == ASSUME CaptureInv, TakeOne PROVE CaptureInv'
<1>1. PICK m : m = Head(lane)
  OBVIOUS
<1>2. PICK spared, crowded, refused \in BOOLEAN : TakenAs(m, Batch, spared, crowded, refused)
  BY <1>1, OneTaken
<1>3. /\ reporting = NoReport
      /\ fate' = IF m.op = "DELETE_EMPLOYEE" THEN Dropped({ram.table[m.who].own}) ELSE fate
      /\ UNCHANGED <<reports, capturing, reporting, minted>>
  BY <1>1 DEF TakeOne, CanTake
<1>4. KioskShape
  BY DEF CaptureInv
<1>5. /\ ram'.table = Table(m, refused)
      /\ ram' = [table |-> ram'.table, asks |-> ram'.asks, gapped |-> ram'.gapped,
                 spent |-> ram'.spent, lacks |-> ram'.lacks, batch |-> ram'.batch]
  BY <1>2, <1>4 DEF TakenAs, KioskShape
<1>6. /\ flash' = [table |-> flash'.table, asks |-> flash'.asks, held |-> flash'.held]
      /\ flash'.table = flash.table
  BY <1>2, <1>4 DEF TakenAs, KioskShape, SavePending
<1>7. 0 \in Faces
  BY RosterAssumption DEF Faces
<1>8. /\ IsTable(Table(m, refused))
      /\ \A p \in Staff : m.op # "DELETE_EMPLOYEE" \/ p # m.who =>
           Table(m, refused)[p].own = ram.table[p].own
  <2>t. PICK table : table = ram.table
    OBVIOUS
  <2>t1. table = [p \in Staff |-> [held |-> table[p].held, own |-> table[p].own]]
         /\ \A p \in Staff : table[p].own \in Faces
    BY <1>4, <2>t DEF KioskShape, IsTable
  <2>1. CASE m.op = "UPSERT" /\ ~refused
    <3>1. Table(m, refused) = [table EXCEPT ![m.who].held = m.face]
      BY <2>1, <2>t DEF Table
    <3>2. PICK new : new = [table EXCEPT ![m.who].held = m.face]
      OBVIOUS
    <3>3. \A p \in Staff : /\ new[p].own = table[p].own
                           /\ new[p] = [held |-> new[p].held, own |-> new[p].own]
      BY <2>t1, <3>2
    <3>4. new = [p \in Staff |-> [held |-> new[p].held, own |-> new[p].own]]
      BY <2>t1, <3>2, <3>3
    <3> QED
      BY <2>t, <2>t1, <3>1, <3>2, <3>3, <3>4 DEF IsTable
  <2>2. CASE m.op = "DELETE_EMPLOYEE"
    <3>1. Table(m, refused) = [table EXCEPT ![m.who] = [held |-> 0, own |-> 0]]
      BY <2>2, <2>t DEF Table
    <3>2. PICK new : new = [table EXCEPT ![m.who] = [held |-> 0, own |-> 0]]
      OBVIOUS
    <3>3. \A p \in Staff : /\ p # m.who => new[p].own = table[p].own
                           /\ new[p].own \in Faces
                           /\ new[p] = [held |-> new[p].held, own |-> new[p].own]
      BY <1>7, <2>t1, <3>2
    <3>4. new = [p \in Staff |-> [held |-> new[p].held, own |-> new[p].own]]
      BY <2>t1, <3>2, <3>3
    <3> QED
      BY <2>t, <2>2, <3>1, <3>2, <3>3, <3>4 DEF IsTable
  <2>3. CASE m.op = "REPLACE_ALL"
    <3>1. Table(m, refused) = [p \in Staff |-> [held |-> 0, own |-> table[p].own]]
      BY <2>3, <2>t DEF Table
    <3> QED
      BY <2>t, <2>t1, <3>1 DEF IsTable
  <2>4. CASE ~(m.op = "UPSERT" /\ ~refused) /\ m.op # "DELETE_EMPLOYEE" /\ m.op # "REPLACE_ALL"
    <3>1. Table(m, refused) = ram.table
      BY <2>4 DEF Table
    <3> QED
      BY <1>4, <3>1 DEF KioskShape
  <2> QED
    BY <2>1, <2>2, <2>3, <2>4
<1>9. fate' = [f \in Faces |-> fate'[f]] /\ \A f \in Faces : fate'[f] = "sealed" => fate[f] = "sealed"
  BY <1>3, <1>4 DEF Dropped, KioskShape
<1>10. KioskShape'
  BY <1>3, <1>4, <1>5, <1>6, <1>8, <1>9 DEF KioskShape
<1>11. NoCaptureVanishes'
  <2> SUFFICES ASSUME NEW f \in Faces, fate'[f] = "sealed", ~Sent(f)
               PROVE  \E p \in Staff : ram'.table[p].own = f
    BY <1>3 DEF NoCaptureVanishes, Sent
  <2>1. PICK p \in Staff : ram.table[p].own = f
    BY <1>9 DEF CaptureInv, NoCaptureVanishes, Sent
  <2>2. m.op # "DELETE_EMPLOYEE" \/ p # m.who
    BY <1>3, <1>9, <2>1 DEF Dropped
  <2> QED
    BY <1>5, <1>8, <2>1, <2>2
<1> QED
  BY <1>3, <1>10, <1>11 DEF CaptureInv, Waited

(* What sync_task does besides: the tables stay as they are. *)
LEMMA BatchKeepsCaptures ==
  ASSUME CaptureInv,
         TakeFails \/ PassOver \/ TakeCaptured \/ EndBatch \/ StoreNumber
  PROVE  CaptureInv'
<1>1. KioskShape
  BY DEF CaptureInv
<1>2. /\ ram'.table = ram.table
      /\ ram' = [table |-> ram'.table, asks |-> ram'.asks, gapped |-> ram'.gapped,
                 spent |-> ram'.spent, lacks |-> ram'.lacks, batch |-> ram'.batch]
      /\ flash'.table \in {ram.table, flash.table}
      /\ flash' = [table |-> flash'.table, asks |-> flash'.asks, held |-> flash'.held]
      /\ UNCHANGED <<fate, reports, reporting, capturing, minted>>
  <2> DEFINE Goal ==
        /\ ram'.table = ram.table
        /\ ram' = [table |-> ram'.table, asks |-> ram'.asks, gapped |-> ram'.gapped,
                   spent |-> ram'.spent, lacks |-> ram'.lacks, batch |-> ram'.batch]
        /\ flash'.table \in {ram.table, flash.table}
        /\ flash' = [table |-> flash'.table, asks |-> flash'.asks, held |-> flash'.held]
        /\ UNCHANGED <<fate, reports, reporting, capturing, minted>>
  <2>1. TakeFails => Goal
    BY <1>1 DEF KioskShape, TakeFails
  <2>2. PassOver => Goal
    BY <1>1 DEF KioskShape, PassOver, rosterBudget
  <2>3. TakeCaptured => Goal
    BY <1>1 DEF KioskShape, TakeCaptured, SavePending
  <2>4. EndBatch => Goal
    BY <1>1 DEF KioskShape, EndBatch
  <2>5. StoreNumber => Goal
    BY <1>1 DEF KioskShape, StoreNumber
  <2> QED
    BY <2>1, <2>2, <2>3, <2>4, <2>5
<1>3. KioskShape'
  BY <1>1, <1>2 DEF KioskShape
<1> QED
  BY <1>2, <1>3, CaptureUntouched

(* A session sealed takes the place of the one before it, which is counted gone. *)
LEMMA SealKeepsCaptures ==
  ASSUME CaptureInv, ~SlowAck, SealSession
  PROVE  CaptureInv'
<1>1. KioskShape
  BY DEF CaptureInv
<1>2. PICK new : new = minted + 1
  OBVIOUS
<1>3. PICK table : table = [ram.table EXCEPT ![capturing] = [held |-> 0, own |-> new]]
  OBVIOUS
<1>4. /\ capturing # 0 /\ minted < MaxFaces /\ reporting = NoReport
      /\ ram' = [ram EXCEPT !.table = table]
      /\ flash' = [flash EXCEPT !.table = table] \/ flash' = flash
      /\ capturing' = 0 /\ minted' = new
      /\ fate' = [Dropped({ram.table[capturing].own}) EXCEPT ![new] = "sealed"]
      /\ UNCHANGED <<reports, reporting>>
  BY <1>2, <1>3 DEF SealSession
<1>5. capturing \in Staff /\ new \in Faces /\ new \in Nat
  BY <1>1, <1>2, <1>4, RosterAssumption DEF KioskShape, Faces
<1>6. /\ table[capturing].own = new
      /\ \A p \in Staff : p # capturing => table[p].own = ram.table[p].own
      /\ \A p \in Staff : table[p] = [held |-> table[p].held, own |-> table[p].own]
  BY <1>1, <1>3, <1>5 DEF KioskShape, IsTable
<1>7. IsTable(table)
  <2>1. table = [p \in Staff |-> table[p]]
    BY <1>1, <1>3 DEF KioskShape, IsTable
  <2>2. table = [p \in Staff |-> [held |-> table[p].held, own |-> table[p].own]]
    BY <1>6, <2>1
  <2>3. \A p \in Staff : table[p].own \in Faces
    BY <1>1, <1>5, <1>6 DEF KioskShape, IsTable
  <2> QED
    BY <2>2, <2>3 DEF IsTable
<1>8. /\ fate' = [f \in Faces |-> fate'[f]]
      /\ \A f \in Faces : fate'[f] = "sealed" /\ f # new =>
           fate[f] = "sealed" /\ f # ram.table[capturing].own
  BY <1>1, <1>4 DEF Dropped, KioskShape
<1>9. KioskShape'
  BY <1>1, <1>4, <1>5, <1>7, <1>8 DEF KioskShape
<1>10. ram'.table = table
  BY <1>1, <1>4 DEF KioskShape
<1>11. NoCaptureVanishes'
  <2> SUFFICES ASSUME NEW f \in Faces, fate'[f] = "sealed", ~Sent(f)
               PROVE  \E p \in Staff : table[p].own = f
    BY <1>4, <1>10 DEF NoCaptureVanishes, Sent
  <2>1. CASE f = new
    BY <1>5, <1>6, <2>1
  <2>2. CASE f # new
    <3>1. PICK p \in Staff : ram.table[p].own = f
      BY <1>8, <2>2 DEF CaptureInv, NoCaptureVanishes, Sent
    <3>2. p # capturing
      BY <1>8, <2>2, <3>1
    <3> QED
      BY <1>6, <3>1, <3>2
  <2> QED
    BY <2>1, <2>2
<1> QED
  BY <1>4, <1>9, <1>11 DEF CaptureInv, Waited

(* A report goes out with the flag still on its sample. *)
LEMMA ReportKeepsCaptures == ASSUME CaptureInv, NEW q \in Staff, Report(q) PROVE CaptureInv'
<1>1. KioskShape
  BY DEF CaptureInv
<1>2. PICK sample : sample = [who |-> q, face |-> ram.table[q].own]
  OBVIOUS
<1>3. /\ reporting' = sample /\ reports' = Append(reports, sample)
      /\ UNCHANGED <<ram, flash, capturing, fate, minted>>
  BY <1>2 DEF Report, rosterBudget
<1>4. sample \in [who : Staff, face : Faces]
  BY <1>1, <1>2 DEF KioskShape, IsTable
<1>5. /\ reports' \in Seq([who : Staff, face : Faces])
      /\ Len(reports') = Len(reports) + 1 /\ reports'[Len(reports) + 1] = sample
      /\ \A i \in 1..Len(reports) : reports'[i] = reports[i]
  BY <1>1, <1>3, <1>4 DEF KioskShape
<1>6. KioskShape'
  BY <1>1, <1>3, <1>5 DEF KioskShape
<1>7. ASSUME NEW f, Sent(f) PROVE Sent(f)'
  <2>1. PICK i \in DOMAIN reports : reports[i].face = f
    BY <1>7 DEF Sent
  <2>2. DOMAIN reports = 1..Len(reports) /\ Len(reports) \in Nat
    BY <1>1 DEF KioskShape
  <2>3. DOMAIN reports' = 1..Len(reports')
    BY <1>5
  <2>4. i \in DOMAIN reports' /\ reports'[i] = reports[i]
    BY <1>5, <2>1, <2>2, <2>3
  <2> QED
    BY <2>1, <2>4 DEF Sent
<1>8. NoCaptureVanishes'
  BY <1>3, <1>7 DEF CaptureInv, NoCaptureVanishes, Sent
<1>9. Waited'
  <2>1. PICK f : f = sample.face
    OBVIOUS
  <2>2. PICK last : last = Len(reports) + 1
    OBVIOUS
  <2>3. last \in DOMAIN reports' /\ reports'[last].face = f
    BY <1>1, <1>5, <2>1, <2>2 DEF KioskShape
  <2>4. Sent(f)'
    BY <2>3 DEF Sent
  <2> QED
    BY <1>2, <1>3, <2>1, <2>4 DEF Waited, Sent
<1> QED
  BY <1>6, <1>8, <1>9 DEF CaptureInv

(* The ack clears the flag of the very sample it is for, which the broker has. *)
LEMMA AckedKeepsCaptures == ASSUME CaptureInv, Acked PROVE CaptureInv'
<1>1. KioskShape
  BY DEF CaptureInv
<1>2. PICK p : p = reporting.who
  OBVIOUS
<1>3. PICK f : f = reporting.face
  OBVIOUS
<1>4. /\ p \in Staff /\ ram.table[p].own = f
      /\ Sent(f) \/ fate[f] # "sealed"
  BY <1>2, <1>3 DEF Acked, CaptureInv, Waited
<1>5. PICK table : table = [ram.table EXCEPT ![p] = Kept(@, f)]
  OBVIOUS
<1>6. /\ ram' = [ram EXCEPT !.table = table]
      /\ flash' = [flash EXCEPT !.table = table] \/ flash' = flash
      /\ reporting' = NoReport
      /\ UNCHANGED <<reports, capturing, fate, minted>>
  BY <1>2, <1>3, <1>5 DEF Acked
<1>7. 0 \in Faces
  BY RosterAssumption DEF Faces
<1>8. /\ table[p].own = 0
      /\ \A q \in Staff : q # p => table[q] = ram.table[q]
      /\ table[p] = [held |-> table[p].held, own |-> table[p].own]
  BY <1>1, <1>4, <1>5 DEF KioskShape, IsTable, Kept
<1>9. IsTable(table)
  <2>1. table = [q \in Staff |-> table[q]]
    BY <1>1, <1>5 DEF KioskShape, IsTable
  <2>2. \A q \in Staff :
           /\ ram.table[q] = [held |-> ram.table[q].held, own |-> ram.table[q].own]
           /\ ram.table[q].own \in Faces
    BY <1>1 DEF KioskShape, IsTable
  <2>3. \A q \in Staff : /\ table[q] = [held |-> table[q].held, own |-> table[q].own]
                         /\ table[q].own \in Faces
    <3> TAKE q \in Staff
    <3>1. CASE q = p
      BY <1>7, <1>8, <3>1
    <3>2. CASE q # p
      BY <1>8, <2>2, <3>2
    <3> QED
      BY <3>1, <3>2
  <2> QED
    BY <2>1, <2>2, <2>3 DEF IsTable
<1>10. ram'.table = table
  BY <1>1, <1>6 DEF KioskShape
<1>11. KioskShape'
  BY <1>1, <1>6, <1>9 DEF KioskShape
<1>12. NoCaptureVanishes'
  <2> SUFFICES ASSUME NEW g \in Faces, fate[g] = "sealed", ~Sent(g)
               PROVE  \E q \in Staff : table[q].own = g
    BY <1>6, <1>10 DEF NoCaptureVanishes, Sent
  <2>1. PICK q \in Staff : ram.table[q].own = g
    BY DEF CaptureInv, NoCaptureVanishes, Sent
  <2>2. q # p
    BY <1>4, <2>1
  <2> QED
    BY <1>8, <2>1, <2>2
<1> QED
  BY <1>6, <1>11, <1>12 DEF CaptureInv, Waited

(* With no ack the flag stays, whether the broker has the sample or not. *)
LEMMA NotAckedKeepsCaptures == ASSUME CaptureInv, NotAcked PROVE CaptureInv'
<1>1. KioskShape
  BY DEF CaptureInv
<1>2. /\ reporting # NoReport /\ reporting' = NoReport
      /\ \/ reports' = reports
         \/ reports # <<>> /\ Last(reports) = reporting /\ reports' = Front(reports)
      /\ UNCHANGED <<ram, flash, capturing, fate, minted>>
  BY DEF NotAcked
<1>3. reports \in Seq([who : Staff, face : Faces])
  BY <1>1 DEF KioskShape
<1>4. CASE reports' = reports
  BY <1>1, <1>2, <1>4 DEF CaptureInv, KioskShape, NoCaptureVanishes, Waited
<1>5. CASE reports # <<>> /\ Last(reports) = reporting /\ reports' = Front(reports)
  <2>0. /\ reports' = SubSeq(reports, 1, Len(reports) - 1)
        /\ reports[Len(reports)] = reporting
    BY <1>5 DEF Front, Last
  <2>a. Len(reports) \in Nat /\ Len(reports) >= 1
    BY <1>3, <1>5, EmptySeq
  <2>1. /\ reports' \in Seq([who : Staff, face : Faces])
        /\ Len(reports') = Len(reports) - 1
        /\ \A i \in 1..Len(reports') : reports'[i] = reports[i]
        /\ reports[Len(reports)] = reporting
    <3>1. PICK n : n = Len(reports) - 1
      OBVIOUS
    <3>2. n \in Nat /\ reports' = SubSeq(reports, 1, n)
      BY <2>0, <2>a, <3>1
    <3>3. \A i \in 1..n : reports[i] \in [who : Staff, face : Faces]
      <4> TAKE i \in 1..n
      <4>1. i \in 1..Len(reports)
        BY <2>a, <3>1
      <4> QED
        BY <1>3, <4>1, ElementOfSeq
    <3>4. /\ SubSeq(reports, 1, n) \in Seq([who : Staff, face : Faces])
          /\ Len(SubSeq(reports, 1, n)) = IF 1 <= n THEN n - 1 + 1 ELSE 0
          /\ \A i \in 1..(n - 1 + 1) : SubSeq(reports, 1, n)[i] = reports[1 + i - 1]
      BY <3>2, <3>3, SubSeqProperties
    <3>5. Len(SubSeq(reports, 1, n)) = n
      BY <3>2, <3>4
    <3> QED
      BY <2>0, <3>1, <3>2, <3>4, <3>5
  <2>2. KioskShape'
    BY <1>1, <1>2, <2>1 DEF KioskShape
  <2>3. \A f : Sent(f) => Sent(f)' \/ f = reporting.face
    BY <1>3, <2>1 DEF Sent
  <2>4. NoCaptureVanishes'
    <3> SUFFICES ASSUME NEW f \in Faces, fate[f] = "sealed", ~Sent(f)'
                 PROVE  \E p \in Staff : ram.table[p].own = f
      BY <1>2 DEF NoCaptureVanishes, Sent
    <3>1. CASE f = reporting.face
      BY <1>2, <3>1 DEF CaptureInv, Waited
    <3>2. CASE f # reporting.face
      BY <2>3, <3>2 DEF CaptureInv, NoCaptureVanishes, Sent
    <3> QED
      BY <3>1, <3>2
  <2> QED
    BY <1>2, <2>2, <2>4 DEF CaptureInv, Waited
<1> QED
  BY <1>2, <1>4, <1>5

(* What flash has comes back; what it has not is counted gone with the power. *)
LEMMA PowerCutKeepsCaptures == ASSUME CaptureInv, PowerCut PROVE CaptureInv'
<1>1. KioskShape
  BY DEF CaptureInv
<1>2. /\ ram' = [table |-> flash.table, asks |-> flash.asks, gapped |-> FALSE,
                 spent |-> ram.spent, lacks |-> ram.lacks, batch |-> NoBatch]
      /\ capturing' = 0 /\ reporting' = NoReport
      /\ fate' = Dropped({ram.table[p].own : p \in Staff} \ {flash.table[p].own : p \in Staff})
      /\ UNCHANGED <<reports, flash, minted>>
  BY DEF PowerCut
<1>3. KioskShape'
  BY <1>1, <1>2 DEF KioskShape, Dropped
<1>4. NoCaptureVanishes'
  <2> SUFFICES ASSUME NEW f \in Faces, fate'[f] = "sealed", ~Sent(f)
               PROVE  \E p \in Staff : flash.table[p].own = f
    BY <1>2 DEF NoCaptureVanishes, Sent
  <2>1. /\ fate[f] = "sealed"
        /\ f \notin {ram.table[p].own : p \in Staff} \ {flash.table[p].own : p \in Staff}
    BY <1>2 DEF Dropped
  <2>2. f \in {ram.table[p].own : p \in Staff}
    BY <2>1 DEF CaptureInv, NoCaptureVanishes, Sent
  <2> QED
    BY <2>1, <2>2
<1> QED
  BY <1>2, <1>3, <1>4 DEF CaptureInv, Waited

(* The invariant survives every step, one lemma for each place that takes it. *)
LEMMA CaptureNext == ASSUME CaptureInv, ~SlowAck, [RosterNext]_rosterVars PROVE CaptureInv'
<1>1. CASE Dashboard \/ ResyncByHand \/ Converge \/ ApiRestart \/ BackUp \/ Restore \/ LoseBeat \/ Heartbeat
  BY <1>1, ServerKeepsCaptures
<1>2. CASE TakeReport BY <1>2, TakeReportKeepsCaptures
<1>3. CASE TakeOne BY <1>3, TakeOneKeepsCaptures
<1>4. CASE TakeFails \/ PassOver \/ TakeCaptured \/ EndBatch \/ StoreNumber
  BY <1>4, BatchKeepsCaptures
<1>5. CASE SealSession BY <1>5, SealKeepsCaptures
<1>6. ASSUME NEW p \in Staff, Report(p) PROVE CaptureInv'
  BY <1>6, ReportKeepsCaptures
<1>7. CASE Acked BY <1>7, AckedKeepsCaptures
<1>8. CASE NotAcked BY <1>8, NotAckedKeepsCaptures
<1>9. CASE PowerCut BY <1>9, PowerCutKeepsCaptures
<1>10. CASE LeaveSession \/ (\E p \in Staff : OpenSession(p)) \/ UNCHANGED rosterVars
  <2>1. /\ UNCHANGED <<ram, flash, fate, reports, reporting, minted>>
        /\ capturing' \in Staff \cup {0, capturing}
    BY <1>10 DEF LeaveSession, OpenSession, rosterVars, rosterBudget
  <2>2. KioskShape'
    BY <2>1 DEF CaptureInv, KioskShape
  <2> QED
    BY <2>1, <2>2, CaptureUntouched
<1> QED
  BY <1>1, <1>2, <1>3, <1>4, <1>5, <1>6, <1>7, <1>8, <1>9, <1>10 DEF RosterNext, TakeRoster

(* A capture sealed at the kiosk is there with its flag or with the broker until *)
(* it was judged, ordered dropped or replaced, for any staff, any pending list   *)
(* and any faults, as long as no session is sealed while a report waits for its  *)
(* ack (drain_reports, keep_session, apply_roster).                              *)
THEOREM CapturesStay ==
  ASSUME ~SlowAck
  PROVE  RosterSpec => []NoCaptureVanishes
<1>1. RosterInit => CaptureInv
  BY CaptureInit
<1>2. CaptureInv /\ [RosterNext]_rosterVars => CaptureInv'
  BY CaptureNext
<1>3. CaptureInv => NoCaptureVanishes
  BY DEF CaptureInv
<1> QED
  BY <1>1, <1>2, <1>3, PTL DEF RosterSpec

(***************************************************************************)
(* Sequences and sets of numbers.                                          *)
(***************************************************************************)

(* A set with 0 that goes on from each number to the next has them all.  The     *)
(* library's induction takes a predicate; a set of the numbers it holds of does.  *)
LEMMA Upwards ==
  ASSUME NEW T, 0 \in T, \A n \in Nat : n \in T => n + 1 \in T
  PROVE  Nat \subseteq T
<1>1. SUFFICES ASSUME Nat \ T # {} PROVE FALSE
  OBVIOUS
<1>2. \E n \in Nat \ T : \A m \in Nat \ T : <<m, n>> \notin OpToRel(<, Nat)
  BY <1>1, NatLessThanWellFounded, WFMin, Zenon
<1>3. PICK n \in Nat \ T : \A m \in Nat \ T : <<m, n>> \notin OpToRel(<, Nat)
  BY <1>2, Zenon
<1>4. ASSUME NEW m \in Nat \ T PROVE n <= m
  <2>1. <<m, n>> \in Nat \X Nat
    BY Zenon
  <2>2. <<m, n>> \notin {pair_ \in Nat \X Nat : pair_[1] < pair_[2]}
    BY <1>3, Zenon DEF OpToRel
  <2> QED
    BY <2>1, <2>2
<1>5. n # 0
  OBVIOUS
<1>6. n - 1 \in Nat /\ n - 1 \in T
  BY <1>4, <1>5
<1> QED
  BY <1>6

(* Two sequences end to end. *)
LEMMA EndToEnd ==
  ASSUME NEW S, NEW front \in Seq(S), NEW back \in Seq(S)
  PROVE  /\ front \o back \in Seq(S)
         /\ Len(front) \in Nat /\ Len(back) \in Nat
         /\ Len(front \o back) = Len(front) + Len(back)
         /\ \A i \in 1..Len(front) : (front \o back)[i] = front[i]
         /\ \A k \in 1..Len(back) : (front \o back)[Len(front) + k] = back[k]
OBVIOUS

(* Some function of the numbers of a stretch as FlattenSeq has it: each pile is     *)
(* the one before it and the next sequence.                                      *)
Piled(seqs, f, n) ==
  \A i \in 1..n : f[i] = IF i = 1 THEN seqs[i] ELSE f[i - 1] \o seqs[i]

(* A pile laid up step by step exists, whatever is laid on it. *)
LEMMA PilesExist ==
  ASSUME NEW S, NEW seqs \in Seq(Seq(S))
  PROVE  \E f \in [1..Len(seqs) -> Seq(S)] : Piled(seqs, f, Len(seqs))
<1> DEFINE T == {n \in Nat : n <= Len(seqs) => \E f \in [1..n -> Seq(S)] : Piled(seqs, f, n)}
<1>1. 0 \in T
  <2>1. [i \in 1..0 |-> <<>>] \in [1..0 -> Seq(S)]
    OBVIOUS
  <2>2. Piled(seqs, [i \in 1..0 |-> <<>>], 0)
    BY DEF Piled
  <2> QED
    BY <2>1, <2>2
<1>2. ASSUME NEW n \in Nat, n \in T PROVE n + 1 \in T
  <2>1. SUFFICES ASSUME n + 1 <= Len(seqs)
        PROVE  \E f \in [1..n + 1 -> Seq(S)] : Piled(seqs, f, n + 1)
    OBVIOUS
  <2>2. PICK g \in [1..n -> Seq(S)] : Piled(seqs, g, n)
    <3>1. n <= Len(seqs)
      BY <2>1
    <3> QED
      BY <1>2, <3>1
  <2> DEFINE f == [i \in 1..n + 1 |->
                     IF i = n + 1 THEN (IF i = 1 THEN seqs[i] ELSE g[i - 1] \o seqs[i]) ELSE g[i]]
  <2>3. ASSUME NEW i \in 1..n + 1 PROVE f[i] \in Seq(S)
    <3>1. seqs[i] \in Seq(S)
      BY <2>1
    <3>2. i # 1 => i - 1 \in 1..n
      BY <2>1
    <3>3. i # n + 1 => i \in 1..n
      BY <2>1
    <3>4. i # 1 => g[i - 1] \in Seq(S)
      BY <3>2, <2>2
    <3>5. i # 1 => g[i - 1] \o seqs[i] \in Seq(S)
      BY <3>4, <3>1
    <3> QED
      BY <3>1, <3>5, <3>3, <2>2
  <2>4. ASSUME NEW i \in 1..n + 1
        PROVE  f[i] = IF i = 1 THEN seqs[i] ELSE f[i - 1] \o seqs[i]
    <3>1. i # 1 => f[i - 1] = g[i - 1]
      OBVIOUS
    <3>2. CASE i = n + 1
      BY <3>1, <3>2
    <3>3. CASE i \in 1..n
      BY <3>1, <3>3, <2>2 DEF Piled
    <3> QED
      BY <3>2, <3>3
  <2>5. Piled(seqs, f, n + 1)
    BY <2>4 DEF Piled
  <2>6. f \in [1..n + 1 -> Seq(S)]
    BY <2>3
  <2> QED
    BY <2>5, <2>6
<1>3. Len(seqs) \in T
  <2> HIDE DEF T
  <2> QED
    BY <1>1, <1>2, Upwards
<1> QED
  BY <1>3

(* FlattenSeq lays each part of its argument on what came before. *)
LEMMA FlattenSeqIsAPile ==
  ASSUME NEW S, NEW seqs \in Seq(Seq(S)), seqs # <<>>
  PROVE  \E f \in [1..Len(seqs) -> Seq(S)] :
            Piled(seqs, f, Len(seqs)) /\ FlattenSeq(seqs) = f[Len(seqs)]
<1> DEFINE G(f) == [i \in 1..Len(seqs) |-> IF i = 1 THEN seqs[i] ELSE f[i - 1] \o seqs[i]]
           F == CHOOSE f : f = G(f)
<1>1. PICK f \in [1..Len(seqs) -> Seq(S)] : Piled(seqs, f, Len(seqs))
  BY PilesExist
<1>2. f = G(f)
  BY <1>1 DEF Piled
<1>3. F = G(F)
  <2> HIDE DEF G
  <2> QED
    BY <1>2
<1>4. FlattenSeq(seqs) = F[Len(seqs)]
  BY DEF FlattenSeq
<1> HIDE DEF F
<1>5. Piled(seqs, F, Len(seqs))
  BY <1>3 DEF Piled
<1> DEFINE T == {n \in Nat : n \in 1..Len(seqs) => F[n] \in Seq(S)}
<1>6. ASSUME NEW n \in Nat, n \in T PROVE n + 1 \in T
  <2>1. SUFFICES ASSUME n + 1 \in 1..Len(seqs) PROVE F[n + 1] \in Seq(S)
    OBVIOUS
  <2>2. seqs[n + 1] \in Seq(S)
    BY <2>1
  <2>3. F[n + 1] = IF n + 1 = 1 THEN seqs[n + 1] ELSE F[(n + 1) - 1] \o seqs[n + 1]
    BY <1>5, <2>1 DEF Piled
  <2>4. CASE n = 0
    BY <2>4, <2>2, <2>3
  <2>5. CASE n # 0
    <3>1. F[n] \in Seq(S)
      BY <2>5, <1>6, <2>1
    <3>2. F[n + 1] = F[n] \o seqs[n + 1]
      <4>1. n + 1 # 1 /\ (n + 1) - 1 = n
        BY <2>5
      <4> QED
        BY <4>1, <2>3, Zenon
    <3> QED
      BY <3>1, <3>2, <2>2
  <2> QED
    BY <2>4, <2>5
<1>7. \A n \in 1..Len(seqs) : F[n] \in Seq(S)
  <2>1. 0 \in T
    OBVIOUS
  <2>2. Nat \subseteq T
    <3> HIDE DEF T
    <3> QED
      BY <2>1, <1>6, Upwards
  <2> QED
    BY <2>2
<1>8. F \in [1..Len(seqs) -> Seq(S)]
  BY <1>3, <1>7
<1> QED
  BY <1>4, <1>5, <1>8

(* Where the sequences lie in the whole of them: at[i] places come before the      *)
(* i-th, no place is in none of them, and they keep their order.                  *)
LaidOut(seqs, flat, at) ==
  /\ \A i \in 1..Len(seqs) : at[i] \in Nat
  /\ \A i \in 1..Len(seqs) : \A k \in 1..Len(seqs[i]) :
       at[i] + k \in 1..Len(flat) /\ flat[at[i] + k] = seqs[i][k]
  /\ \A j \in 1..Len(flat) : \E i \in 1..Len(seqs) : \E k \in 1..Len(seqs[i]) : j = at[i] + k
  /\ \A i, later \in 1..Len(seqs) : i < later => at[i] + Len(seqs[i]) <= at[later]

(* The same of the first n sequences and their pile f[n]; size and high are the    *)
(* lengths of the sequences and of the piles.                                    *)
LaidUpto(seqs, f, size, high, at, n) ==
  /\ high[n] = at[n] + size[n]
  /\ \A i \in 1..n : \A k \in 1..size[i] :
       at[i] + k \in 1..high[n] /\ f[n][at[i] + k] = seqs[i][k]
  /\ \A j \in 1..high[n] : \E i \in 1..n : \E k \in 1..size[i] : j = at[i] + k
  /\ \A i \in 1..n : at[i] + size[i] <= high[n]
  /\ \A i, later \in 1..n : i < later => at[i] + size[i] <= at[later]

(* Each part of a pile ends where the next begins. *)
LEMMA LaidUptoTheNext ==
  ASSUME NEW seqs, NEW f, NEW size, NEW high, NEW at, NEW n \in Nat,
         \A i \in 1..n + 1 : at[i] \in Nat /\ size[i] \in Nat,
         high[n] \in Nat, at[n + 1] = high[n], high[n + 1] = high[n] + size[n + 1],
         \A j \in 1..high[n] : f[n + 1][j] = f[n][j],
         \A k \in 1..size[n + 1] : f[n + 1][high[n] + k] = seqs[n + 1][k],
         LaidUpto(seqs, f, size, high, at, n)
  PROVE  LaidUpto(seqs, f, size, high, at, n + 1)
<1>1. 1..n + 1 = 1..n \cup {n + 1} /\ size[n + 1] \in Nat
  OBVIOUS
<1>2. ASSUME NEW i \in 1..n + 1, NEW k \in 1..size[i]
      PROVE  at[i] + k \in 1..high[n + 1] /\ f[n + 1][at[i] + k] = seqs[i][k]
  <2>1. CASE i \in 1..n
    <3>1. at[i] + k \in 1..high[n] /\ f[n][at[i] + k] = seqs[i][k]
      BY <2>1 DEF LaidUpto
    <3> QED
      BY <3>1, <1>1
  <2>2. CASE i = n + 1
    BY <2>2, <1>1
  <2> QED
    BY <2>1, <2>2, <1>1
<1>3. ASSUME NEW j \in 1..high[n + 1]
      PROVE  \E i \in 1..n + 1 : \E k \in 1..size[i] : j = at[i] + k
  <2>1. CASE j \in 1..high[n]
    <3>1. \E i \in 1..n : \E k \in 1..size[i] : j = at[i] + k
      BY <2>1 DEF LaidUpto
    <3> QED
      BY <3>1, <1>1
  <2>2. CASE j \notin 1..high[n]
    <3>1. j - high[n] \in 1..size[n + 1] /\ j = at[n + 1] + (j - high[n])
      BY <2>2, <1>1
    <3>2. n + 1 \in 1..n + 1
      OBVIOUS
    <3> QED
      BY <3>1, <3>2
  <2> QED
    BY <2>1, <2>2
<1>4. ASSUME NEW i \in 1..n + 1 PROVE at[i] + size[i] <= high[n + 1]
  <2>1. CASE i \in 1..n
    <3>1. at[i] + size[i] <= high[n]
      BY <2>1 DEF LaidUpto
    <3> QED
      BY <2>1, <3>1, <1>1
  <2>2. CASE i = n + 1
    BY <2>2, <1>1
  <2> QED
    BY <2>1, <2>2, <1>1
<1>5. ASSUME NEW i \in 1..n + 1, NEW later \in 1..n + 1, i < later
      PROVE  at[i] + size[i] <= at[later]
  <2>1. i \in 1..n
    BY <1>5
  <2>2. CASE later \in 1..n
    BY <2>1, <2>2, <1>5 DEF LaidUpto
  <2>3. CASE later = n + 1
    BY <2>1, <2>3 DEF LaidUpto
  <2> QED
    BY <2>2, <2>3, <1>1
<1>6. high[n + 1] = at[n + 1] + size[n + 1]
  OBVIOUS
<1> QED
  BY <1>2, <1>3, <1>4, <1>5, <1>6 DEF LaidUpto

(* FlattenSeq lays its parts end to end: every place of it is a place of one part. *)
LEMMA FlattenSeqLaysOut ==
  ASSUME NEW S, NEW seqs \in Seq(Seq(S))
  PROVE  /\ FlattenSeq(seqs) \in Seq(S)
         /\ \E at : LaidOut(seqs, FlattenSeq(seqs), at)
<1>1. CASE seqs = <<>>
  <2>1. FlattenSeq(seqs) = <<>>
    BY <1>1 DEF FlattenSeq
  <2>2. LaidOut(seqs, <<>>, <<>>)
    BY <1>1 DEF LaidOut
  <2> QED
    BY <2>1, <2>2
<1>2. CASE seqs # <<>>
  <2>1. PICK f \in [1..Len(seqs) -> Seq(S)] :
           Piled(seqs, f, Len(seqs)) /\ FlattenSeq(seqs) = f[Len(seqs)]
    BY <1>2, FlattenSeqIsAPile
  <2>2. PICK at : at = [i \in 1..Len(seqs) |-> IF i = 1 THEN 0 ELSE Len(f[i - 1])]
    OBVIOUS
  <2>3. Len(seqs) \in Nat /\ Len(seqs) >= 1
    BY <1>2
  <2>4. ASSUME NEW i \in 1..Len(seqs) PROVE seqs[i] \in Seq(S) /\ Len(seqs[i]) \in Nat
    OBVIOUS
  <2>5. ASSUME NEW i \in 1..Len(seqs) PROVE f[i] \in Seq(S) /\ Len(f[i]) \in Nat
    <3>1. f[i] \in Seq(S)
      OBVIOUS
    <3> QED
      BY <3>1, LenProperties
  <2> DEFINE size == [i \in 1..Len(seqs) |-> Len(seqs[i])]
             high == [i \in 1..Len(seqs) |-> Len(f[i])]
  <2>6. ASSUME NEW i \in 1..Len(seqs) PROVE at[i] \in Nat
    <3>1. i # 1 => i - 1 \in 1..Len(seqs)
      BY <2>3
    <3> QED
      BY <2>2, <2>5, <3>1
  <2> DEFINE T == {n \in Nat : n \in 1..Len(seqs) => LaidUpto(seqs, f, size, high, at, n)}
  <2>7. ASSUME NEW n \in Nat, n \in T PROVE n + 1 \in T
    <3>1. SUFFICES ASSUME n + 1 \in 1..Len(seqs) PROVE LaidUpto(seqs, f, size, high, at, n + 1)
      OBVIOUS
    <3>2. f[n + 1] = IF n + 1 = 1 THEN seqs[n + 1] ELSE f[(n + 1) - 1] \o seqs[n + 1]
      BY <3>1, <2>1 DEF Piled
    <3>3. CASE n = 0
      <4>1. f[1] = seqs[1] /\ at[1] = 0
        BY <3>3, <3>2, <2>2, <2>3
      <4>2. size[1] = Len(seqs[1]) /\ high[1] = size[1] /\ size[1] \in Nat
        BY <2>3, <2>4, <4>1
      <4>3. LaidUpto(seqs, f, size, high, at, 1)
        <5> HIDE DEF size, high
        <5> QED
          BY <4>1, <4>2 DEF LaidUpto
      <4> QED
        BY <3>3, <4>3
    <3>4. CASE n # 0
      <4>1. n \in 1..Len(seqs) /\ n + 1 # 1 /\ (n + 1) - 1 = n
        BY <3>1, <3>4
      <4>2. LaidUpto(seqs, f, size, high, at, n)
        BY <4>1, <2>7
      <4>3. f[n + 1] = f[n] \o seqs[n + 1] /\ at[n + 1] = Len(f[n])
        BY <4>1, <3>1, <3>2, <2>2, Zenon
      <4>4. f[n] \in Seq(S) /\ seqs[n + 1] \in Seq(S)
        BY <4>1, <3>1, <2>4, <2>5, Zenon
      <4>5. /\ Len(f[n + 1]) = Len(f[n]) + Len(seqs[n + 1])
            /\ \A j \in 1..Len(f[n]) : f[n + 1][j] = f[n][j]
            /\ \A k \in 1..Len(seqs[n + 1]) : f[n + 1][Len(f[n]) + k] = seqs[n + 1][k]
        <5>1. PICK front, back : front = f[n] /\ back = seqs[n + 1]
          OBVIOUS
        <5>2. front \in Seq(S) /\ back \in Seq(S) /\ f[n + 1] = front \o back
          BY <4>3, <4>4, <5>1, Zenon
        <5>3. /\ Len(front \o back) = Len(front) + Len(back)
              /\ \A j \in 1..Len(front) : (front \o back)[j] = front[j]
              /\ \A k \in 1..Len(back) : (front \o back)[Len(front) + k] = back[k]
          <6> HIDE <2>1, <2>4, <2>5, <2>6
          <6> QED
            BY <5>2, EndToEnd, SMT
        <5> QED
          BY <5>1, <5>2, <5>3, Zenon
      <4>6. /\ high[n] = Len(f[n]) /\ high[n + 1] = Len(f[n + 1])
            /\ size[n + 1] = Len(seqs[n + 1]) /\ high[n] \in Nat
        BY <4>1, <3>1, <2>5
      <4>7. \A i \in 1..n + 1 : at[i] \in Nat /\ size[i] \in Nat
        <5>1. \A i \in 1..n + 1 : i \in 1..Len(seqs)
          BY <3>1
        <5> QED
          BY <5>1, <2>4, <2>6
      <4> HIDE DEF T, size, high
      <4> QED
        BY <4>2, <4>3, <4>5, <4>6, <4>7, LaidUptoTheNext, Zenon
    <3> QED
      BY <3>3, <3>4
  <2>8. LaidUpto(seqs, f, size, high, at, Len(seqs))
    <3>1. 0 \in T
      OBVIOUS
    <3>2. Nat \subseteq T
      <4> HIDE DEF T
      <4> QED
        BY <3>1, <2>7, Upwards
    <3>3. Len(seqs) \in T
      BY <3>2, <2>3
    <3> QED
      BY <3>3, <2>3
  <2>9. LaidOut(seqs, f[Len(seqs)], at)
    <3>1. \A i \in 1..Len(seqs) : size[i] = Len(seqs[i])
      OBVIOUS
    <3>2. high[Len(seqs)] = Len(f[Len(seqs)])
      BY <2>3
    <3> HIDE DEF size, high
    <3> DEFINE top == Len(seqs)
               flat == f[top]
    <3>3. /\ \A i \in 1..top : \A k \in 1..size[i] :
               at[i] + k \in 1..Len(flat) /\ flat[at[i] + k] = seqs[i][k]
          /\ \A j \in 1..Len(flat) : \E i \in 1..top : \E k \in 1..size[i] : j = at[i] + k
          /\ \A i, later \in 1..top : i < later => at[i] + size[i] <= at[later]
      <4>1. LaidUpto(seqs, f, size, high, at, top) /\ high[top] = Len(flat) /\ f[top] = flat
        BY <2>8, <3>2, Zenon
      <4> HIDE DEF top, flat
      <4>2. /\ \A i \in 1..top : \A k \in 1..size[i] :
                 at[i] + k \in 1..high[top] /\ f[top][at[i] + k] = seqs[i][k]
            /\ \A j \in 1..high[top] : \E i \in 1..top : \E k \in 1..size[i] : j = at[i] + k
            /\ \A i, later \in 1..top : i < later => at[i] + size[i] <= at[later]
        BY <4>1, Zenon DEF LaidUpto
      <4>3. high[top] = Len(flat) /\ f[top] = flat
        BY <4>1, Zenon
      <4> QED
        BY <4>2, <4>3, Zenon
    <3> HIDE DEF top, flat
    <3>4. \A i \in 1..top : at[i] \in Nat /\ size[i] = Len(seqs[i])
      BY <2>6, <3>1, Zenon DEF top
    <3>5. \A i \in 1..top : \A k \in 1..Len(seqs[i]) :
               at[i] + k \in 1..Len(flat) /\ flat[at[i] + k] = seqs[i][k]
      BY <3>3, <3>4, Zenon
    <3>6. \A j \in 1..Len(flat) : \E i \in 1..top : \E k \in 1..Len(seqs[i]) : j = at[i] + k
      BY <3>3, <3>4, Zenon
    <3>7. \A i, later \in 1..top : i < later => at[i] + Len(seqs[i]) <= at[later]
      BY <3>3, <3>4, Zenon
    <3> QED
      BY <3>4, <3>5, <3>6, <3>7, Zenon DEF LaidOut, top, flat
  <2> QED
    BY <2>1, <2>3, <2>5, <2>9
<1> QED
  BY <1>1, <1>2

(* One message and another. *)
LEMMA OneAndAnother ==
  ASSUME NEW S, NEW a \in S, NEW b \in S
  PROVE  <<a>> \o <<b>> = <<a, b>>
<1>1. <<a>> \in Seq(S) /\ <<b>> \in Seq(S)
  OBVIOUS
<1>2. /\ <<a>> \o <<b>> \in Seq(S) /\ Len(<<a>> \o <<b>>) = 2
      /\ (<<a>> \o <<b>>)[1] = a /\ (<<a>> \o <<b>>)[2] = b
  BY <1>1
<1>3. PICK s \in Seq(S) : s = <<a>> \o <<b>>
  BY <1>2
<1>4. Len(s) = 2 /\ s[1] = a /\ s[2] = b
  BY <1>2, <1>3
<1>5. s = [i \in 1..2 |-> s[i]]
  BY <1>4
<1>6. \A i \in 1..2 : i = 1 \/ i = 2
  OBVIOUS
<1>7. s = <<a, b>>
  BY <1>4, <1>5, <1>6
<1> QED
  BY <1>3, <1>7

(* How many of a set of numbers are no higher: no two share it. *)
Rank(S, n) == Cardinality({m \in S : m <= n})

(* A greater number has more of the set at or below it. *)
LEMMA RankGrows ==
  ASSUME NEW S \in SUBSET Nat, IsFiniteSet(S), NEW low \in S, NEW top \in S, low < top
  PROVE  Rank(S, low) \in Nat /\ Rank(S, top) \in Nat /\ Rank(S, low) < Rank(S, top)
<1> DEFINE L == {m \in S : m <= low}
           T == {m \in S : m <= top}
<1>0. low \in Nat /\ top \in Nat /\ \A m \in S : m \in Nat
  OBVIOUS
<1>1. L \in SUBSET T /\ top \in T /\ top \notin L /\ T \in SUBSET S
  <2>1. \A m \in L : m \in T
    BY <1>0
  <2>2. top \in T /\ top \notin L
    BY <1>0
  <2>3. \A m \in T : m \in S
    OBVIOUS
  <2> HIDE DEF L, T
  <2> QED
    BY <2>1, <2>2, <2>3, Zenon
<1>2. IsFiniteSet(T)
  BY <1>1, FS_Subset
<1>3. Cardinality(L) <= Cardinality(T) /\ (Cardinality(T) = Cardinality(L) => T = L)
  BY <1>1, <1>2, FS_Subset
<1>4. Cardinality(T) \in Nat /\ Cardinality(L) \in Nat
  BY <1>1, <1>2, FS_Subset, FS_CardinalityType
<1>5. T # L
  BY <1>1
<1>6. Rank(S, low) = Cardinality(L) /\ Rank(S, top) = Cardinality(T)
  BY DEF Rank
<1> HIDE DEF L, T
<1> QED
  BY <1>3, <1>4, <1>5, <1>6

(* The ranks of a finite set run from one to its size. *)
LEMMA RankCounts ==
  ASSUME NEW S \in SUBSET Nat, IsFiniteSet(S), NEW n \in S
  PROVE  Rank(S, n) \in 1..Cardinality(S)
<1> DEFINE T == {m \in S : m <= n}
<1>1. T \in SUBSET S /\ n \in T
  OBVIOUS
<1>2. IsFiniteSet(T) /\ Cardinality(T) <= Cardinality(S)
  BY <1>1, FS_Subset
<1>3. Cardinality(T) \in Nat /\ Cardinality(S) \in Nat
  BY <1>2, FS_CardinalityType
<1>4. Cardinality(T) # 0
  BY <1>1, <1>2, FS_EmptySet
<1>5. Rank(S, n) = Cardinality(T)
  BY DEF Rank
<1> HIDE DEF T
<1> QED
  BY <1>2, <1>3, <1>4, <1>5

(* Nth(S, i) is the element with i of them no higher, and there is one for each i.  *)
LEMMA NthIsThere ==
  ASSUME NEW S \in SUBSET Nat, IsFiniteSet(S), NEW i \in 1..Cardinality(S)
  PROVE  Nth(S, i) \in S /\ Rank(S, Nth(S, i)) = i
<1>1. Cardinality(S) \in Nat
  BY FS_CardinalityType
<1> DEFINE N == Cardinality(S)
           f == [n \in S |-> Rank(S, n)]
<1>2. f \in [S -> 1..N]
  BY RankCounts
<1>3. ASSUME NEW m \in S, NEW n \in S, f[m] = f[n] PROVE m = n
  <2>1. Rank(S, m) = Rank(S, n)
    BY <1>3
  <2>2. m \in Nat /\ n \in Nat
    OBVIOUS
  <2>3. ~(m < n)
    BY <2>1, RankGrows
  <2>4. ~(n < m)
    BY <2>1, RankGrows
  <2> QED
    BY <2>2, <2>3, <2>4
<1>4. IsFiniteSet(1..N) /\ Cardinality(1..N) = N
  BY <1>1, FS_Interval
<1>5. f \in Injection(S, 1..N)
  BY <1>2, <1>3 DEF Injection, IsInjective
<1>6. f \in Surjection(S, 1..N)
  BY <1>4, <1>5, FS_Injection
<1>7. \E n \in S : f[n] = i
  BY <1>6 DEF Surjection
<1>8. \E n \in S : Cardinality({m \in S : m <= n}) = i
  BY <1>7 DEF Rank
<1> QED
  BY <1>8 DEF Nth, Rank

(* A later place in the order is a greater number. *)
LEMMA NthGrows ==
  ASSUME NEW S \in SUBSET Nat, IsFiniteSet(S),
         NEW i \in 1..Cardinality(S), NEW j \in 1..Cardinality(S), i < j
  PROVE  Nth(S, i) < Nth(S, j)
<1>1. /\ Nth(S, i) \in S /\ Rank(S, Nth(S, i)) = i
      /\ Nth(S, j) \in S /\ Rank(S, Nth(S, j)) = j
  BY NthIsThere
<1>2. Nth(S, i) \in Nat /\ Nth(S, j) \in Nat /\ i \in Nat /\ j \in Nat
  <2>1. Cardinality(S) \in Nat
    BY FS_CardinalityType
  <2>2. i \in Nat /\ j \in Nat
    BY <2>1
  <2> QED
    BY <1>1, <2>2, Zenon
<1>3. ~(Nth(S, j) < Nth(S, i))
  BY <1>1, <1>2, RankGrows
<1>4. Nth(S, j) # Nth(S, i)
  BY <1>1, <1>2
<1> QED
  BY <1>2, <1>3, <1>4

(* Every number of the set has a place in the order. *)
LEMMA NthIsOnto ==
  ASSUME NEW S \in SUBSET Nat, IsFiniteSet(S), NEW n \in S
  PROVE  \E i \in 1..Cardinality(S) : Nth(S, i) = n
<1> DEFINE i == Rank(S, n)
<1>1. i \in 1..Cardinality(S)
  BY RankCounts
<1>2. Nth(S, i) \in S /\ Rank(S, Nth(S, i)) = i
  BY <1>1, NthIsThere
<1>3. n \in Nat /\ Nth(S, i) \in Nat
  BY <1>2, Zenon
<1>4. ~(n < Nth(S, i)) /\ ~(Nth(S, i) < n)
  <2>1. PICK k : k = Nth(S, i)
    OBVIOUS
  <2>2. k \in S /\ Rank(S, k) = Rank(S, n)
    BY <1>2, <2>1
  <2>3. ~(n < k) /\ ~(k < n)
    BY <2>2, RankGrows
  <2> QED
    BY <2>1, <2>3
<1> QED
  BY <1>1, <1>3, <1>4

(* Of the numbers up to n, those up to i are i. *)
LEMMA AllOfThem ==
  ASSUME NEW n \in Nat
  PROVE  IsFiniteSet(1..n) /\ Cardinality(1..n) = n /\ 1..n \in SUBSET Nat
BY FS_Interval

(* The i-th of the numbers up to n is i. *)
LEMMA NthOfAll ==
  ASSUME NEW n \in Nat, NEW i \in 1..n
  PROVE  Nth(1..n, i) = i
<1>1. IsFiniteSet(1..n) /\ Cardinality(1..n) = n /\ 1..n \in SUBSET Nat
  BY FS_Interval
<1>2. Nth(1..n, i) \in 1..n /\ Rank(1..n, Nth(1..n, i)) = i
  BY <1>1, NthIsThere
<1> DEFINE j == Nth(1..n, i)
<1>3. {m \in 1..n : m <= j} = 1..j
  BY <1>2
<1>4. Cardinality(1..j) = j
  BY <1>2, FS_Interval
<1> QED
  BY <1>2, <1>3, <1>4 DEF Rank

(***************************************************************************)
(* The messages of a door, and what of them arrives.                       *)
(***************************************************************************)
LEMMA NumberedShape ==
  ASSUME NEW bodies \in Seq(Message), NEW after \in Nat
  PROVE  /\ Numbered(bodies, after) \in Seq(Message)
         /\ Len(Numbered(bodies, after)) = Len(bodies)
         /\ \A i \in 1..Len(bodies) :
              Numbered(bodies, after)[i] = [bodies[i] EXCEPT !.number = after + i]
<1>1. Len(bodies) \in Nat /\ DOMAIN bodies = 1..Len(bodies)
  OBVIOUS
<1>2. ASSUME NEW i \in 1..Len(bodies) PROVE [bodies[i] EXCEPT !.number = after + i] \in Message
  <2>1. bodies[i] \in Message
    OBVIOUS
  <2>2. after + i \in Nat
    BY <1>1
  <2> QED
    BY <2>1, <2>2 DEF Message
<1>3. Numbered(bodies, after) = [i \in 1..Len(bodies) |-> [bodies[i] EXCEPT !.number = after + i]]
  BY <1>1 DEF Numbered
<1>4. Numbered(bodies, after) \in [1..Len(bodies) -> Message]
  BY <1>2, <1>3
<1> QED
  BY <1>1, <1>3, <1>4

(* What arrives of the messages, in their order: got[i] is the one at from[i].     *)
Arrives(bodies, after, got, from) ==
  /\ got \in Seq(Message) /\ Len(got) \in Nat /\ Len(got) <= Len(bodies)
  /\ \A i \in 1..Len(got) :
       from[i] \in 1..Len(bodies) /\ got[i] = [bodies[from[i]] EXCEPT !.number = after + from[i]]
  /\ \A i, j \in 1..Len(got) : i < j => from[i] < from[j]
  /\ Len(got) = Len(bodies) => \A i \in 1..Len(got) : from[i] = i

(* What deliver puts on the lane is what was said, less the places lost, in its order. *)
LEMMA DeliverShape ==
  ASSUME RosterTypeOK, NEW bodies \in Seq(Message), NEW after \in Nat,
         NEW gone \in SUBSET (DOMAIN bodies), Deliver(Numbered(bodies, after), gone)
  PROVE  /\ rosterFaults' \in 0..MaxRosterFaults
         /\ \E got, from : Arrives(bodies, after, got, from) /\ lane' = lane \o got
<1> DEFINE sent == Numbered(bodies, after)
           n == Len(bodies)
           kept == (DOMAIN sent) \ gone
           got == [i \in 1..Cardinality(kept) |-> sent[Nth(kept, i)]]
           from == [i \in 1..Cardinality(kept) |-> Nth(kept, i)]
<1>1. n \in Nat /\ DOMAIN bodies = 1..n /\ DOMAIN sent = 1..n
  BY DEF Numbered
<1>2. IsFiniteSet(1..n) /\ Cardinality(1..n) = n /\ 1..n \in SUBSET Nat
  BY <1>1, AllOfThem, Zenon
<1>3. kept \in SUBSET (1..n) /\ gone \in SUBSET (1..n)
  BY <1>1
<1>4. /\ IsFiniteSet(kept) /\ Cardinality(kept) <= n /\ (Cardinality(kept) = n => kept = 1..n)
      /\ IsFiniteSet(gone)
  BY <1>2, <1>3, FS_Subset
<1>5. Cardinality(kept) \in Nat /\ Cardinality(gone) \in Nat /\ kept \in SUBSET Nat
  BY <1>2, <1>3, <1>4, FS_CardinalityType
<1>6. rosterFaults' \in 0..MaxRosterFaults
  <2>1. rosterFaults \in Nat /\ MaxRosterFaults \in Nat
    BY RosterAssumption DEF RosterTypeOK
  <2>2. /\ rosterFaults + Cardinality(gone) <= MaxRosterFaults
        /\ rosterFaults' = rosterFaults + Cardinality(gone)
    BY DEF Deliver
  <2> QED
    BY <1>5, <2>1, <2>2
<1>7. lane' = lane \o got
  BY DEF Deliver
<1>8. sent \in Seq(Message) /\ \A k \in 1..n : sent[k] = [bodies[k] EXCEPT !.number = after + k]
  BY NumberedShape
<1>9. ASSUME NEW i \in 1..Cardinality(kept)
      PROVE  /\ from[i] \in 1..n /\ got[i] = [bodies[from[i]] EXCEPT !.number = after + from[i]]
             /\ got[i] \in Message
  <2>1. Nth(kept, i) \in kept
    BY <1>4, <1>5, NthIsThere
  <2>2. Nth(kept, i) \in 1..n
    BY <1>3, <2>1
  <2> HIDE DEF sent, kept
  <2>3. sent[Nth(kept, i)] \in Message
    BY <1>1, <1>8, <2>2
  <2> QED
    BY <1>8, <2>2, <2>3
<1>10. ASSUME NEW i \in 1..Cardinality(kept), NEW j \in 1..Cardinality(kept), i < j
       PROVE  from[i] < from[j]
  BY <1>4, <1>5, <1>10, NthGrows
<1>11. ASSUME Cardinality(kept) = n, NEW i \in 1..n PROVE from[i] = i
  <2>1. kept = 1..n
    BY <1>4, <1>11
  <2> QED
    BY <1>1, <1>11, <2>1, NthOfAll
<1> HIDE DEF kept, sent
<1>12. got \in Seq(Message) /\ Len(got) = Cardinality(kept)
  <2>1. got \in [1..Cardinality(kept) -> Message]
    BY <1>9
  <2>2. PICK c : c = Cardinality(kept)
    OBVIOUS
  <2>3. c \in Nat /\ got \in [1..c -> Message]
    BY <1>5, <2>1, <2>2
  <2> HIDE DEF got
  <2> QED
    BY <2>2, <2>3
<1> HIDE DEF got, from
<1>13. Arrives(bodies, after, got, from)
  BY <1>4, <1>5, <1>9, <1>10, <1>11, <1>12 DEF Arrives
<1> QED
  BY <1>6, <1>7, <1>13

(* The bodies the server makes are messages. *)
LEMMA BodiesAreMessages ==
  ASSUME NEW p \in Staff, NEW f \in Faces
  PROVE  /\ Ask(p) \in Message /\ Upsert(p, f) \in Message /\ Drop(p) \in Message
         /\ StartOver \in Message
         /\ <<>> \in Seq(Message) /\ <<Ask(p)>> \in Seq(Message) /\ <<Drop(p)>> \in Seq(Message)
         /\ <<Upsert(p, f)>> \in Seq(Message) /\ <<Drop(p), Upsert(p, f)>> \in Seq(Message)
         /\ <<StartOver>> \in Seq(Message)
<1>1. 0 \in Faces
  BY RosterAssumption DEF Faces
<1>2. Ask(p) \in Message
  BY <1>1 DEF Ask, Message
<1>3. Upsert(p, f) \in Message
  BY DEF Upsert, Message
<1>4. Drop(p) \in Message
  BY <1>1 DEF Drop, Message
<1>5. StartOver \in Message
  BY <1>1 DEF StartOver, Message
<1> QED
  BY <1>2, <1>3, <1>4, <1>5

(* The rows of a door. *)
Rowset == [number : Nat, pair : [Staff -> Pairs], face : [Staff -> Faces],
           run : [from : Nat, heard : Nat]]

(* An order spends one number a message, and what is not lost joins the lane. *)
LEMMA TellShape ==
  ASSUME RosterTypeOK, NEW rowset \in Rowset, NEW bodies \in Seq(Message), Tell(rowset, bodies)
  PROVE  /\ server' = [rowset EXCEPT !.number = server.number + Len(bodies)]
         /\ server' \in Rowset /\ lane' \in Seq(Message)
         /\ rosterFaults' \in 0..MaxRosterFaults
         /\ \E got, from : Arrives(bodies, server.number, got, from) /\ lane' = lane \o got
<1>1. server.number \in Nat /\ Len(bodies) \in Nat /\ lane \in Seq(Message)
  BY DEF RosterTypeOK
<1>2. server' = [rowset EXCEPT !.number = server.number + Len(bodies)]
  BY DEF Tell
<1>3. server' \in Rowset
  <2>1. PICK top \in Nat : top = server.number + Len(bodies)
    BY <1>1
  <2>2. server' = [rowset EXCEPT !.number = top]
    BY <1>2, <2>1
  <2> QED
    BY <2>2 DEF Rowset
<1>4. PICK gone \in SUBSET (DOMAIN bodies) : Deliver(Numbered(bodies, server.number), gone)
  BY DEF Tell
<1>5. /\ rosterFaults' \in 0..MaxRosterFaults
      /\ \E got, from : Arrives(bodies, server.number, got, from) /\ lane' = lane \o got
  BY <1>1, <1>4, DeliverShape
<1>6. lane' \in Seq(Message)
  BY <1>1, <1>5 DEF Arrives
<1> QED
  BY <1>2, <1>3, <1>5, <1>6

(* What a replay sends behind its REPLACE_ALL: each person's standing, in order.  *)
Standings == [i \in 1..Cardinality(Staff) |-> Standing(Nth(Staff, i))]
\* Behind its REPLACE_ALL, everybody in the order of their numbers.
Everybody == FlattenSeq(Standings)

(* What a replay says of one person is a sequence of messages. *)
LEMMA StandingShape ==
  ASSUME server \in Rowset, NEW p \in Staff
  PROVE  Standing(p) \in Seq(Message)
<1>1. server.face[p] \in Faces
  BY DEF Rowset
<1> DEFINE up == IF server.face[p] # 0 THEN <<Upsert(p, server.face[p])>> ELSE <<>>
           ask == IF server.pair[p] # "ENROLLED" \/ server.face[p] = 0 THEN <<Ask(p)>> ELSE <<>>
<1>2. up \in Seq(Message) /\ ask \in Seq(Message) /\ <<>> \in Seq(Message)
  BY <1>1, BodiesAreMessages
<1>3. Standing(p) = IF server.pair[p] \notin Active THEN <<>> ELSE up \o ask
  BY DEF Standing
<1> HIDE DEF up, ask
<1>4. up \o ask \in Seq(Message)
  BY <1>2
<1> QED
  BY <1>2, <1>3, <1>4

(* The staff are finitely many numbers, each with its place. *)
LEMMA StaffIsCounted ==
  /\ Staff \in SUBSET Nat /\ IsFiniteSet(Staff) /\ Cardinality(Staff) \in Nat
  /\ \A i \in 1..Cardinality(Staff) : Nth(Staff, i) \in Staff
<1>1. Staff \in SUBSET Nat /\ IsFiniteSet(Staff)
  BY RosterAssumption
<1>2. Cardinality(Staff) \in Nat
  BY <1>1, FS_CardinalityType
<1>3. \A i \in 1..Cardinality(Staff) : Nth(Staff, i) \in Staff
  BY <1>1, NthIsThere
<1> QED
  BY <1>1, <1>2, <1>3

(* A replay is a REPLACE_ALL and what it says of each person in turn. *)
LEMMA EverybodyShape ==
  ASSUME server \in Rowset
  PROVE  /\ Standings \in Seq(Seq(Message)) /\ Len(Standings) = Cardinality(Staff)
         /\ Everybody \in Seq(Message)
         /\ <<StartOver>> \o Everybody \in Seq(Message)
         /\ Len(Everybody) \in Nat /\ Len(<<StartOver>> \o Everybody) = Len(Everybody) + 1
         /\ (<<StartOver>> \o Everybody)[1] = StartOver
         /\ \A i \in 1..Len(Everybody) : (<<StartOver>> \o Everybody)[i + 1] = Everybody[i]
<1>1. Standings \in [1..Cardinality(Staff) -> Seq(Message)]
  BY StaffIsCounted, StandingShape DEF Standings
<1>2. PICK c \in Nat : c = Cardinality(Staff)
  BY StaffIsCounted
<1>3. Standings \in Seq(Seq(Message)) /\ Len(Standings) = Cardinality(Staff)
  BY <1>1, <1>2
<1>4. Everybody \in Seq(Message)
  BY <1>3, FlattenSeqLaysOut, Zenon DEF Everybody
<1>5. StartOver \in Message
  <2>1. 0 \in Faces /\ 0 \in Nat
    BY RosterAssumption DEF Faces
  <2> QED
    BY <2>1 DEF StartOver, Message
<1> HIDE DEF StartOver
<1>6. PICK rest : rest = Everybody
  OBVIOUS
<1>7. PICK first : first = StartOver
  OBVIOUS
<1>8. /\ <<first>> \o rest \in Seq(Message) /\ Len(rest) \in Nat
      /\ Len(<<first>> \o rest) = Len(rest) + 1
      /\ (<<first>> \o rest)[1] = first
      /\ \A i \in 1..Len(rest) : (<<first>> \o rest)[i + 1] = rest[i]
  <2>1. first \in Message /\ rest \in Seq(Message)
    BY <1>4, <1>5, <1>6, <1>7
  <2> QED
    BY <2>1
<1> QED
  BY <1>3, <1>4, <1>6, <1>7, <1>8, Zenon

(* A replay numbers itself past both sides and leaves no pair enrolled without a face. *)
LEMMA ReplayShape ==
  ASSUME RosterTypeOK, NEW floor \in Nat, Replay(floor)
  PROVE  LET base == ReplayBase(floor)
         IN  /\ base \in Nat /\ base > server.number
             /\ server' \in Rowset /\ lane' \in Seq(Message)
             /\ rosterFaults' \in 0..MaxRosterFaults
             /\ server'.number = base + Len(Everybody) /\ Len(Everybody) \in Nat
             /\ server'.face = server.face
             /\ server'.pair = [p \in Staff |->
                  IF server.face[p] = 0 /\ server.pair[p] \in {"ENROLLED", "RETAKE"}
                  THEN "ASSIGNED" ELSE server.pair[p]]
             /\ \E got, from : /\ Arrives(<<StartOver>> \o Everybody, base - 1, got, from)
                               /\ lane' = lane \o got
<1> DEFINE base == ReplayBase(floor)
           bodies == <<StartOver>> \o Everybody
           pairs == [p \in Staff |->
                       IF server.face[p] = 0 /\ server.pair[p] \in {"ENROLLED", "RETAKE"}
                       THEN "ASSIGNED" ELSE server.pair[p]]
<1>1. server \in Rowset /\ lane \in Seq(Message)
  BY DEF RosterTypeOK, Rowset
<1>2. base \in Nat /\ base > server.number
  BY <1>1 DEF ReplayBase, HighestOf, Rowset
<1>3. /\ bodies \in Seq(Message) /\ Len(Everybody) \in Nat /\ Len(bodies) = Len(Everybody) + 1
  BY <1>1, EverybodyShape
<1>4. PICK threw \in BOOLEAN, gone \in SUBSET (DOMAIN bodies) :
         /\ Deliver(Numbered(bodies, base - 1), gone)
         /\ server' = [server EXCEPT
              !.number = base + Len(bodies) - 1,
              !.pair = pairs,
              !.run = IF threw THEN server.run ELSE [from |-> base, heard |-> 0]]
  BY DEF Replay, Everybody, Standings
<1> HIDE DEF bodies, base
<1>5. pairs \in [Staff -> Pairs]
  BY <1>1 DEF Rowset, Pairs
<1> HIDE DEF pairs
<1>6. base + Len(bodies) - 1 = base + Len(Everybody) /\ base + Len(Everybody) \in Nat
  BY <1>2, <1>3
<1>7. server' \in Rowset /\ server'.number = base + Len(Everybody)
      /\ server'.face = server.face /\ server'.pair = pairs
  BY <1>1, <1>2, <1>4, <1>5, <1>6 DEF Rowset
<1>8. base - 1 \in Nat
  BY <1>1, <1>2 DEF Rowset
<1>9. /\ rosterFaults' \in 0..MaxRosterFaults
      /\ \E got, from : Arrives(bodies, base - 1, got, from) /\ lane' = lane \o got
  BY <1>3, <1>4, <1>8, DeliverShape
<1>10. lane' \in Seq(Message)
  BY <1>1, <1>9 DEF Arrives
<1> QED
  BY <1>2, <1>3, <1>7, <1>9, <1>10 DEF bodies, base, pairs

(* The parts of the type invariant, as the actions touch them. *)
Beat == [number : Nat, old : BOOLEAN]
Sample == [who : Staff, face : Faces \ {0}]
RamType == [table : [Staff -> Record], asks : SUBSET Staff, gapped : BOOLEAN,
            spent : SUBSET Staff, lacks : SUBSET Staff,
            batch : [at : {"none", "taking", "storing"}, held : Nat, changed : BOOLEAN]]
FlashType == [table : [Staff -> Record], asks : SUBSET Staff, held : Nat]
FateType == [Faces -> {"none", "sealed", "judged", "dropped"}]

TypesAre ==
  /\ server \in Rowset /\ backup \in Rows /\ lane \in Seq(Message)
  /\ beats \in Seq(Beat) /\ reports \in Seq(Sample)
  /\ ram \in RamType /\ flash \in FlashType
  /\ capturing \in Staff \cup {0} /\ reporting \in [who : Staff \cup {0}, face : Faces]
  /\ fate \in FateType /\ ops \in 0..MaxOps /\ minted \in Faces
  /\ rosterFaults \in 0..MaxRosterFaults

(* The type invariant, by the names of its parts. *)
LEMMA TypesAreTypes == RosterTypeOK <=> TypesAre
BY DEF RosterTypeOK, TypesAre, Rowset, Beat, Sample, RamType, FlashType, FateType

(* Nobody enrolled is well typed. *)
LEMMA TypesInit == RosterInit => RosterTypeOK
<1> SUFFICES ASSUME RosterInit PROVE TypesAre
  BY TypesAreTypes
<1>1. 0 \in Faces /\ 0 \in 0..MaxOps /\ 0 \in 0..MaxRosterFaults
  BY RosterAssumption DEF Faces
<1>2. server \in Rowset /\ backup \in Rows
  <2>1. minted \in Faces /\ 0 .. minted \subseteq Faces
    BY RosterAssumption DEF RosterInit, Faces
  <2>2. /\ server \in [number : {0}, pair : {[p \in Staff |-> "NONE"]},
                      face : [Staff -> 0 .. minted], run : {NoRun}]
        /\ backup = [number |-> 0, pair |-> [p \in Staff |-> "NONE"], face |-> server.face]
    BY DEF RosterInit
  <2>3. server.face \in [Staff -> Faces]
    BY <2>1, <2>2
  <2> QED
    BY <2>2, <2>3 DEF Rowset, Rows, Pairs, NoRun
<1>3. ram \in RamType /\ flash \in FlashType
  BY <1>1 DEF RosterInit, RamType, FlashType, Record, NoBatch
<1>4. /\ lane \in Seq(Message) /\ beats \in Seq(Beat) /\ reports \in Seq(Sample)
      /\ capturing \in Staff \cup {0} /\ fate \in FateType
      /\ ops \in 0..MaxOps /\ minted \in Faces /\ rosterFaults \in 0..MaxRosterFaults
  BY <1>1 DEF RosterInit, FateType
<1>5. reporting \in [who : Staff \cup {0}, face : Faces]
  BY <1>1 DEF RosterInit, NoReport
<1> QED
  BY <1>2, <1>3, <1>4, <1>5 DEF TypesAre

(* The budgets stay within their bounds. *)
LEMMA FaultsStay ==
  ASSUME TypesAre
  PROVE  /\ Fault => rosterFaults' \in 0..MaxRosterFaults
         /\ NoFault => rosterFaults' \in 0..MaxRosterFaults
         /\ Ordered => ops' \in 0..MaxOps /\ minted' \in Faces
<1>1. rosterFaults \in 0..MaxRosterFaults /\ ops \in 0..MaxOps /\ minted \in Faces
  BY DEF TypesAre
<1>2. MaxRosterFaults \in Nat /\ MaxOps \in Nat
  BY RosterAssumption
<1> QED
  BY <1>1, <1>2 DEF Fault, NoFault, Ordered

(* The dashboard's orders: the rows, and what they send. *)
LEMMA AssignShape ==
  ASSUME server \in Rowset, NEW p \in Staff, Assign(p)
  PROVE  \E next \in Pairs, bodies \in Seq(Message) :
           /\ next = IF server.pair[p] \in {"ENROLLED", "RETAKE"} THEN "RETAKE"
                       ELSE IF server.face[p] # 0 THEN "ENROLLED" ELSE "ASSIGNED"
           /\ bodies = IF next = "ENROLLED" THEN <<Upsert(p, server.face[p])>> ELSE <<Ask(p)>>
           /\ [server EXCEPT !.pair[p] = next] \in Rowset
           /\ Tell([server EXCEPT !.pair[p] = next], bodies)
<1> DEFINE next == IF server.pair[p] \in {"ENROLLED", "RETAKE"} THEN "RETAKE"
                     ELSE IF server.face[p] # 0 THEN "ENROLLED" ELSE "ASSIGNED"
           bodies == IF next = "ENROLLED" THEN <<Upsert(p, server.face[p])>> ELSE <<Ask(p)>>
<1>1. next \in Pairs
  BY DEF Pairs
<1>2. server.face[p] \in Faces
  BY DEF Rowset
<1>3. bodies \in Seq(Message)
  BY <1>2, BodiesAreMessages
<1>4. Tell([server EXCEPT !.pair[p] = next], bodies)
  BY DEF Assign
<1> HIDE DEF next
<1>5. [server EXCEPT !.pair[p] = next] \in Rowset
  BY <1>1 DEF Rowset
<1> QED
  BY <1>1, <1>3, <1>4, <1>5 DEF next

(* An erasure: the rows, and what it sends. *)
LEMMA EraseShape ==
  ASSUME server \in Rowset, NEW p \in Staff, Erase(p)
  PROVE  \E next \in Pairs, bodies \in Seq(Message) :
           /\ next = IF server.pair[p] = "NONE" THEN "NONE" ELSE "REVOKED"
           /\ bodies = IF server.pair[p] = "NONE" THEN <<>> ELSE <<Drop(p)>>
           /\ [server EXCEPT !.face[p] = 0, !.pair[p] = next] \in Rowset
           /\ Tell([server EXCEPT !.face[p] = 0, !.pair[p] = next], bodies)
<1> DEFINE next == IF server.pair[p] = "NONE" THEN "NONE" ELSE "REVOKED"
           bodies == IF server.pair[p] = "NONE" THEN <<>> ELSE <<Drop(p)>>
<1>1. next \in Pairs
  BY DEF Pairs
<1>2. 0 \in Faces
  BY RosterAssumption DEF Faces
<1>3. bodies \in Seq(Message)
  BY <1>2, BodiesAreMessages
<1>4. [server EXCEPT !.face[p] = 0,
                     !.pair[p] = IF @ = "NONE" THEN @ ELSE "REVOKED"]
        = [server EXCEPT !.face[p] = 0, !.pair[p] = next]
  BY DEF Rowset
<1>5. Tell([server EXCEPT !.face[p] = 0, !.pair[p] = next], bodies)
  BY <1>4 DEF Erase
<1> HIDE DEF next
<1>6. [server EXCEPT !.face[p] = 0, !.pair[p] = next] \in Rowset
  BY <1>1, <1>2 DEF Rowset
<1> QED
  BY <1>1, <1>3, <1>5, <1>6 DEF next

(* A capture of another door: the rows, and what it sends. *)
LEMMA CapturedElsewhereShape ==
  ASSUME server \in Rowset, minted \in Faces, NEW p \in Staff, CapturedElsewhere(p)
  PROVE  /\ minted + 1 \in Faces
         /\ \E next \in Pairs, bodies \in Seq(Message) :
              /\ next = IF server.pair[p] \in Active THEN "ENROLLED" ELSE server.pair[p]
              /\ bodies = IF server.pair[p] \notin Active THEN <<>>
                          ELSE IF server.face[p] # 0 THEN <<Drop(p), Upsert(p, minted + 1)>>
                          ELSE <<Upsert(p, minted + 1)>>
              /\ [server EXCEPT !.face[p] = minted + 1, !.pair[p] = next] \in Rowset
              /\ Tell([server EXCEPT !.face[p] = minted + 1, !.pair[p] = next], bodies)
<1> DEFINE next == IF server.pair[p] \in Active THEN "ENROLLED" ELSE server.pair[p]
           bodies == IF server.pair[p] \notin Active THEN <<>>
                     ELSE IF server.face[p] # 0 THEN <<Drop(p), Upsert(p, minted + 1)>>
                     ELSE <<Upsert(p, minted + 1)>>
<1>1. next \in Pairs
  BY DEF Pairs, Rowset
<1>2. minted + 1 \in Faces
  BY RosterAssumption DEF CapturedElsewhere, Faces
<1>3. bodies \in Seq(Message)
  BY <1>2, BodiesAreMessages
<1>4. PICK f \in Faces : f = minted + 1
  BY <1>2
<1>5. [server EXCEPT !.face[p] = f,
                     !.pair[p] = IF server.pair[p] \in Active THEN "ENROLLED" ELSE @]
        = [server EXCEPT !.face[p] = f, !.pair[p] = next]
  BY DEF Rowset
<1>6. (IF server.pair[p] \notin Active THEN <<>>
       ELSE (IF server.face[p] # 0 THEN <<Drop(p)>> ELSE <<>>) \o <<Upsert(p, f)>>) = bodies
  <2>1. Drop(p) \in Message /\ Upsert(p, f) \in Message
    BY BodiesAreMessages
  <2>2. <<Drop(p)>> \o <<Upsert(p, f)>> = <<Drop(p), Upsert(p, f)>>
    BY <2>1, OneAndAnother, Zenon
  <2>3. <<>> \o <<Upsert(p, f)>> = <<Upsert(p, f)>>
    BY <2>1
  <2> QED
    BY <1>4, <2>2, <2>3, Zenon
<1>7. Tell([server EXCEPT !.face[p] = f,
                          !.pair[p] = IF server.pair[p] \in Active THEN "ENROLLED" ELSE @],
           IF server.pair[p] \notin Active THEN <<>>
           ELSE (IF server.face[p] # 0 THEN <<Drop(p)>> ELSE <<>>) \o <<Upsert(p, f)>>)
  BY <1>4, Zenon DEF CapturedElsewhere
<1>8. Tell([server EXCEPT !.face[p] = f, !.pair[p] = next], bodies)
  BY <1>5, <1>6, <1>7, Zenon
<1> HIDE DEF next
<1>9. [server EXCEPT !.face[p] = f, !.pair[p] = next] \in Rowset
  BY <1>1 DEF Rowset
<1> QED
  BY <1>1, <1>2, <1>3, <1>4, <1>8, <1>9 DEF next

(* A refusal is a sequence of messages. *)
LEMMA RefusalShape ==
  ASSUME server \in Rowset, NEW p \in Staff
  PROVE  Refusal(p) \in Seq(Message)
<1> DEFINE up == IF server.pair[p] \in Active /\ server.face[p] # 0
                 THEN <<Upsert(p, server.face[p])>> ELSE <<>>
           ask == IF server.pair[p] \in Waiting THEN <<Ask(p)>> ELSE <<>>
<1>1. server.face[p] \in Faces
  BY DEF Rowset
<1>2. up \in Seq(Message) /\ ask \in Seq(Message) /\ <<Drop(p)>> \in Seq(Message)
  BY <1>1, BodiesAreMessages
<1>3. Refusal(p) = <<Drop(p)>> \o up \o ask
  BY DEF Refusal
<1>4. PICK first : first = <<Drop(p)>>
  OBVIOUS
<1> HIDE DEF up, ask
<1>5. first \o up \o ask \in Seq(Message)
  BY <1>2, <1>4
<1> QED
  BY <1>3, <1>4, <1>5

(* No handler of the server leaves the types. *)
LEMMA ServerKeepsTypes ==
  ASSUME TypesAre,
         \/ Dashboard \/ ResyncByHand \/ Converge \/ TakeReport
         \/ ApiRestart \/ BackUp \/ Restore
  PROVE  TypesAre'
<1>t. RosterTypeOK /\ server \in Rowset /\ minted \in Faces /\ lane \in Seq(Message)
      /\ beats \in Seq(Beat) /\ reports \in Seq(Sample)
  BY TypesAreTypes DEF TypesAre
<1>1. ASSUME NEW p \in Staff, Assign(p) PROVE TypesAre'
  <2>1. /\ server' \in Rowset /\ lane' \in Seq(Message) /\ rosterFaults' \in 0..MaxRosterFaults
    BY <1>t, <1>1, AssignShape, TellShape
  <2>2. Ordered /\ UNCHANGED <<backup, beats, reports, kiosk>>
    BY <1>1 DEF Assign
  <2> QED
    BY <2>1, <2>2, FaultsStay DEF TypesAre, kiosk
<1>2. ASSUME NEW p \in Staff, Revoke(p) PROVE TypesAre'
  <2>1. [server EXCEPT !.pair[p] = "REVOKED"] \in Rowset
    BY <1>t DEF Rowset, Pairs
  <2>2. <<Drop(p)>> \in Seq(Message)
    <3>1. 0 \in Faces
      BY RosterAssumption DEF Faces
    <3> QED
      BY <3>1, BodiesAreMessages
  <2>3. /\ Tell([server EXCEPT !.pair[p] = "REVOKED"], <<Drop(p)>>)
        /\ Ordered /\ UNCHANGED <<backup, beats, reports, kiosk>>
    BY <1>2 DEF Revoke
  <2>4. /\ server' \in Rowset /\ lane' \in Seq(Message) /\ rosterFaults' \in 0..MaxRosterFaults
    BY <1>t, <2>1, <2>2, <2>3, TellShape
  <2> QED
    BY <2>3, <2>4, FaultsStay DEF TypesAre, kiosk
<1>3. ASSUME NEW p \in Staff, Erase(p) PROVE TypesAre'
  <2>1. /\ server' \in Rowset /\ lane' \in Seq(Message) /\ rosterFaults' \in 0..MaxRosterFaults
    BY <1>t, <1>3, EraseShape, TellShape
  <2>2. Ordered /\ UNCHANGED <<backup, beats, reports, kiosk>>
    BY <1>3 DEF Erase
  <2> QED
    BY <2>1, <2>2, FaultsStay DEF TypesAre, kiosk
<1>4. ASSUME NEW p \in Staff, CapturedElsewhere(p) PROVE TypesAre'
  <2>1. /\ server' \in Rowset /\ lane' \in Seq(Message) /\ rosterFaults' \in 0..MaxRosterFaults
    BY <1>t, <1>4, CapturedElsewhereShape, TellShape
  <2>2. minted + 1 \in Faces
    BY <1>t, <1>4, CapturedElsewhereShape
  <2>3. /\ ops < MaxOps /\ ops' = ops + 1 /\ minted' = minted + 1
        /\ UNCHANGED <<backup, beats, reports, kiosk>>
    BY <1>4 DEF CapturedElsewhere
  <2>4. ops' \in 0..MaxOps
    BY <2>3, RosterAssumption DEF TypesAre
  <2> QED
    BY <2>1, <2>2, <2>3, <2>4 DEF TypesAre, kiosk
<1>5. ASSUME NEW queue \in Seq(Beat), NEW h, beats' = Aged(queue, h) PROVE beats' \in Seq(Beat)
  <2>1. DOMAIN queue = 1..Len(queue) /\ Len(queue) \in Nat
    OBVIOUS
  <2>2. ASSUME NEW i \in 1..Len(queue)
        PROVE  [queue[i] EXCEPT !.old = queue[i].old \/ i <= h] \in Beat
    <3>1. queue[i] \in Beat
      OBVIOUS
    <3>2. (queue[i].old \/ i <= h) \in BOOLEAN
      OBVIOUS
    <3> QED
      BY <3>1, <3>2 DEF Beat
  <2>3. Aged(queue, h) = [i \in 1..Len(queue) |-> [queue[i] EXCEPT !.old = queue[i].old \/ i <= h]]
    BY <2>1 DEF Aged
  <2>4. Aged(queue, h) \in [1..Len(queue) -> Beat]
    BY <2>2, <2>3
  <2> QED
    BY <1>5, <2>1, <2>4
<1>6. CASE ResyncByHand
  <2>1. Ordered /\ Replay(0) /\ UNCHANGED <<backup, reports, kiosk>>
        /\ \E h \in 0..Len(beats) : beats' = Aged(beats, h)
    BY <1>6 DEF ResyncByHand
  <2>2. /\ server' \in Rowset /\ lane' \in Seq(Message) /\ rosterFaults' \in 0..MaxRosterFaults
    BY <1>t, <2>1, ReplayShape
  <2>3. beats' \in Seq(Beat)
    BY <1>t, <1>5, <2>1
  <2> QED
    BY <2>1, <2>2, <2>3, FaultsStay DEF TypesAre, kiosk
<1>7. CASE Converge
  <2>1. /\ beats # <<>> /\ UNCHANGED <<backup, reports, kiosk, ops, minted>>
    BY <1>7 DEF Converge
  <2>2. Head(beats) \in Beat /\ Tail(beats) \in Seq(Beat)
    BY <1>t, <2>1
  <2>3. PICK n \in Nat : n = Head(beats).number
    BY <2>2 DEF Beat
  <2>4. \/ /\ server' = [server EXCEPT !.run = NoRun] /\ beats' = Tail(beats)
           /\ UNCHANGED lane /\ NoFault
        \/ UNCHANGED <<server, lane>> /\ NoFault /\ beats' = Tail(beats)
        \/ server' = [server EXCEPT !.run.heard = n] /\ beats' = Tail(beats)
           /\ UNCHANGED lane /\ NoFault
        \/ Replay(n) /\ \E h \in 0..Len(Tail(beats)) : beats' = Aged(Tail(beats), h)
    BY <1>7, <2>3 DEF Converge
  <2>5. CASE Replay(n) /\ \E h \in 0..Len(Tail(beats)) : beats' = Aged(Tail(beats), h)
    <3>1. /\ server' \in Rowset /\ lane' \in Seq(Message) /\ rosterFaults' \in 0..MaxRosterFaults
      BY <1>t, <2>5, ReplayShape
    <3>2. beats' \in Seq(Beat)
      BY <1>5, <2>2, <2>5
    <3> QED
      BY <2>1, <3>1, <3>2 DEF TypesAre, kiosk
  <2>6. CASE /\ server' \in {server, [server EXCEPT !.run = NoRun], [server EXCEPT !.run.heard = n]}
             /\ UNCHANGED lane /\ NoFault /\ beats' = Tail(beats)
    <3>1. server' \in Rowset
      BY <1>t, <2>6 DEF Rowset, NoRun
    <3> QED
      BY <2>1, <2>2, <2>6, <3>1, FaultsStay DEF TypesAre, kiosk
  <2> QED
    BY <2>4, <2>5, <2>6
<1>8. CASE TakeReport
  <2>1. reports # <<>> /\ reports' = Tail(reports)
        /\ UNCHANGED <<backup, beats, ram, flash, capturing, reporting, ops, minted>>
    BY <1>8 DEF TakeReport
  <2>2. Head(reports) \in Sample /\ reports' \in Seq(Sample)
    BY <1>t, <2>1
  <2>3. PICK p \in Staff, f \in Faces \ {0} : p = Head(reports).who /\ f = Head(reports).face
    BY <2>2 DEF Sample
  <2>4. /\ \/ UNCHANGED <<server, lane>> /\ NoFault
           \/ server' = [server EXCEPT !.face[p] = f, !.pair[p] = "ENROLLED"]
              /\ UNCHANGED lane /\ NoFault
           \/ Tell(server, Refusal(p))
        /\ fate' = [fate EXCEPT ![f] = "judged"]
    BY <1>8, <2>3 DEF TakeReport
  <2>5. /\ server' \in Rowset /\ lane' \in Seq(Message) /\ rosterFaults' \in 0..MaxRosterFaults
    <3>1. CASE UNCHANGED <<server, lane>> /\ NoFault
      BY <1>t, <3>1, FaultsStay
    <3>2. CASE server' = [server EXCEPT !.face[p] = f, !.pair[p] = "ENROLLED"]
               /\ UNCHANGED lane /\ NoFault
      BY <1>t, <3>2, FaultsStay DEF Rowset, Pairs
    <3>3. CASE Tell(server, Refusal(p))
      BY <1>t, <3>3, RefusalShape, TellShape
    <3> QED
      BY <2>4, <3>1, <3>2, <3>3
  <2>6. fate' \in FateType
    BY <2>4 DEF TypesAre, FateType
  <2> QED
    BY <2>1, <2>2, <2>5, <2>6 DEF TypesAre
<1>9. CASE ApiRestart
  <2>1. server' \in Rowset
    BY <1>t, <1>9 DEF ApiRestart, Rowset, NoRun
  <2> QED
    BY <1>9, <2>1, FaultsStay DEF ApiRestart, TypesAre, kiosk
<1>10. CASE BackUp
  <2>1. backup' \in Rows
    BY <1>t, <1>10 DEF BackUp, Rowed, Rowset, Rows
  <2> QED
    BY <1>10, <2>1 DEF BackUp, TypesAre, kiosk, rosterBudget
<1>11. CASE Restore
  <2>1. server' \in Rowset
    BY <1>11 DEF Restore, TypesAre, Rows, Rowset, NoRun
  <2> QED
    BY <1>11, <2>1, FaultsStay DEF Restore, TypesAre, kiosk
<1> QED
  BY <1>1, <1>2, <1>3, <1>4, <1>6, <1>7, <1>8, <1>9, <1>10, <1>11 DEF Dashboard

(* What SavePending and the batch in hand leave of the types. *)
LEMMA BatchType ==
  ASSUME TypesAre
  PROVE  Batch \in [at : {"none", "taking", "storing"}, held : Nat, changed : BOOLEAN]
BY DEF TypesAre, RamType, FlashType, Batch

(* Saving the pending list leaves the types alone, and so does failing to. *)
LEMMA SavePendingTypes ==
  ASSUME TypesAre, NEW asks \in SUBSET Staff, SavePending(asks)
  PROVE  flash' \in FlashType /\ rosterFaults' \in 0..MaxRosterFaults
<1>1. flash' = [flash EXCEPT !.asks = asks] \/ UNCHANGED flash
  BY DEF SavePending
<1>2. flash' \in FlashType
  BY <1>1 DEF TypesAre, FlashType
<1> QED
  BY <1>2, FaultsStay DEF SavePending

(* A message applied leaves a face table and a pending list. *)
LEMMA AfterATake ==
  ASSUME TypesAre, NEW m \in Message, m.op # "CAPTURED", NEW refused \in BOOLEAN
  PROVE  Table(m, refused) \in [Staff -> Record] /\ AsksAfter(m, refused) \in SUBSET Staff
<1>1. ram.table \in [Staff -> Record] /\ ram.asks \in SUBSET Staff
  BY DEF TypesAre, RamType
<1>2. 0 \in Faces /\ m.face \in Faces
  BY RosterAssumption DEF Faces, Message
<1>w. /\ m.op \in {"ASSIGN", "UPSERT", "DELETE_EMPLOYEE", "REPLACE_ALL", "CAPTURED"}
      /\ m.op # "REPLACE_ALL" => m.who \in Staff
  BY DEF Message
<1>3. Table(m, refused) \in [Staff -> Record]
  <2>1. CASE m.op = "UPSERT" /\ ~refused
    <3>1. Table(m, refused) = [ram.table EXCEPT ![m.who].held = m.face]
      BY <2>1 DEF Table
    <3>2. PICK w \in Staff : w = m.who
      BY <1>w, <2>1
    <3> QED
      BY <1>1, <1>2, <3>1, <3>2 DEF Record
  <2>2. CASE m.op = "DELETE_EMPLOYEE"
    <3>1. Table(m, refused) = [ram.table EXCEPT ![m.who] = [held |-> 0, own |-> 0]]
      BY <2>2 DEF Table
    <3>2. PICK w \in Staff : w = m.who
      BY <1>w, <2>2
    <3> QED
      BY <1>1, <1>2, <3>1, <3>2 DEF Record
  <2>3. CASE m.op = "REPLACE_ALL"
    <3>1. Table(m, refused) = [p \in Staff |-> [held |-> 0, own |-> ram.table[p].own]]
      BY <2>3 DEF Table
    <3> QED
      BY <1>1, <1>2, <3>1 DEF Record
  <2>4. CASE m.op = "ASSIGN" \/ (m.op = "UPSERT" /\ refused)
    <3>1. Table(m, refused) = ram.table
      BY <2>4 DEF Table
    <3> QED
      BY <1>1, <3>1
  <2> QED
    BY <1>w, <2>1, <2>2, <2>3, <2>4
<1>4. AsksAfter(m, refused) \subseteq Staff
  <2>1. CASE m.op = "ASSIGN"
    BY <1>1, <1>w, <2>1 DEF AsksAfter
  <2>2. CASE m.op # "ASSIGN"
    BY <1>1, <1>w, <2>2 DEF AsksAfter
  <2> QED
    BY <2>1, <2>2
<1> QED
  BY <1>3, <1>4

(* The head of the lane is a message, and so is what is behind it. *)
LEMMA HeadOfTheLane ==
  ASSUME TypesAre, lane # <<>>
  PROVE  Head(lane) \in Message /\ Tail(lane) \in Seq(Message)
BY DEF TypesAre

(* sync_task keeps the types. *)
LEMMA TakeRosterKeepsTypes ==
  ASSUME TypesAre, TakeRoster
  PROVE  TypesAre'
<1>b. PICK batch \in [at : {"none", "taking", "storing"}, held : Nat, changed : BOOLEAN] :
        batch = Batch
  BY BatchType
<1>l. lane # <<>>
  BY DEF TakeRoster, TakeOne, TakeFails, PassOver, TakeCaptured, CanTake
<1>h. PICK m \in Message : m = Head(lane)
  BY <1>l, HeadOfTheLane
<1>r. ram \in RamType /\ flash \in FlashType /\ Tail(lane) \in Seq(Message) /\ fate \in FateType
  BY <1>l, HeadOfTheLane DEF TypesAre
<1>m. m.number \in Nat /\ m.op \in {"ASSIGN", "UPSERT", "DELETE_EMPLOYEE", "REPLACE_ALL", "CAPTURED"}
  BY DEF Message
<1>1. CASE TakeOne
  <2>1. PICK spared, crowded, refused \in BOOLEAN : TakenAs(m, batch, spared, crowded, refused)
    BY <1>1, <1>h, <1>b, OneTaken
  <2>2. m.op # "CAPTURED"
    BY <1>1, <1>h DEF TakeOne
  <2>3. PICK table \in [Staff -> Record] : table = Table(m, refused)
    BY <2>2, AfterATake
  <2>4. PICK asks \in SUBSET Staff : asks = AsksAfter(m, refused)
    BY <2>2, AfterATake
  <2>5. flash' \in FlashType /\ rosterFaults' \in 0..MaxRosterFaults
    BY <2>1, <2>4, SavePendingTypes DEF TakenAs
  <2> DEFINE spent == SpentAfter(m, spared, crowded)
             lacks == LacksAfter(m, spared, crowded)
             next == [batch EXCEPT
                        !.held = m.number,
                        !.changed = batch.changed \/ (m.op # "ASSIGN" /\ ~refused)]
  <2>6. spent \subseteq Staff /\ lacks \subseteq Staff
    <3>1. ram.spent \subseteq Staff /\ ram.lacks \subseteq Staff
      BY <1>r DEF RamType
    <3>2. m.op # "REPLACE_ALL" => m.who \in Staff
      BY DEF Message
    <3>3. spent \in {{}, ram.spent \cup {m.who}, ram.spent, ram.spent \ {m.who}}
          /\ (m.op = "REPLACE_ALL" => spent = {})
      <4>1. CASE m.op = "REPLACE_ALL"
        BY <2>1, <4>1 DEF TakenAs, SpentAfter, Full
      <4>2. CASE m.op # "REPLACE_ALL"
        BY <4>2 DEF SpentAfter
      <4> QED
        BY <4>1, <4>2
    <3>4. lacks \in {{}, ram.lacks \cup {m.who}, ram.lacks, ram.lacks \ {m.who}}
          /\ (m.op = "REPLACE_ALL" => lacks = {})
      <4>1. CASE m.op = "REPLACE_ALL"
        BY <2>1, <4>1 DEF TakenAs, LacksAfter
      <4>2. CASE m.op # "REPLACE_ALL"
        BY <4>2 DEF LacksAfter
      <4> QED
        BY <4>1, <4>2
    <3> QED
      BY <3>1, <3>2, <3>3, <3>4
  <2>7. next \in [at : {"none", "taking", "storing"}, held : Nat, changed : BOOLEAN]
    <3>1. (batch.changed \/ (m.op # "ASSIGN" /\ ~refused)) \in BOOLEAN
      OBVIOUS
    <3> QED
      BY <1>m, <3>1
  <2>8. ram' = [ram EXCEPT
                 !.table = table, !.asks = asks,
                 !.gapped = IF m.op = "REPLACE_ALL" THEN FALSE ELSE ram.gapped,
                 !.spent = spent, !.lacks = lacks, !.batch = next]
    BY <2>1, <2>3, <2>4 DEF TakenAs
  <2> HIDE DEF spent, lacks, next
  <2>9. ram' \in RamType
    BY <1>r, <2>6, <2>7, <2>8 DEF RamType
  <2>10. fate' \in FateType
    <3>1. fate' = fate \/ fate' = Dropped({ram.table[m.who].own})
      BY <1>1, <1>h DEF TakeOne
    <3> QED
      BY <1>r, <3>1 DEF Dropped, FateType
  <2>11. lane' = Tail(lane) /\ UNCHANGED <<server, backup, beats, reports, capturing, reporting, ops, minted>>
    BY <1>1 DEF TakeOne
  <2> QED
    BY <1>r, <2>5, <2>9, <2>10, <2>11 DEF TypesAre
<1>2. CASE TakeFails
  <2>1. m.op # "REPLACE_ALL" => m.who \in Staff
    BY DEF Message
  <2> DEFINE asks == IF m.op = "REPLACE_ALL" THEN {}
                     ELSE IF m.op = "DELETE_EMPLOYEE" THEN ram.asks \ {m.who} ELSE ram.asks
  <2>2. asks \subseteq Staff
    BY <1>r DEF RamType
  <2>3. /\ ram' = [ram EXCEPT !.gapped = TRUE, !.asks = asks, !.batch = batch]
        /\ flash' = [flash EXCEPT !.asks = asks]
    BY <1>2, <1>h, <1>b DEF TakeFails
  <2> HIDE DEF asks
  <2>4. ram' \in RamType /\ flash' \in FlashType
    BY <1>r, <2>2, <2>3 DEF RamType, FlashType
  <2>5. lane' = Tail(lane) /\ Fault
        /\ UNCHANGED <<server, backup, beats, reports, capturing, reporting, fate, ops, minted>>
    BY <1>2 DEF TakeFails
  <2> QED
    BY <1>r, <2>4, <2>5, FaultsStay DEF TypesAre
<1>3. CASE PassOver
  <2>1. ram' = [ram EXCEPT !.gapped = ram.gapped \/ ~Stale(m), !.batch = batch]
    BY <1>3, <1>h, <1>b DEF PassOver
  <2>2. PICK gapped \in BOOLEAN : gapped = (ram.gapped \/ ~Stale(m))
    OBVIOUS
  <2>3. ram' \in RamType
    BY <1>r, <2>1, <2>2 DEF RamType
  <2>4. lane' = Tail(lane)
        /\ UNCHANGED <<server, backup, beats, reports, flash, capturing, reporting, fate, rosterBudget>>
    BY <1>3 DEF PassOver
  <2> QED
    BY <1>r, <2>3, <2>4 DEF TypesAre, rosterBudget
<1>4. CASE TakeCaptured
  <2>1. PICK asks \in SUBSET Staff : asks = ram.asks \ {m.who}
    BY <1>r DEF RamType
  <2>2. SavePending(asks) /\ ram' = [ram EXCEPT !.asks = asks, !.batch = batch]
    BY <1>4, <1>h, <1>b, <2>1 DEF TakeCaptured
  <2>3. flash' \in FlashType /\ rosterFaults' \in 0..MaxRosterFaults
    BY <2>2, SavePendingTypes
  <2>4. ram' \in RamType
    BY <1>r, <2>2 DEF RamType
  <2>5. lane' = Tail(lane)
        /\ UNCHANGED <<server, backup, beats, reports, capturing, reporting, fate, ops, minted>>
    BY <1>4 DEF TakeCaptured
  <2> QED
    BY <1>r, <2>3, <2>4, <2>5 DEF TypesAre
<1> QED
  BY <1>1, <1>2, <1>3, <1>4 DEF TakeRoster

(* The ends of a batch, the beats and the losses of power keep the types. *)
LEMMA SyncTaskKeepsTypes ==
  ASSUME TypesAre,
         EndBatch \/ StoreNumber \/ Heartbeat \/ LoseBeat \/ PowerCut
  PROVE  TypesAre'
<1>r. ram \in RamType /\ flash \in FlashType /\ lane \in Seq(Message) /\ beats \in Seq(Beat)
      /\ fate \in FateType
  BY DEF TypesAre
<1>1. CASE EndBatch
  <2>1. \/ /\ flash' = IF ram.batch.changed THEN [flash EXCEPT !.table = ram.table] ELSE flash
           /\ ram' = [ram EXCEPT !.batch.at = "storing"] /\ NoFault
        \/ /\ ram' = [ram EXCEPT !.batch = NoBatch, !.gapped = TRUE] /\ Fault
           /\ UNCHANGED flash
    BY <1>1 DEF EndBatch
  <2>2. flash' \in FlashType
    <3>1. flash' = [flash EXCEPT !.table = ram.table] \/ flash' = flash
      BY <2>1
    <3> QED
      BY <1>r, <3>1 DEF RamType, FlashType
  <2>3. ram' \in RamType
    <3>1. CASE ram' = [ram EXCEPT !.batch.at = "storing"]
      BY <1>r, <3>1 DEF RamType
    <3>2. CASE ram' = [ram EXCEPT !.batch = NoBatch, !.gapped = TRUE]
      BY <1>r, <3>2 DEF RamType, NoBatch
    <3> QED
      BY <2>1, <3>1, <3>2
  <2>4. rosterFaults' \in 0..MaxRosterFaults
    BY <2>1, FaultsStay
  <2>5. UNCHANGED <<server, backup, lane, beats, reports, capturing, reporting, fate, ops, minted>>
    BY <1>1 DEF EndBatch
  <2> QED
    BY <2>2, <2>3, <2>4, <2>5 DEF TypesAre
<1>2. CASE StoreNumber
  <2>1. flash' = [flash EXCEPT !.held = ram.batch.held] \/ UNCHANGED flash
    BY <1>2 DEF StoreNumber
  <2>2. flash' \in FlashType
    BY <1>r, <2>1 DEF RamType, FlashType
  <2>3. ram' = [ram EXCEPT !.batch = NoBatch]
    BY <1>2 DEF StoreNumber
  <2>4. ram' \in RamType
    BY <1>r, <2>3 DEF RamType, NoBatch
  <2>5. rosterFaults' \in 0..MaxRosterFaults
    BY <1>2, FaultsStay DEF StoreNumber
  <2>6. UNCHANGED <<server, backup, lane, beats, reports, capturing, reporting, fate, ops, minted>>
    BY <1>2 DEF StoreNumber
  <2> QED
    BY <2>2, <2>4, <2>5, <2>6 DEF TypesAre
<1>3. CASE Heartbeat
  <2>1. beats' = Append(beats, [number |-> flash.held, old |-> FALSE])
        /\ UNCHANGED <<server, backup, lane, reports, kiosk, rosterBudget>>
    BY <1>3 DEF Heartbeat
  <2>2. [number |-> flash.held, old |-> FALSE] \in Beat
    BY <1>r DEF FlashType, Beat
  <2>3. beats' \in Seq(Beat)
    BY <1>r, <2>1, <2>2
  <2> QED
    BY <2>1, <2>3 DEF TypesAre, kiosk, rosterBudget
<1>4. CASE LoseBeat
  <2>1. beats' \in Seq(Beat)
    BY <1>r, <1>4 DEF LoseBeat
  <2> QED
    BY <1>4, <2>1, FaultsStay DEF LoseBeat, TypesAre, kiosk
<1>5. CASE PowerCut
  <2>1. ram' \in RamType
    BY <1>r, <1>5 DEF PowerCut, RamType, FlashType, NoBatch
  <2>2. fate' \in FateType
    BY <1>r, <1>5 DEF PowerCut, Dropped, FateType
  <2>3. lane' \in Seq(Message)
    BY <1>5 DEF PowerCut
  <2>4. reporting' \in [who : Staff \cup {0}, face : Faces] /\ capturing' \in Staff \cup {0}
    <3>1. 0 \in Faces
      BY RosterAssumption DEF Faces
    <3> QED
      BY <1>5, <3>1 DEF PowerCut, NoReport
  <2>5. Fault /\ UNCHANGED <<server, backup, beats, reports, flash, ops, minted>>
    BY <1>5 DEF PowerCut
  <2> QED
    BY <2>1, <2>2, <2>3, <2>4, <2>5, FaultsStay DEF TypesAre
<1> QED
  BY <1>1, <1>2, <1>3, <1>4, <1>5

(* ui_task captures, sync_task reports. *)
LEMMA CapturesKeepTypes ==
  ASSUME TypesAre,
         \/ \E p \in Staff : OpenSession(p) \/ Report(p)
         \/ LeaveSession \/ SealSession \/ Acked \/ NotAcked
  PROVE  TypesAre'
<1>r. ram \in RamType /\ flash \in FlashType /\ lane \in Seq(Message) /\ reports \in Seq(Sample)
      /\ fate \in FateType /\ minted \in Faces /\ reporting \in [who : Staff \cup {0}, face : Faces]
      /\ capturing \in Staff \cup {0}
  BY DEF TypesAre
<1>1. ASSUME NEW p \in Staff, OpenSession(p) PROVE TypesAre'
  BY <1>1 DEF OpenSession, TypesAre, rosterBudget
<1>2. ASSUME NEW p \in Staff, Report(p) PROVE TypesAre'
  <2>1. PICK f \in Faces : f = ram.table[p].own
    BY <1>r DEF RamType, Record
  <2>2. f # 0 /\ reporting' = [who |-> p, face |-> f] /\ reports' = Append(reports, [who |-> p, face |-> f])
    BY <1>2, <2>1 DEF Report
  <2>3. reporting' \in [who : Staff \cup {0}, face : Faces]
    BY <2>2
  <2>4. reports' \in Seq(Sample)
    <3>1. [who |-> p, face |-> f] \in Sample
      BY <2>2 DEF Sample
    <3> QED
      BY <1>r, <2>2, <3>1
  <2>5. UNCHANGED <<server, backup, lane, beats, ram, flash, capturing, fate, rosterBudget>>
    BY <1>2 DEF Report
  <2> QED
    BY <2>3, <2>4, <2>5 DEF TypesAre, rosterBudget
<1>3. CASE LeaveSession
  BY <1>3 DEF LeaveSession, TypesAre, rosterBudget
<1>4. CASE SealSession
  <2>1. PICK p \in Staff : p = capturing
    BY <1>r, <1>4 DEF SealSession
  <2>2. PICK f \in Faces : f = minted + 1
    BY <1>r, <1>4, RosterAssumption DEF SealSession, Faces
  <2>3. 0 \in Faces
    BY RosterAssumption DEF Faces
  <2>4. PICK table \in [Staff -> Record] : table = [ram.table EXCEPT ![p] = [held |-> 0, own |-> f]]
    BY <1>r, <2>3 DEF RamType, Record
  <2>5. ram' = [ram EXCEPT !.table = table]
    BY <1>4, <2>1, <2>2, <2>4 DEF SealSession
  <2>6. ram' \in RamType
    BY <1>r, <2>5 DEF RamType
  <2>7. PICK mark \in Message : mark = [op |-> "CAPTURED", who |-> p, face |-> 0, number |-> 0]
    BY <2>3 DEF Message
  <2>8. \/ /\ flash' = [flash EXCEPT !.table = table] /\ NoFault
           /\ \E i \in 0..Len(lane) : lane' = InsertAt(lane, i + 1, mark)
        \/ Fault /\ UNCHANGED <<flash, lane>>
    BY <1>4, <2>1, <2>2, <2>4, <2>7 DEF SealSession
  <2>9. flash' \in FlashType /\ rosterFaults' \in 0..MaxRosterFaults
    BY <1>r, <2>8, FaultsStay DEF FlashType
  <2>10. lane' \in Seq(Message)
    <3>1. ASSUME NEW i \in 0..Len(lane), lane' = InsertAt(lane, i + 1, mark)
          PROVE  lane' \in Seq(Message)
      <4>1. SubSeq(lane, 1, (i + 1) - 1) \in Seq(Message) /\ SubSeq(lane, i + 1, Len(lane)) \in Seq(Message)
        BY <1>r
      <4>2. lane' = SubSeq(lane, 1, (i + 1) - 1) \o <<mark>> \o SubSeq(lane, i + 1, Len(lane))
        BY <3>1 DEF InsertAt
      <4>3. PICK before \in Seq(Message), after \in Seq(Message) :
              lane' = before \o <<mark>> \o after
        BY <4>1, <4>2
      <4> QED
        BY <4>3
    <3> QED
      BY <1>r, <2>8, <3>1
  <2>11. fate' \in FateType
    <3>1. PICK old \in FateType : old = Dropped({ram.table[capturing].own})
      BY <1>r DEF Dropped, FateType
    <3>2. fate' = [old EXCEPT ![f] = "sealed"]
      BY <1>4, <2>2, <3>1 DEF SealSession
    <3> QED
      BY <3>2 DEF FateType
  <2>12. capturing' = 0 /\ minted' = f /\ UNCHANGED <<server, backup, beats, reports, reporting, ops>>
    BY <1>4, <2>2 DEF SealSession
  <2> QED
    BY <2>6, <2>9, <2>10, <2>11, <2>12 DEF TypesAre
<1>5. CASE Acked
  <2>1. PICK f \in Faces : f = reporting.face
    BY <1>r
  <2>2. PICK p : p = reporting.who
    OBVIOUS
  <2>3. 0 \in Faces
    BY RosterAssumption DEF Faces
  <2>4. ASSUME NEW record \in Record PROVE Kept(record, f) \in Record
    BY <2>3 DEF Kept, Record
  <2>5. PICK table : table = [ram.table EXCEPT ![p] = Kept(ram.table[p], f)]
    OBVIOUS
  <2>6. table \in [Staff -> Record]
    <3>1. ram.table \in [Staff -> Record]
      BY <1>r DEF RamType
    <3>2. CASE p \in Staff
      <4>1. Kept(ram.table[p], f) \in Record
        BY <3>1, <3>2, <2>4
      <4> QED
        BY <3>1, <4>1, <2>5
    <3>3. CASE p \notin Staff
      BY <3>1, <3>3, <2>5
    <3> QED
      BY <3>2, <3>3
  <2>7. /\ ram' = [ram EXCEPT !.table = table]
        /\ \/ flash' = [flash EXCEPT !.table = table] /\ NoFault
           \/ Fault /\ UNCHANGED flash
        /\ reporting' = NoReport
        /\ UNCHANGED <<server, backup, lane, beats, reports, capturing, fate, ops, minted>>
    BY <1>5, <2>1, <2>2, <2>5, Zenon DEF Acked
  <2>8. ram' \in RamType /\ flash' \in FlashType
    BY <1>r, <2>6, <2>7 DEF RamType, FlashType
  <2>9. reporting' \in [who : Staff \cup {0}, face : Faces]
    BY <2>3, <2>7 DEF NoReport
  <2> QED
    BY <2>7, <2>8, <2>9, FaultsStay DEF TypesAre
<1>6. CASE NotAcked
  <2>1. 0 \in Faces
    BY RosterAssumption DEF Faces
  <2>2. reporting' = NoReport /\ Fault
        /\ UNCHANGED <<server, backup, lane, beats, ram, flash, capturing, fate, ops, minted>>
        /\ (UNCHANGED reports \/ (reports # <<>> /\ reports' = Front(reports)))
    BY <1>6 DEF NotAcked
  <2>3. reports' \in Seq(Sample)
    <3>1. CASE UNCHANGED reports
      BY <1>r, <3>1
    <3>2. CASE reports # <<>> /\ reports' = Front(reports)
      BY <1>r, <3>2 DEF Front
    <3> QED
      BY <2>2, <3>1, <3>2
  <2>4. reporting' \in [who : Staff \cup {0}, face : Faces]
    BY <2>1, <2>2 DEF NoReport
  <2> QED
    BY <2>2, <2>3, <2>4, FaultsStay DEF TypesAre
<1> QED
  BY <1>1, <1>2, <1>3, <1>4, <1>5, <1>6

(* No step leaves the types. *)
LEMMA NextKeepsTypes ==
  ASSUME RosterTypeOK, [RosterNext]_rosterVars
  PROVE  RosterTypeOK'
<1> SUFFICES TypesAre'
  BY DEF RosterTypeOK, TypesAre, Rowset, Beat, Sample, RamType, FlashType, FateType
<1>1. TypesAre
  BY TypesAreTypes
<1>2. CASE UNCHANGED rosterVars
  BY <1>1, <1>2 DEF TypesAre, rosterVars
<1>3. CASE RosterNext
  BY <1>1, <1>3, ServerKeepsTypes, TakeRosterKeepsTypes, SyncTaskKeepsTypes, CapturesKeepTypes
     DEF RosterNext
<1> QED
  BY <1>2, <1>3

(* Every variable of the door and of its roster keeps its type, for any staff, any pending
   list and any faults, restores of a backup included. *)
THEOREM RosterTypeCorrect == RosterSpec => []RosterTypeOK
<1>1. RosterInit => RosterTypeOK
  BY TypesInit
<1>2. RosterTypeOK /\ [RosterNext]_rosterVars => RosterTypeOK'
  BY NextKeepsTypes
<1> QED
  BY <1>1, <1>2, PTL DEF RosterSpec

(***************************************************************************)
(* The numbers.  What the server says of a door: it spends one number a     *)
(* body past the one it stood at, and what arrives joins the lane's end.    *)
(***************************************************************************)
Speaks(bodies, after, got, from) ==
  /\ bodies \in Seq(Message) /\ Len(bodies) \in Nat /\ after \in Nat /\ server.number <= after
  /\ Arrives(bodies, after, got, from) /\ lane' = lane \o got
  /\ server'.number = after + Len(bodies)

(* An order speaks from the number the server stands at. *)
LEMMA TellSpeaks ==
  ASSUME TypesAre, NEW rowset \in Rowset, NEW bodies \in Seq(Message), Tell(rowset, bodies)
  PROVE  /\ server' = [rowset EXCEPT !.number = server.number + Len(bodies)]
         /\ \E got, from : Speaks(bodies, server.number, got, from)
<1>1. /\ server' = [rowset EXCEPT !.number = server.number + Len(bodies)]
      /\ \E got, from : Arrives(bodies, server.number, got, from) /\ lane' = lane \o got
  BY TypesAreTypes, TellShape
<1>2. server'.number = server.number + Len(bodies)
  BY <1>1 DEF Rowset
<1>3. server.number \in Nat /\ Len(bodies) \in Nat /\ server.number <= server.number
  BY DEF TypesAre, Rowset
<1> QED
  BY <1>1, <1>2, <1>3 DEF Speaks

(* A replay speaks from one below its base. *)
LEMMA ReplaySpeaks ==
  ASSUME TypesAre, NEW floor \in Nat, Replay(floor)
  PROVE  \E got, from : Speaks(<<StartOver>> \o Everybody, ReplayBase(floor) - 1, got, from)
<1>1. PICK base \in Nat : base = ReplayBase(floor) /\ base > server.number
  BY TypesAreTypes, ReplayShape
<1>2. PICK bodies \in Seq(Message) :
        bodies = <<StartOver>> \o Everybody /\ Len(bodies) = Len(Everybody) + 1
  BY EverybodyShape DEF TypesAre
<1>3. /\ server'.number = base + Len(Everybody) /\ Len(Everybody) \in Nat
      /\ \E got, from : Arrives(bodies, base - 1, got, from) /\ lane' = lane \o got
  BY <1>1, <1>2, TypesAreTypes, ReplayShape
<1>4. server.number \in Nat
  BY DEF TypesAre, Rowset
<1>5. /\ base - 1 \in Nat /\ server.number <= base - 1 /\ Len(bodies) \in Nat
      /\ server'.number = (base - 1) + Len(bodies)
  <2>1. PICK len \in Nat : len = Len(Everybody)
    BY <1>3
  <2> QED
    BY <1>1, <1>2, <1>3, <1>4, <2>1
<1> QED
  BY <1>1, <1>2, <1>3, <1>5 DEF Speaks

(* A handler of the server either says nothing and spends no number, or it speaks. *)
LEMMA ServerActs ==
  ASSUME TypesAre,
         \/ Dashboard \/ ResyncByHand \/ Converge \/ TakeReport
         \/ ApiRestart \/ BackUp
  PROVE  /\ UNCHANGED <<ram, flash>>
         /\ \/ UNCHANGED lane /\ server'.number = server.number
            \/ \E bodies, after, got, from : Speaks(bodies, after, got, from)
<1>t. server \in Rowset /\ minted \in Faces /\ beats \in Seq(Beat) /\ reports \in Seq(Sample)
  BY DEF TypesAre
<1>1. ASSUME NEW p \in Staff, Assign(p) \/ Erase(p) \/ CapturedElsewhere(p) \/ Revoke(p)
      PROVE  /\ UNCHANGED <<ram, flash>>
             /\ \E bodies, after, got, from : Speaks(bodies, after, got, from)
  <2>1. CASE Assign(p)
    BY <1>t, <2>1, AssignShape, TellSpeaks DEF Assign, kiosk
  <2>2. CASE Erase(p)
    BY <1>t, <2>2, EraseShape, TellSpeaks DEF Erase, kiosk
  <2>3. CASE CapturedElsewhere(p)
    BY <1>t, <2>3, CapturedElsewhereShape, TellSpeaks DEF CapturedElsewhere, kiosk
  <2>4. CASE Revoke(p)
    <3>1. [server EXCEPT !.pair[p] = "REVOKED"] \in Rowset
      BY <1>t DEF Rowset, Pairs
    <3>2. <<Drop(p)>> \in Seq(Message)
      <4>1. 0 \in Faces
        BY RosterAssumption DEF Faces
      <4> QED
        BY <4>1, BodiesAreMessages
    <3> QED
      BY <2>4, <3>1, <3>2, TellSpeaks DEF Revoke, kiosk
  <2> QED
    BY <1>1, <2>1, <2>2, <2>3, <2>4
<1>2. CASE ResyncByHand
  BY <1>2, ReplaySpeaks DEF ResyncByHand, kiosk
<1>3. CASE Converge
  <2>1. /\ beats # <<>> /\ UNCHANGED <<ram, flash>>
    BY <1>3 DEF Converge, kiosk
  <2>2. Head(beats) \in Beat
    BY <1>t, <2>1
  <2>3. PICK n \in Nat : n = Head(beats).number
    BY <2>2 DEF Beat
  <2>4. \/ server' = [server EXCEPT !.run = NoRun] /\ UNCHANGED lane
        \/ UNCHANGED <<server, lane>>
        \/ server' = [server EXCEPT !.run.heard = n] /\ UNCHANGED lane
        \/ Replay(n)
    BY <1>3, <2>3 DEF Converge
  <2>5. CASE Replay(n)
    BY <2>1, <2>5, ReplaySpeaks
  <2>6. CASE /\ server' \in {server, [server EXCEPT !.run = NoRun], [server EXCEPT !.run.heard = n]}
             /\ UNCHANGED lane
    BY <1>t, <2>1, <2>6 DEF Rowset
  <2> QED
    BY <2>4, <2>5, <2>6
<1>4. CASE TakeReport
  <2>1. reports # <<>> /\ UNCHANGED <<ram, flash>>
    BY <1>4 DEF TakeReport
  <2>2. Head(reports) \in Sample
    BY <1>t, <2>1
  <2>3. PICK p \in Staff, f \in Faces : p = Head(reports).who /\ f = Head(reports).face
    BY <2>2 DEF Sample
  <2>4. \/ UNCHANGED <<server, lane>>
        \/ server' = [server EXCEPT !.face[p] = f, !.pair[p] = "ENROLLED"] /\ UNCHANGED lane
        \/ Tell(server, Refusal(p))
    BY <1>4, <2>3 DEF TakeReport
  <2>5. CASE Tell(server, Refusal(p))
    BY <1>t, <2>1, <2>5, RefusalShape, TellSpeaks
  <2>6. CASE /\ server' \in {server, [server EXCEPT !.face[p] = f, !.pair[p] = "ENROLLED"]}
             /\ UNCHANGED lane
    BY <1>t, <2>1, <2>6 DEF Rowset
  <2> QED
    BY <2>4, <2>5, <2>6
<1>5. CASE ApiRestart \/ BackUp
  BY <1>t, <1>5 DEF ApiRestart, BackUp, Rowset, kiosk
<1> QED
  BY <1>1, <1>2, <1>3, <1>4, <1>5 DEF Dashboard

(* NeverAhead and what it rests on: no message on its way names a number the       *)
(* counter has not reached.                                                       *)
NumbersInv ==
  /\ flash.held <= server.number /\ ram.batch.held <= server.number
  /\ \A i \in 1..Len(lane) : lane[i].number <= server.number

(* The numbers are numbers. *)
LEMMA NumbersAre ==
  ASSUME TypesAre
  PROVE  /\ server.number \in Nat /\ flash.held \in Nat /\ ram.batch.held \in Nat
         /\ Len(lane) \in Nat /\ \A i \in 1..Len(lane) : lane[i] \in Message /\ lane[i].number \in Nat
<1>1. server.number \in Nat /\ flash.held \in Nat /\ ram.batch.held \in Nat
  BY DEF TypesAre, Rowset, FlashType, RamType
<1>2. lane \in Seq(Message)
  BY DEF TypesAre
<1>3. Len(lane) \in Nat /\ \A i \in 1..Len(lane) : lane[i] \in Message
  BY <1>2
<1> QED
  BY <1>1, <1>3 DEF Message

(* The i-th of what arrived is numbered where its body stood. *)
LEMMA GotNumbers ==
  ASSUME NEW bodies \in Seq(Message), NEW after \in Nat, NEW got, NEW from,
         Arrives(bodies, after, got, from), NEW i \in 1..Len(got)
  PROVE  /\ from[i] \in 1..Len(bodies) /\ got[i] \in Message
         /\ got[i].number = after + from[i] /\ got[i].op = bodies[from[i]].op
         /\ got[i].who = bodies[from[i]].who /\ got[i].face = bodies[from[i]].face
<1>1. /\ got \in Seq(Message) /\ from[i] \in 1..Len(bodies)
      /\ got[i] = [bodies[from[i]] EXCEPT !.number = after + from[i]]
  BY DEF Arrives
<1>2. PICK body \in Message : body = bodies[from[i]]
  BY <1>1
<1>3. PICK n : n = after + from[i]
  OBVIOUS
<1>4. got[i] = [body EXCEPT !.number = n]
  BY <1>1, <1>2, <1>3
<1>5. got[i] \in Message
  BY <1>1
<1> QED
  BY <1>1, <1>2, <1>3, <1>4, <1>5 DEF Message

(* What is said names no number past the counter. *)
LEMMA SpokenNumbers ==
  ASSUME TypesAre, NumbersInv, UNCHANGED <<ram, flash>>,
         NEW bodies, NEW after, NEW got, NEW from, Speaks(bodies, after, got, from)
  PROVE  NumbersInv'
<1>1. /\ bodies \in Seq(Message) /\ Len(bodies) \in Nat /\ after \in Nat /\ server.number <= after
      /\ Arrives(bodies, after, got, from) /\ lane' = lane \o got
      /\ server'.number = after + Len(bodies) /\ got \in Seq(Message) /\ lane \in Seq(Message)
  BY DEF Speaks, Arrives, TypesAre
<1>2. PICK top \in Nat, now \in Nat : top = server'.number /\ now = server.number /\ now <= top
  <2>1. PICK b \in Nat : b = Len(bodies)
    BY <1>1
  <2>2. PICK a \in Nat : a = after
    BY <1>1
  <2>3. PICK now \in Nat : now = server.number /\ now <= a
    BY <1>1, <2>2, NumbersAre
  <2>4. PICK top \in Nat : top = a + b /\ now <= top
    BY <2>3
  <2>5. top = server'.number
    BY <1>1, <2>1, <2>2, <2>4
  <2> QED
    BY <2>3, <2>4, <2>5, Zenon
<1>3. ASSUME NEW i \in 1..Len(lane \o got) PROVE (lane \o got)[i].number <= top
  <2>1. CASE i \in 1..Len(lane)
    <3>1. (lane \o got)[i] = lane[i]
      BY <1>1, <2>1
    <3>2. lane[i].number <= now /\ lane[i].number \in Nat
      BY <1>2, <2>1, NumbersAre DEF NumbersInv
    <3> QED
      BY <1>2, <3>1, <3>2
  <2>2. CASE i \notin 1..Len(lane)
    <3>1. PICK k \in 1..Len(got) : (lane \o got)[i] = got[k]
      BY <1>1, <2>2
    <3>2. from[k] \in 1..Len(bodies) /\ got[k].number = after + from[k]
      BY <1>1, GotNumbers
    <3>3. PICK len \in Nat : len = Len(bodies)
      BY <1>1
    <3> QED
      BY <1>1, <1>2, <3>1, <3>2, <3>3
  <2> QED
    BY <2>1, <2>2
<1>4. flash.held <= top /\ ram.batch.held <= top
  BY <1>2, NumbersAre DEF NumbersInv
<1> QED
  BY <1>1, <1>2, <1>3, <1>4 DEF NumbersInv

(* The number a batch stands at is one the server has spent. *)
LEMMA BatchNumber ==
  ASSUME TypesAre, NumbersInv
  PROVE  Batch.held \in Nat /\ Batch.held <= server.number
<1>1. Batch.held = flash.held \/ Batch.held = ram.batch.held
  BY DEF Batch
<1> QED
  BY <1>1, NumbersAre DEF NumbersInv

(* The head taken, the rest is the lane one place down. *)
LEMMA RestOfTheLane ==
  ASSUME TypesAre, lane # <<>>
  PROVE  /\ Head(lane) = lane[1] /\ Head(lane) \in Message /\ Len(lane) >= 1
         /\ Len(Tail(lane)) = Len(lane) - 1
         /\ \A i \in 1..Len(Tail(lane)) : i + 1 \in 1..Len(lane) /\ Tail(lane)[i] = lane[i + 1]
<1>1. lane \in Seq(Message)
  BY DEF TypesAre
<1> QED
  BY <1>1

(* A message taken leaves the kiosk at a number of the server's. *)
LEMMA TakenNumbers ==
  ASSUME TypesAre, NumbersInv, TakeRoster
  PROVE  NumbersInv'
<1>1. /\ lane # <<>> /\ lane' = Tail(lane) /\ UNCHANGED server
  BY DEF TakeRoster, TakeOne, TakeFails, PassOver, TakeCaptured, CanTake
<1>2. \A i \in 1..Len(lane') : lane'[i].number <= server.number
  BY <1>1, RestOfTheLane DEF NumbersInv
<1>3. Head(lane).number <= server.number
  BY <1>1, RestOfTheLane DEF NumbersInv
<1>4. flash'.held = flash.held
  <2>1. flash \in FlashType
    BY DEF TypesAre
  <2>2. UNCHANGED flash \/ \E asks : flash' = [flash EXCEPT !.asks = asks]
    BY DEF TakeRoster, TakeOne, TakeFails, PassOver, TakeCaptured, SavePending
  <2> QED
    BY <2>1, <2>2 DEF FlashType
<1>5. ram'.batch.held = Batch.held \/ ram'.batch.held = Head(lane).number
  <2>1. ram \in RamType
    BY DEF TypesAre
  <2>2. PICK batch \in [at : {"none", "taking", "storing"}, held : Nat, changed : BOOLEAN] :
          batch = Batch
    BY BatchType
  <2>3. CASE TakeOne
    <3>0. PICK m : m = Head(lane)
      OBVIOUS
    <3>1. PICK spared, crowded, refused \in BOOLEAN : TakenAs(m, batch, spared, crowded, refused)
      BY <2>2, <2>3, <3>0, OneTaken
    <3>2. ram'.batch = [batch EXCEPT
                         !.held = m.number,
                         !.changed = batch.changed \/ (m.op # "ASSIGN" /\ ~refused)]
      BY <2>1, <3>1 DEF RamType, TakenAs
    <3> QED
      BY <3>0, <3>2
  <2>4. CASE TakeFails \/ PassOver \/ TakeCaptured
    <3>1. ram'.batch = batch
      BY <2>1, <2>2, <2>4 DEF TakeFails, PassOver, TakeCaptured, RamType
    <3> QED
      BY <2>2, <3>1
  <2> QED
    BY <2>3, <2>4 DEF TakeRoster
<1> QED
  BY <1>1, <1>2, <1>3, <1>4, <1>5, BatchNumber DEF NumbersInv

(* A stretch of a sequence has what the sequence has there. *)
LEMMA Stretch ==
  ASSUME NEW S, NEW q \in Seq(S), NEW first \in Nat \ {0}, NEW last \in 0..Len(q)
  PROVE  /\ SubSeq(q, first, last) \in Seq(S)
         /\ \A i \in 1..Len(SubSeq(q, first, last)) :
              \E k \in 1..Len(q) : SubSeq(q, first, last)[i] = q[k]
<1>1. Len(q) \in Nat
  OBVIOUS
<1>2. \A k \in first..last : k \in 1..Len(q) /\ q[k] \in S
  BY <1>1
<1>3. SubSeq(q, first, last) = [i \in 1..(last - first + 1) |-> q[i + first - 1]]
  BY <1>1
<1>4. last - first + 1 \in Int
  BY <1>1
<1>5. SubSeq(q, first, last) \in Seq(S)
  BY <1>1, <1>2, SubSeqProperties
<1>6. ASSUME NEW i \in 1..(last - first + 1)
      PROVE  i + first - 1 \in 1..Len(q)
  BY <1>1, <1>6
<1>7. DOMAIN SubSeq(q, first, last) = 1..(last - first + 1)
  BY <1>3
<1>8. DOMAIN SubSeq(q, first, last) = 1..Len(SubSeq(q, first, last))
  BY <1>5
<1> QED
  BY <1>3, <1>5, <1>6, <1>7, <1>8

(* A message put into a queue: the rest of it is what was there. *)
LEMMA Inserted ==
  ASSUME NEW S, NEW q \in Seq(S), NEW at \in 0..Len(q), NEW mark \in S
  PROVE  /\ InsertAt(q, at + 1, mark) \in Seq(S)
         /\ \A i \in 1..Len(InsertAt(q, at + 1, mark)) :
              \/ InsertAt(q, at + 1, mark)[i] = mark
              \/ \E k \in 1..Len(q) : InsertAt(q, at + 1, mark)[i] = q[k]
<1>1. Len(q) \in Nat /\ at \in Nat
  OBVIOUS
<1>2. PICK before : before = SubSeq(q, 1, at)
  OBVIOUS
<1>3. before \in Seq(S) /\ \A i \in 1..Len(before) : \E k \in 1..Len(q) : before[i] = q[k]
  BY <1>1, <1>2, Stretch
<1>4. PICK after : after = SubSeq(q, at + 1, Len(q))
  OBVIOUS
<1>5. after \in Seq(S) /\ \A i \in 1..Len(after) : \E k \in 1..Len(q) : after[i] = q[k]
  <2>1. PICK first \in Nat \ {0} : first = at + 1
    BY <1>1
  <2>2. PICK last \in 0..Len(q) : last = Len(q)
    BY <1>1
  <2>3. after = SubSeq(q, first, last)
    BY <1>4, <2>1, <2>2, Zenon
  <2>4. /\ SubSeq(q, first, last) \in Seq(S)
        /\ \A i \in 1..Len(SubSeq(q, first, last)) :
              \E k \in 1..Len(q) : SubSeq(q, first, last)[i] = q[k]
    BY Stretch
  <2> QED
    BY <2>3, <2>4, Zenon
<1>6. (at + 1) - 1 = at
  BY <1>1
<1>7. InsertAt(q, at + 1, mark) = before \o <<mark>> \o after
  BY <1>2, <1>4, <1>6 DEF InsertAt
<1>8. PICK whole : whole = before \o <<mark>> \o after
  OBVIOUS
<1>9. whole \in Seq(S)
  BY <1>3, <1>5, <1>8
<1>10. ASSUME NEW i \in 1..Len(whole)
       PROVE  \/ \E j \in 1..Len(before) : whole[i] = before[j]
              \/ whole[i] = mark
              \/ \E j \in 1..Len(after) : whole[i] = after[j]
  <2>0. <<mark>> \in Seq(S) /\ Len(<<mark>>) = 1 /\ <<mark>>[1] = mark
    OBVIOUS
  <2>1. PICK marked \in Seq(S) : marked = before \o <<mark>>
    BY <1>3, <2>0, EndToEnd
  <2>2. /\ Len(marked) = Len(before) + 1 /\ Len(before) \in Nat
        /\ \A j \in 1..Len(before) : marked[j] = before[j]
        /\ marked[Len(before) + 1] = mark
    <3>1. PICK one \in Seq(S) : one = <<mark>> /\ Len(one) = 1 /\ one[1] = mark
      BY <2>0
    <3> QED
      BY <1>3, <2>1, <3>1, EndToEnd
  <2>3. whole = marked \o after
    BY <1>8, <2>1
  <2>4. \/ \E j \in 1..Len(marked) : whole[i] = marked[j]
        \/ \E j \in 1..Len(after) : whole[i] = after[j]
    <3>1. /\ Len(marked) \in Nat /\ Len(after) \in Nat /\ Len(whole) = Len(marked) + Len(after)
          /\ \A j \in 1..Len(marked) : whole[j] = marked[j]
          /\ \A j \in 1..Len(after) : whole[Len(marked) + j] = after[j]
      BY <1>5, <2>3, EndToEnd
    <3>2. PICK low \in Nat, high \in Nat : low = Len(marked) /\ high = Len(after)
      BY <3>1
    <3>3. i \in 1..low + high
      BY <3>1, <3>2
    <3>4. CASE i \in 1..low
      BY <3>1, <3>2, <3>4
    <3>5. CASE i \notin 1..low
      <4>1. i - low \in 1..high /\ i = low + (i - low)
        BY <3>3, <3>5
      <4> QED
        BY <3>1, <3>2, <4>1
    <3> QED
      BY <3>4, <3>5
  <2>5. ASSUME NEW j \in 1..Len(marked), whole[i] = marked[j]
        PROVE  whole[i] = mark \/ \E k \in 1..Len(before) : whole[i] = before[k]
    <3>1. j \in 1..Len(before) \/ j = Len(before) + 1
      BY <2>2
    <3>2. CASE j \in 1..Len(before)
      <4>1. marked[j] = before[j]
        BY <2>2, <3>2
      <4>2. whole[i] = before[j]
        BY <2>5, <4>1
      <4> QED
        BY <3>2, <4>2, Zenon
    <3>3. CASE j = Len(before) + 1
      <4>1. marked[j] = mark
        BY <2>2, <3>3
      <4> QED
        BY <2>5, <4>1
    <3> QED
      BY <3>1, <3>2, <3>3, Zenon
  <2> QED
    BY <2>4, <2>5
<1>11. ASSUME NEW i \in 1..Len(whole)
       PROVE  whole[i] = mark \/ \E k \in 1..Len(q) : whole[i] = q[k]
  <2>1. CASE \E j \in 1..Len(before) : whole[i] = before[j]
    BY <1>3, <2>1, Zenon
  <2>2. CASE \E j \in 1..Len(after) : whole[i] = after[j]
    BY <1>5, <2>2, Zenon
  <2> QED
    BY <1>10, <2>1, <2>2, Zenon
<1>12. InsertAt(q, at + 1, mark) = whole
  BY <1>7, <1>8, Zenon
<1> QED
  BY <1>9, <1>11, <1>12, Zenon

(* No step takes the kiosk past the counter, unless an older counter comes back. *)
LEMMA NextKeepsNumbers ==
  ASSUME ~Restores, TypesAre, NumbersInv, [RosterNext]_rosterVars
  PROVE  NumbersInv'
<1>r. ram \in RamType /\ flash \in FlashType /\ server.number \in Nat
  BY NumbersAre DEF TypesAre
<1>1. CASE UNCHANGED rosterVars
  BY <1>1 DEF NumbersInv, rosterVars
<1>2. CASE Dashboard \/ ResyncByHand \/ Converge \/ TakeReport \/ ApiRestart \/ BackUp
  <2>1. CASE UNCHANGED <<ram, flash, lane>> /\ server'.number = server.number
    BY <2>1 DEF NumbersInv
  <2>2. ASSUME NEW bodies, NEW after, NEW got, NEW from, Speaks(bodies, after, got, from),
               UNCHANGED <<ram, flash>>
        PROVE  NumbersInv'
    BY <2>2, SpokenNumbers
  <2> QED
    BY <1>2, <2>1, <2>2, ServerActs
<1>3. CASE TakeRoster
  BY <1>3, TakenNumbers
<1>4. CASE EndBatch
  <2>1. UNCHANGED <<server, lane>> /\ flash'.held = flash.held
    <3>1. UNCHANGED flash \/ flash' = [flash EXCEPT !.table = ram.table]
      BY <1>4 DEF EndBatch
    <3> QED
      BY <1>r, <1>4, <3>1 DEF EndBatch, FlashType
  <2>2. ram'.batch.held = ram.batch.held \/ ram'.batch.held = 0
    <3>1. CASE ram' = [ram EXCEPT !.batch.at = "storing"]
      BY <1>r, <3>1 DEF RamType
    <3>2. CASE ram' = [ram EXCEPT !.batch = NoBatch, !.gapped = TRUE]
      BY <1>r, <3>2 DEF RamType, NoBatch
    <3> QED
      BY <1>4, <3>1, <3>2 DEF EndBatch
  <2> QED
    BY <1>r, <2>1, <2>2 DEF NumbersInv
<1>5. CASE StoreNumber
  <2>1. UNCHANGED <<server, lane>> /\ ram'.batch.held = 0
    BY <1>r, <1>5 DEF StoreNumber, RamType, NoBatch
  <2>2. flash'.held = flash.held \/ flash'.held = ram.batch.held
    BY <1>r, <1>5 DEF StoreNumber, FlashType
  <2> QED
    BY <1>r, <2>1, <2>2 DEF NumbersInv
<1>6. CASE PowerCut
  <2>1. /\ UNCHANGED <<server, flash>> /\ ram'.batch.held = 0 /\ lane' = <<>>
    BY <1>6 DEF PowerCut, NoBatch
  <2> QED
    BY <1>r, <2>1 DEF NumbersInv
<1>7. CASE Heartbeat \/ LoseBeat \/ LeaveSession \/ NotAcked \/ \E p \in Staff : OpenSession(p) \/ Report(p)
  <2>1. UNCHANGED <<server, lane, ram, flash>>
    BY <1>7 DEF Heartbeat, LoseBeat, LeaveSession, NotAcked, OpenSession, Report, kiosk
  <2> QED
    BY <2>1 DEF NumbersInv
<1>8. CASE Acked \/ SealSession
  <2>1. PICK table : /\ ram' = [ram EXCEPT !.table = table]
                     /\ UNCHANGED flash \/ flash' = [flash EXCEPT !.table = table]
    BY <1>8 DEF Acked, SealSession
  <2>2. ram'.batch = ram.batch /\ flash'.held = flash.held /\ UNCHANGED server
    BY <1>r, <1>8, <2>1 DEF RamType, FlashType, Acked, SealSession
  <2>3. \A i \in 1..Len(lane') : lane'[i].number <= server.number
    <3>1. CASE UNCHANGED lane
      BY <3>1 DEF NumbersInv
    <3>2. CASE lane' # lane
      <4>1. PICK mark : mark = [op |-> "CAPTURED", who |-> capturing, face |-> 0, number |-> 0]
        OBVIOUS
      <4>2. mark.number <= server.number
        BY <1>r, <4>1
      <4>3. PICK at \in 0..Len(lane) : lane' = InsertAt(lane, at + 1, mark)
        BY <1>8, <3>2, <4>1 DEF Acked, SealSession
      <4>4. mark \in Message
        <5>1. capturing \in Staff /\ 0 \in Faces
          BY <1>8, <3>2, RosterAssumption DEF Acked, SealSession, TypesAre, Faces
        <5> QED
          BY <4>1, <5>1 DEF Message
      <4>5. PICK q \in Seq(Message) : q = lane
        BY DEF TypesAre
      <4>6. PICK whole : whole = InsertAt(q, at + 1, mark)
        OBVIOUS
      <4>7. \A i \in 1..Len(whole) : whole[i] = mark \/ \E k \in 1..Len(q) : whole[i] = q[k]
        <5>1. at \in 0..Len(q)
          BY <4>5
        <5>2. \A i \in 1..Len(InsertAt(q, at + 1, mark)) :
                \/ InsertAt(q, at + 1, mark)[i] = mark
                \/ \E k \in 1..Len(q) : InsertAt(q, at + 1, mark)[i] = q[k]
          BY <4>4, <5>1, Inserted
        <5> QED
          BY <4>6, <5>2, Zenon
      <4> QED
        BY <4>2, <4>3, <4>5, <4>6, <4>7 DEF NumbersInv
    <3> QED
      BY <3>1, <3>2
  <2> QED
    BY <1>r, <2>2, <2>3 DEF NumbersInv
<1>9. ~Restore
  BY DEF Restore
<1> QED
  BY <1>1, <1>2, <1>3, <1>4, <1>5, <1>6, <1>7, <1>8, <1>9 DEF RosterNext

(* roster_version and the counter of EnrollmentService: as long as no backup is put back, the
   number the kiosk names and the one its batch stands at never pass the server's, so no
   number is handed out a second time at this door. *)
THEOREM NumbersHold ==
  ASSUME ~Restores
  PROVE  RosterSpec => []NeverAhead
<1>1. RosterInit => RosterTypeOK /\ NumbersInv
  BY TypesInit DEF RosterInit, NumbersInv, NoBatch
<1>2. RosterTypeOK /\ NumbersInv /\ [RosterNext]_rosterVars => RosterTypeOK' /\ NumbersInv'
  BY NextKeepsTypes, NextKeepsNumbers, TypesAreTypes
<1>3. NumbersInv => NeverAhead
  BY DEF NumbersInv, NeverAhead
<1> QED
  BY <1>1, <1>2, <1>3, PTL DEF RosterSpec

(***************************************************************************)
(* Equal numbers mean equal rosters.                                       *)
(***************************************************************************)
\* From place i on, every message of W is one of R; and there is one of W.
StaysRight(q, i, W, R) == \A k \in i..Len(q) : q[k] \in W => q[k] \in R
EndsRight(q, i, W, R) == \E j \in i..Len(q) : q[j] \in W /\ StaysRight(q, j, W, R)
\* The kiosk is right now and stays so down the queue, or the queue sets it right.
Follows(q, now, W, R) == (now /\ StaysRight(q, 1, W, R)) \/ EndsRight(q, 1, W, R)

\* From place i on no number is missing up to top.
Chain(q, i, top) == \A k \in i..Len(q) : q[k].number + (Len(q) - k) = top

(* What stands of a queue stands of its tail, but for what its head alone made true. *)
LEMMA TailTaken ==
  ASSUME NEW S, NEW q \in Seq(S), q # <<>>, NEW W, NEW R
  PROVE  /\ StaysRight(q, 1, W, R) =>
              StaysRight(Tail(q), 1, W, R) /\ (Head(q) \in W => Head(q) \in R)
         /\ EndsRight(q, 1, W, R) =>
              \/ EndsRight(Tail(q), 1, W, R)
              \/ Head(q) \in W /\ Head(q) \in R /\ StaysRight(Tail(q), 1, W, R)
         /\ \A r \in 1..Len(Tail(q)) :
              EndsRight(q, r + 1, W, R) => EndsRight(Tail(q), r, W, R)
<1>1. PICK n \in Nat, t \in Seq(S) : /\ n = Len(q) /\ n >= 1 /\ t = Tail(q) /\ Len(t) = n - 1
                                     /\ \A k \in 1..n - 1 : t[k] = q[k + 1]
                                     /\ Head(q) = q[1]
  <2>1. /\ Len(q) \in Nat /\ Len(q) >= 1 /\ Tail(q) \in Seq(S) /\ Len(Tail(q)) = Len(q) - 1
        /\ \A k \in 1..Len(q) - 1 : Tail(q)[k] = q[k + 1]
        /\ Head(q) = q[1]
    OBVIOUS
  <2> QED
    BY <2>1, Zenon
<1>2. ASSUME NEW i \in 1..n, StaysRight(q, i + 1, W, R) PROVE StaysRight(t, i, W, R)
  <2>1. ASSUME NEW k \in i..n - 1, t[k] \in W PROVE t[k] \in R
    <3>1. k + 1 \in i + 1..n /\ k \in 1..n - 1
      BY <1>1
    <3> QED
      BY <1>1, <1>2, <2>1, <3>1 DEF StaysRight
  <2> QED
    BY <1>1, <2>1 DEF StaysRight
<1>3. ASSUME NEW i \in 1..n, NEW j \in i + 1..n, q[j] \in W, StaysRight(q, j, W, R)
      PROVE  EndsRight(t, i, W, R)
  <2>1. PICK k \in i..n - 1 : k + 1 = j /\ k \in 1..n - 1 /\ k \in 1..n
    <3>1. j - 1 \in i..n - 1 /\ (j - 1) + 1 = j /\ j - 1 \in 1..n - 1 /\ j - 1 \in 1..n
      BY <1>1
    <3> QED
      BY <3>1
  <2>2. StaysRight(t, k, W, R)
    BY <1>2, <1>3, <2>1
  <2>3. t[k] \in W
    BY <1>1, <1>3, <2>1
  <2> QED
    BY <1>1, <2>1, <2>2, <2>3 DEF EndsRight
<1>4. ASSUME StaysRight(q, 1, W, R)
      PROVE  StaysRight(q, 1 + 1, W, R) /\ (q[1] \in W => q[1] \in R)
  <2>1. 1 \in 1..n /\ \A k \in 1 + 1..n : k \in 1..n
    BY <1>1
  <2> QED
    BY <1>1, <1>4, <2>1 DEF StaysRight
<1>5. 1 \in 1..n
  BY <1>1
<1>6. StaysRight(q, 1, W, R) => StaysRight(t, 1, W, R) /\ (q[1] \in W => q[1] \in R)
  BY <1>2, <1>4, <1>5
<1>7. ASSUME EndsRight(q, 1, W, R)
      PROVE  EndsRight(t, 1, W, R) \/ (q[1] \in W /\ q[1] \in R /\ StaysRight(t, 1, W, R))
  <2>1. PICK j \in 1..n : q[j] \in W /\ StaysRight(q, j, W, R)
    BY <1>1, <1>7 DEF EndsRight
  <2>2. CASE j = 1
    BY <1>6, <2>1, <2>2
  <2>3. CASE j # 1
    <3>1. j \in 1 + 1..n
      BY <1>1, <2>3
    <3> QED
      BY <1>3, <1>5, <2>1, <3>1
  <2> QED
    BY <2>2, <2>3
<1>8. ASSUME NEW r \in 1..n - 1, EndsRight(q, r + 1, W, R) PROVE EndsRight(t, r, W, R)
  <2>1. PICK j \in r + 1..n : q[j] \in W /\ StaysRight(q, j, W, R)
    BY <1>1, <1>8 DEF EndsRight
  <2>2. r \in 1..n
    BY <1>1
  <2> QED
    BY <1>3, <2>1, <2>2
<1> QED
  BY <1>1, <1>6, <1>7, <1>8

(* What stands of what joins a queue stands of the whole; what does not speak of it changes nothing. *)
LEMMA Joined ==
  ASSUME NEW S, NEW q \in Seq(S), NEW got \in Seq(S), NEW i \in 1..Len(q) + 1, NEW W, NEW R
  PROVE  /\ EndsRight(got, 1, W, R) => EndsRight(q \o got, i, W, R)
         /\ (\A k \in 1..Len(got) : got[k] \notin W) =>
              /\ StaysRight(q, i, W, R) => StaysRight(q \o got, i, W, R)
              /\ EndsRight(q, i, W, R) => EndsRight(q \o got, i, W, R)
<1>1. PICK n \in Nat, g \in Nat, both \in Seq(S) :
        /\ n = Len(q) /\ g = Len(got) /\ both = q \o got /\ Len(both) = n + g
        /\ \A k \in 1..n : both[k] = q[k]
        /\ \A k \in 1..g : both[n + k] = got[k]
  <2>1. /\ q \o got \in Seq(S)
        /\ Len(q) \in Nat /\ Len(got) \in Nat
        /\ Len(q \o got) = Len(q) + Len(got)
        /\ \A j \in 1..Len(q) : (q \o got)[j] = q[j]
        /\ \A k \in 1..Len(got) : (q \o got)[Len(q) + k] = got[k]
    BY EndToEnd
  <2> QED
    BY <2>1, Zenon
<1>2. ASSUME NEW k \in 1..n + g, k \notin 1..n
      PROVE  k - n \in 1..g /\ k = n + (k - n) /\ both[k] = got[k - n]
  <2>1. k - n \in 1..g /\ k = n + (k - n)
    BY <1>1, <1>2
  <2> QED
    BY <1>1, <2>1
<1>3. ASSUME EndsRight(got, 1, W, R) PROVE EndsRight(both, i, W, R)
  <2>1. PICK j \in 1..g : got[j] \in W /\ \A k \in j..g : got[k] \in W => got[k] \in R
    BY <1>1, <1>3 DEF EndsRight, StaysRight
  <2>2. n + j \in i..n + g /\ n + j \in Nat
    BY <1>1
  <2>3. ASSUME NEW k \in n + j..n + g, both[k] \in W PROVE both[k] \in R
    <3>1. k \in 1..n + g /\ k \notin 1..n /\ k - n \in j..g
      BY <1>1
    <3> QED
      BY <1>2, <2>1, <2>3, <3>1
  <2>4. both[n + j] \in W
    BY <1>1, <2>1
  <2>5. StaysRight(both, n + j, W, R)
    BY <1>1, <2>3 DEF StaysRight
  <2> QED
    BY <1>1, <2>2, <2>4, <2>5 DEF EndsRight
<1>4. ASSUME \A k \in 1..g : got[k] \notin W, NEW j \in i..n + 1, StaysRight(q, j, W, R)
      PROVE  StaysRight(both, j, W, R)
  <2>1. ASSUME NEW k \in j..n + g, both[k] \in W PROVE both[k] \in R
    <3>1. k \in 1..n + g
      BY <1>1
    <3>2. k \in 1..n
      BY <1>2, <1>4, <2>1, <3>1
    <3>3. k \in j..n /\ both[k] = q[k]
      BY <1>1, <3>2
    <3> QED
      BY <1>1, <1>4, <2>1, <3>3 DEF StaysRight
  <2> QED
    BY <1>1, <2>1 DEF StaysRight
<1>5. ASSUME \A k \in 1..g : got[k] \notin W, EndsRight(q, i, W, R)
      PROVE  EndsRight(both, i, W, R)
  <2>1. PICK j \in i..n : q[j] \in W /\ StaysRight(q, j, W, R)
    BY <1>1, <1>5 DEF EndsRight
  <2>2. j \in i..n + 1 /\ j \in i..n + g /\ j \in 1..n
    BY <1>1
  <2>3. StaysRight(both, j, W, R)
    BY <1>4, <1>5, <2>1, <2>2
  <2> QED
    BY <1>1, <2>1, <2>2, <2>3 DEF EndsRight
<1>6. i \in i..n + 1
  BY <1>1
<1> QED
  BY <1>1, <1>3, <1>4, <1>5, <1>6

\* From the s-th of what arrived on, nothing of what was sent is missing.
NoneMissing(bodies, got, from, s) == from[s] + (Len(got) - s) = Len(bodies)

(* When a stretch that ends in what was sent has every number up to the last, all   *)
(* that was sent arrived, and the lane before it had every number up to its last.  *)
LEMMA ChainJoined ==
  ASSUME NEW q \in Seq(Message), NEW bodies \in Seq(Message), NEW after \in Nat, NEW now \in Nat,
         now <= after, NEW got, NEW from, Arrives(bodies, after, got, from),
         \A k \in 1..Len(q) : q[k].number <= now
  PROVE  /\ \A i \in 1..Len(q) : Chain(q \o got, i, after + Len(bodies)) =>
               Chain(q, i, now) /\ Len(got) = Len(bodies) /\ now = after
         /\ \A s \in 1..Len(got) : Chain(q \o got, Len(q) + s, after + Len(bodies)) =>
               NoneMissing(bodies, got, from, s)
<1>1. got \in Seq(Message) /\ Len(got) \in Nat /\ Len(got) <= Len(bodies)
  BY DEF Arrives
<1>j. /\ q \o got \in Seq(Message)
      /\ Len(q) \in Nat /\ Len(got) \in Nat
      /\ Len(q \o got) = Len(q) + Len(got)
      /\ \A j \in 1..Len(q) : (q \o got)[j] = q[j]
      /\ \A k \in 1..Len(got) : (q \o got)[Len(q) + k] = got[k]
  BY <1>1, EndToEnd
<1>n. PICK n \in Nat : n = Len(q)
  BY <1>j
<1>g. PICK g \in Nat : g = Len(got)
  BY <1>j
<1>b. PICK b \in Nat : b = Len(bodies)
  OBVIOUS
<1>w. PICK both \in Seq(Message) : both = q \o got
  BY <1>j
<1>2. /\ n = Len(q) /\ g = Len(got) /\ b = Len(bodies) /\ both = q \o got /\ Len(both) = n + g
      /\ \A k \in 1..n : both[k] = q[k]
      /\ \A k \in 1..g : both[n + k] = got[k]
  BY <1>j, <1>n, <1>g, <1>b, <1>w, Zenon
<1>3. g <= b
  BY <1>1, <1>2
<1>4. ASSUME NEW k \in 1..n PROVE q[k].number \in Nat /\ q[k].number <= now
  <2>1. q[k] \in Message
    BY <1>2
  <2> QED
    BY <1>2, <2>1 DEF Message
<1>5. ASSUME NEW i \in 1..n, Chain(both, i, after + b)
      PROVE  Chain(q, i, now) /\ g = b /\ now = after
  <2>1. n \in 1..n /\ n \in i..n + g /\ n \in Nat
    BY <1>2
  <2>2. q[n].number + g = after + b
    <3>1. both[n].number + ((n + g) - n) = after + b
      BY <1>2, <1>5, <2>1 DEF Chain
    <3>2. both[n] = q[n] /\ (n + g) - n = g
      BY <1>2, <2>1
    <3> QED
      BY <3>1, <3>2
  <2>3. q[n].number \in Nat /\ q[n].number <= now
    BY <1>4, <2>1
  <2>4. g = b /\ now = after
    BY <1>3, <2>2, <2>3
  <2>5. ASSUME NEW k \in i..n PROVE q[k].number + (n - k) = now
    <3>1. k \in 1..n /\ k \in i..n + g
      BY <1>2
    <3>2. both[k].number + ((n + g) - k) = after + b
      BY <1>2, <1>5, <3>1 DEF Chain
    <3>3. both[k] = q[k] /\ q[k].number \in Nat
      BY <1>2, <1>4, <3>1
    <3>4. PICK v \in Nat : v = q[k].number
      BY <3>3
    <3>5. v + ((n + g) - k) = after + b
      BY <3>2, <3>3, <3>4, Zenon
    <3>6. v + (n - k) = now
      BY <2>4, <3>1, <3>5
    <3> QED
      BY <3>4, <3>6
  <2> QED
    BY <1>2, <2>4, <2>5 DEF Chain
<1>6. ASSUME NEW s \in 1..g, Chain(both, n + s, after + b)
      PROVE  from[s] + (g - s) = b
  <2>1. n + s \in n + s..n + g
    BY <1>2
  <2>2. both[n + s].number + ((n + g) - (n + s)) = after + b
    BY <1>2, <1>6, <2>1 DEF Chain
  <2>3. both[n + s] = got[s] /\ got[s].number = after + from[s] /\ from[s] \in 1..b
    BY <1>2, GotNumbers
  <2> QED
    BY <1>2, <2>2, <2>3
<1>7. ASSUME NEW s \in 1..g, Chain(both, n + s, after + b)
      PROVE  NoneMissing(bodies, got, from, s)
  BY <1>2, <1>6, <1>7 DEF NoneMissing
<1> QED
  BY <1>2, <1>5, <1>7

\* The number sync_task has reached, stored or not.
Reached == Batch.held

\* A door that captures nothing: no session, no report, no sample of its own.
NoCaptures ==
  /\ capturing = 0 /\ reporting = NoReport /\ reports = <<>>
  /\ \A p \in Staff : ram.table[p].own = 0 /\ flash.table[p].own = 0
  /\ \A i \in 1..Len(lane) : lane[i].op # "CAPTURED"

\* The lane's numbers ascend, and all lie past the one reached.
Ascending ==
  /\ \A i, j \in 1..Len(lane) : i < j => lane[i].number < lane[j].number
  /\ \A i \in 1..Len(lane) : Reached < lane[i].number
  /\ flash.held <= Reached

\* What flash has: the number reached with the table that goes with it, or an older number;
\* and a kiosk that waits for a REPLACE_ALL is behind the server.
Saved ==
  /\ ram.batch.at = "none" => ram.batch = NoBatch
  /\ ram.batch.at = "taking" /\ ram.batch.changed => flash.held < ram.batch.held
  /\ ram.gapped => Reached < server.number
  /\ ~ram.gapped => ram.table = flash.table \/ (ram.batch.at = "taking" /\ ram.batch.changed)
  /\ flash.asks = ram.asks

\* The face of p the server wants at the door, and whether p is asked for one.
HeldFor(p) == IF server.pair[p] \in Active THEN server.face[p] ELSE 0
WaitsFor(p) == server.pair[p] \in Waiting

\* The messages that set p's place in the face table, and those that leave f there;
\* the messages that settle whether p is asked for, and those that settle it as asked.
Placing(p) == {m \in Message : m.op = "REPLACE_ALL"
                               \/ (m.who = p /\ m.op \in {"UPSERT", "DELETE_EMPLOYEE"})}
PlacedAs(f) == {m \in Message : (IF m.op = "UPSERT" THEN m.face ELSE 0) = f}
Asking(p) == {m \in Message : m.op = "REPLACE_ALL" \/ m.who = p}
AskedAs(asked) == {m \in Message : (m.op = "ASSIGN") <=> asked}

\* The kiosk has p's face as the server wants it, but for one the full table refused; and
\* asks for one if the server waits, but for an ask the full list refused, and for one that
\* stays when the face is refused.
HoldsNow(p) == ram.table[p].held = HeldFor(p) \/ (p \in ram.lacks /\ ram.table[p].held = 0)
AsksNow(p) ==
  /\ p \in ram.asks => WaitsFor(p) \/ p \in ram.lacks
  /\ WaitsFor(p) => p \in ram.asks \cup ram.spent

\* The kiosk misses nothing between where it is and where the server is.
Live == ~ram.gapped /\ Reached + Len(lane) = server.number /\ Chain(lane, 1, server.number)

\* A kiosk that misses nothing becomes right by the end of the lane, and so does one that
\* finds a REPLACE_ALL with nothing missing behind it.
Followed ==
  /\ Live => \A p \in Staff :
       /\ Follows(lane, HoldsNow(p), Placing(p), PlacedAs(HeldFor(p)))
       /\ Follows(lane, AsksNow(p), Asking(p), AskedAs(WaitsFor(p)))
  /\ \A r \in 1..Len(lane) : lane[r].op = "REPLACE_ALL" /\ Chain(lane, r, server.number) =>
       \A p \in Staff : /\ EndsRight(lane, r, Placing(p), PlacedAs(HeldFor(p)))
                        /\ EndsRight(lane, r, Asking(p), AskedAs(WaitsFor(p)))

RosterInv == TypesAre /\ NumbersInv /\ NoCaptures /\ Ascending /\ Saved /\ Followed

(* A message's number says nothing of what it does. *)
Blind(W) == \A m \in Message : \A n \in Nat : ([m EXCEPT !.number = n] \in W) <=> (m \in W)

(* None of the sets looks at a message's number. *)
LEMMA AllBlind ==
  ASSUME NEW p, NEW f, NEW asked \in BOOLEAN
  PROVE  Blind(Placing(p)) /\ Blind(PlacedAs(f)) /\ Blind(Asking(p)) /\ Blind(AskedAs(asked))
<1>1. ASSUME NEW m \in Message, NEW n \in Nat, NEW m2, m2 = [m EXCEPT !.number = n]
      PROVE  m2 \in Message /\ m2.op = m.op /\ m2.who = m.who /\ m2.face = m.face
  BY <1>1 DEF Message
<1>2. Blind(Placing(p))
  BY <1>1, Zenon DEF Blind, Placing
<1>3. Blind(PlacedAs(f))
  BY <1>1, Zenon DEF Blind, PlacedAs
<1>4. Blind(Asking(p))
  BY <1>1, Zenon DEF Blind, Asking
<1>5. Blind(AskedAs(asked))
  BY <1>1, Zenon DEF Blind, AskedAs
<1> QED
  BY <1>2, <1>3, <1>4, <1>5

(* All that was said arrived. *)
LEMMA AllArrived ==
  ASSUME NEW bodies \in Seq(Message), NEW after \in Nat, NEW got, NEW from,
         Arrives(bodies, after, got, from), Len(got) = Len(bodies), NEW W, Blind(W)
  PROVE  \A k \in 1..Len(bodies) : (got[k] \in W) <=> (bodies[k] \in W)
<1>1. ASSUME NEW k \in 1..Len(bodies)
      PROVE  (got[k] \in W) <=> (bodies[k] \in W)
  <2>1. from[k] = k /\ got[k] = [bodies[from[k]] EXCEPT !.number = after + from[k]]
    BY DEF Arrives
  <2>2. PICK n \in Nat : n = after + k
    OBVIOUS
  <2>3. got[k] = [bodies[k] EXCEPT !.number = n]
    BY <2>1, <2>2
  <2>4. bodies[k] \in Message
    OBVIOUS
  <2> QED
    <3>1. ([bodies[k] EXCEPT !.number = n] \in W) <=> (bodies[k] \in W)
      BY <2>4, Zenon DEF Blind
    <3> QED
      BY <2>3, <3>1, Zenon
<1> QED
  BY <1>1

(* If all of it arrived, what arrived ends as what was said. *)
LEMMA EndsRightArrived ==
  ASSUME NEW bodies \in Seq(Message), NEW after \in Nat, NEW got, NEW from,
         Arrives(bodies, after, got, from), Len(got) = Len(bodies),
         NEW W, NEW R, Blind(W), Blind(R), EndsRight(bodies, 1, W, R)
  PROVE  EndsRight(got, 1, W, R)
<1>1. /\ \A k \in 1..Len(bodies) : (got[k] \in W) <=> (bodies[k] \in W)
      /\ \A k \in 1..Len(bodies) : (got[k] \in R) <=> (bodies[k] \in R)
  BY AllArrived
<1>2. PICK b \in Nat : b = Len(bodies) /\ b = Len(got)
  OBVIOUS
<1>3. PICK j \in 1..b : bodies[j] \in W /\ \A k \in j..b : bodies[k] \in W => bodies[k] \in R
  BY <1>2 DEF EndsRight, StaysRight
<1>4. \A k \in j..b : k \in 1..b
  OBVIOUS
<1>5. got[j] \in W /\ \A k \in j..b : got[k] \in W => got[k] \in R
  BY <1>1, <1>2, <1>3, <1>4
<1> QED
  BY <1>2, <1>5 DEF EndsRight, StaysRight

(* A last message settles what came before it. *)
LEMMA EndsRightLast ==
  ASSUME NEW m, NEW W, NEW R, m \in W, m \in R
  PROVE  EndsRight(<<m>>, 1, W, R) /\ \A first : EndsRight(<<first, m>>, 1, W, R)
<1>1. EndsRight(<<m>>, 1, W, R)
  <2>1. Len(<<m>>) = 1 /\ 1 \in 1..1 /\ <<m>>[1] = m /\ \A k \in 1..1 : k = 1
    OBVIOUS
  <2> QED
    BY <2>1, Zenon DEF EndsRight, StaysRight
<1>2. ASSUME NEW first PROVE EndsRight(<<first, m>>, 1, W, R)
  <2>1. Len(<<first, m>>) = 2 /\ 2 \in 1..2 /\ <<first, m>>[2] = m /\ \A k \in 2..2 : k = 2
    OBVIOUS
  <2> QED
    BY <2>1, Zenon DEF EndsRight, StaysRight
<1> QED
  BY <1>1, <1>2

(* What each message says, and of whom. *)
LEMMA BodySets ==
  ASSUME NEW p \in Staff, NEW x \in Staff, NEW f \in Faces, NEW v, NEW asked \in BOOLEAN
  PROVE  /\ Ask(p) \notin Placing(x) /\ (Ask(p) \in Asking(x) <=> p = x)
         /\ (Ask(p) \in AskedAs(asked) <=> asked)
         /\ (Upsert(p, f) \in Placing(x) <=> p = x) /\ (Upsert(p, f) \in Asking(x) <=> p = x)
         /\ (Upsert(p, f) \in PlacedAs(v) <=> f = v) /\ (Upsert(p, f) \in AskedAs(asked) <=> ~asked)
         /\ (Drop(p) \in Placing(x) <=> p = x) /\ (Drop(p) \in Asking(x) <=> p = x)
         /\ (Drop(p) \in PlacedAs(v) <=> 0 = v) /\ (Drop(p) \in AskedAs(asked) <=> ~asked)
         /\ StartOver \in Placing(x) /\ StartOver \in Asking(x)
         /\ (StartOver \in PlacedAs(v) <=> 0 = v) /\ (StartOver \in AskedAs(asked) <=> ~asked)
<1>1. Ask(p) \in Message /\ Upsert(p, f) \in Message /\ Drop(p) \in Message /\ StartOver \in Message
  BY BodiesAreMessages
<1>2. /\ Ask(p).op = "ASSIGN" /\ Ask(p).who = p
      /\ Upsert(p, f).op = "UPSERT" /\ Upsert(p, f).who = p /\ Upsert(p, f).face = f
      /\ Drop(p).op = "DELETE_EMPLOYEE" /\ Drop(p).who = p
      /\ StartOver.op = "REPLACE_ALL"
  BY DEF Ask, Upsert, Drop, StartOver
<1>3. Ask(p) \notin Placing(x) /\ (Ask(p) \in Asking(x) <=> p = x) /\ (Ask(p) \in AskedAs(asked) <=> asked)
  BY <1>1, <1>2 DEF Placing, Asking, AskedAs
<1>4. /\ (Upsert(p, f) \in Placing(x) <=> p = x) /\ (Upsert(p, f) \in Asking(x) <=> p = x)
      /\ (Upsert(p, f) \in PlacedAs(v) <=> f = v) /\ (Upsert(p, f) \in AskedAs(asked) <=> ~asked)
  BY <1>1, <1>2 DEF Placing, Asking, AskedAs, PlacedAs
<1>5. /\ (Drop(p) \in Placing(x) <=> p = x) /\ (Drop(p) \in Asking(x) <=> p = x)
      /\ (Drop(p) \in PlacedAs(v) <=> 0 = v) /\ (Drop(p) \in AskedAs(asked) <=> ~asked)
  BY <1>1, <1>2 DEF Placing, Asking, AskedAs, PlacedAs
<1>6. /\ StartOver \in Placing(x) /\ StartOver \in Asking(x)
      /\ (StartOver \in PlacedAs(v) <=> 0 = v) /\ (StartOver \in AskedAs(asked) <=> ~asked)
  BY <1>1, <1>2 DEF Placing, Asking, AskedAs, PlacedAs
<1> QED
  BY <1>3, <1>4, <1>5, <1>6

(* What is said keeps the lane in order and the kiosk behind it. *)
LEMMA SpokenOrder ==
  ASSUME RosterInv, UNCHANGED <<ram, flash>>,
         NEW bodies, NEW after, NEW got, NEW from, Speaks(bodies, after, got, from)
  PROVE  NumbersInv' /\ Ascending' /\ Saved'
<1>1. TypesAre /\ NumbersInv /\ Ascending /\ Saved
  BY DEF RosterInv
<1>2. NumbersInv'
  BY <1>1, SpokenNumbers
<1>3. /\ bodies \in Seq(Message) /\ Len(bodies) \in Nat /\ after \in Nat /\ server.number <= after
      /\ Arrives(bodies, after, got, from) /\ lane' = lane \o got
      /\ server'.number = after + Len(bodies) /\ got \in Seq(Message) /\ lane \in Seq(Message)
  BY <1>1 DEF Speaks, Arrives, TypesAre
<1>4. /\ Batch' = Batch /\ Batch.held \in Nat /\ Batch.held <= server.number
      /\ flash.held \in Nat /\ server.number \in Nat
  BY <1>1, BatchNumber, NumbersAre DEF Batch
<1>5. PICK n \in Nat, g \in Nat, both \in Seq(Message) :
        /\ n = Len(lane) /\ g = Len(got) /\ both = lane' /\ Len(both) = n + g
        /\ \A k \in 1..n : both[k] = lane[k]
        /\ \A k \in 1..g : both[n + k] = got[k]
  <2>1. /\ lane \o got \in Seq(Message)
        /\ Len(lane) \in Nat /\ Len(got) \in Nat
        /\ Len(lane \o got) = Len(lane) + Len(got)
        /\ \A j \in 1..Len(lane) : (lane \o got)[j] = lane[j]
        /\ \A k \in 1..Len(got) : (lane \o got)[Len(lane) + k] = got[k]
    BY <1>3, EndToEnd
  <2> QED
    BY <1>3, <2>1, Zenon
<1>6. ASSUME NEW k \in 1..n
      PROVE  both[k].number = lane[k].number /\ lane[k].number \in Nat
             /\ lane[k].number <= server.number /\ Batch.held < lane[k].number
  BY <1>1, <1>5, NumbersAre DEF NumbersInv, Ascending, Reached
<1>7. ASSUME NEW k \in 1..n + g, k \notin 1..n
      PROVE  /\ k - n \in 1..g /\ from[k - n] \in Nat /\ from[k - n] >= 1
             /\ both[k].number = after + from[k - n]
             /\ both[k].number \in Nat /\ after < both[k].number
  <2>1. k - n \in 1..g /\ k = n + (k - n)
    BY <1>5, <1>7
  <2>2. both[k] = got[k - n]
    BY <1>5, <2>1
  <2>3. from[k - n] \in 1..Len(bodies) /\ got[k - n].number = after + from[k - n]
    BY <1>3, <1>5, <2>1, GotNumbers
  <2>4. PICK f \in Nat : f = from[k - n] /\ f >= 1
    BY <1>3, <2>3
  <2>5. both[k].number = after + f /\ after + f \in Nat /\ after < after + f
    BY <1>3, <2>2, <2>3, <2>4
  <2> QED
    BY <2>1, <2>4, <2>5, Zenon
<1>8. ASSUME NEW i \in 1..n + g, NEW j \in 1..n + g, i < j PROVE both[i].number < both[j].number
  <2>1. CASE j \in 1..n
    <3>1. i \in 1..n
      BY <1>8, <2>1
    <3>2. lane[i].number < lane[j].number
      BY <1>1, <1>5, <1>8, <2>1, <3>1 DEF Ascending
    <3> QED
      BY <1>6, <2>1, <3>1, <3>2
  <2>2. CASE j \notin 1..n /\ i \in 1..n
    <3>1. lane[i].number \in Nat /\ lane[i].number <= server.number
          /\ both[i].number = lane[i].number
      BY <1>6, <2>2
    <3>2. both[j].number \in Nat /\ after < both[j].number
      BY <1>7, <2>2
    <3>3. server.number \in Nat /\ after \in Nat /\ server.number <= after
      BY <1>3, <1>4
    <3> QED
      BY <3>1, <3>2, <3>3
  <2>3. CASE j \notin 1..n /\ i \notin 1..n
    <3>1. i - n \in 1..g /\ j - n \in 1..g /\ i - n < j - n
      BY <1>7, <1>8, <2>3
    <3>2. from[i - n] < from[j - n]
      BY <1>3, <1>5, <3>1 DEF Arrives
    <3> QED
      <4>1. PICK low \in Nat, top \in Nat : low = from[i - n] /\ top = from[j - n]
        BY <1>7, <2>3
      <4>2. both[i].number = after + low /\ both[j].number = after + top
        BY <1>7, <2>3, <4>1
      <4>3. PICK a \in Nat : a = after
        BY <1>3
      <4>4. a + low < a + top
        BY <3>2, <4>1
      <4> QED
        BY <4>2, <4>3, <4>4
  <2> QED
    BY <2>1, <2>2, <2>3
<1>9. ASSUME NEW k \in 1..n + g PROVE Batch.held < both[k].number
  <2>1. CASE k \in 1..n
    BY <1>6, <2>1
  <2>2. CASE k \notin 1..n
    <3>1. both[k].number \in Nat /\ after < both[k].number
      BY <1>7, <2>2
    <3>2. /\ server.number \in Nat /\ after \in Nat /\ server.number <= after
          /\ Batch.held \in Nat /\ Batch.held <= server.number
      BY <1>3, <1>4
    <3> QED
      BY <3>1, <3>2
  <2> QED
    BY <2>1, <2>2
<1>10. Ascending'
  <2>1. flash'.held <= Batch'.held
    BY <1>1, <1>4 DEF Ascending, Reached
  <2>2. \A i, j \in 1..Len(lane') : i < j => lane'[i].number < lane'[j].number
    BY <1>5, <1>8
  <2>3. \A i \in 1..Len(lane') : Batch'.held < lane'[i].number
    BY <1>4, <1>5, <1>9
  <2> QED
    BY <2>1, <2>2, <2>3 DEF Ascending, Reached
<1>11. Saved'
  <2>1. server.number <= server'.number /\ server'.number \in Nat
    BY <1>3, <1>4
  <2>2. ram.gapped => Reached' < server'.number
    BY <1>1, <1>4, <2>1 DEF Saved, Reached
  <2> QED
    BY <1>1, <2>2 DEF Saved
<1> QED
  BY <1>2, <1>10, <1>11

(* If no number is missing after the server spoke, none was before and all it said arrived. *)
LEMMA SpokenChain ==
  ASSUME RosterInv, UNCHANGED <<ram, flash>>,
         NEW bodies, NEW after, NEW got, NEW from, Speaks(bodies, after, got, from)
  PROVE  /\ Live' => Live /\ Len(got) = Len(bodies)
         /\ \A r \in 1..Len(lane) : Chain(lane', r, server'.number) =>
              Chain(lane, r, server.number) /\ Len(got) = Len(bodies)
         /\ \A s \in 1..Len(got) : Chain(lane', Len(lane) + s, server'.number) =>
              NoneMissing(bodies, got, from, s)
<1>1. TypesAre /\ NumbersInv
  BY DEF RosterInv
<1>2. /\ bodies \in Seq(Message) /\ after \in Nat /\ server.number <= after
      /\ Arrives(bodies, after, got, from) /\ lane' = lane \o got
      /\ server'.number = after + Len(bodies) /\ got \in Seq(Message) /\ lane \in Seq(Message)
      /\ Len(got) <= Len(bodies)
  BY <1>1 DEF Speaks, Arrives, TypesAre
<1>3. PICK q \in Seq(Message), now \in Nat : q = lane /\ now = server.number
  BY <1>1, <1>2, NumbersAre
<1>4. /\ \A i \in 1..Len(q) : Chain(q \o got, i, after + Len(bodies)) =>
               Chain(q, i, now) /\ Len(got) = Len(bodies) /\ now = after
      /\ \A s \in 1..Len(got) : Chain(q \o got, Len(q) + s, after + Len(bodies)) =>
               NoneMissing(bodies, got, from, s)
  <2>1. \A k \in 1..Len(q) : q[k].number <= now
    BY <1>1, <1>3 DEF NumbersInv
  <2>2. now <= after
    BY <1>2, <1>3
  <2> QED
    BY <1>2, <2>1, <2>2, ChainJoined
<1>5. PICK n \in Nat, g \in Nat, b \in Nat : n = Len(q) /\ g = Len(got) /\ b = Len(bodies)
  BY <1>2, <1>3
<1>6. Len(q \o got) = n + g /\ g <= b /\ now <= after
  BY <1>2, <1>3, <1>5
<1>7. PICK reached \in Nat : reached = Reached /\ reached = Reached' /\ reached <= now
  BY <1>1, <1>3, BatchNumber DEF Reached, Batch
<1>8. ASSUME Live' PROVE Live /\ g = b
  <2>1. reached + (n + g) = after + b /\ Chain(q \o got, 1, after + b) /\ ~ram.gapped
    BY <1>2, <1>3, <1>5, <1>6, <1>7, <1>8 DEF Live
  <2>2. CASE n = 0
    <3>1. g = b /\ reached = now
      <4>1. /\ reached + (n + g) = after + b /\ g <= b /\ now <= after /\ reached <= now
            /\ after \in Nat
        BY <1>2, <1>6, <1>7, <2>1
      <4> QED
        BY <2>2, <4>1
    <3>2. Chain(q, 1, now)
      BY <1>5, <2>2 DEF Chain
    <3> QED
      BY <1>3, <1>5, <1>7, <2>1, <2>2, <3>1, <3>2 DEF Live
  <2>3. CASE n # 0
    <3>1. 1 \in 1..n
      BY <2>3
    <3>2. Chain(q, 1, now) /\ g = b /\ now = after
      BY <1>4, <1>5, <2>1, <3>1
    <3>3. reached + n = now
      BY <2>1, <3>2
    <3> QED
      BY <1>3, <1>5, <1>7, <2>1, <3>2, <3>3 DEF Live
  <2> QED
    BY <2>2, <2>3
<1> QED
  BY <1>2, <1>3, <1>4, <1>5, <1>8

\* What is said of each person is the last word on them, or they are not spoken of
\* and nothing of them changed; a REPLACE_ALL comes first and covers everybody.
Speaking(bodies) ==
  /\ \A p \in Staff :
       /\ \/ EndsRight(bodies, 1, Placing(p), PlacedAs(HeldFor(p)'))
          \/ HeldFor(p)' = HeldFor(p) /\ \A k \in 1..Len(bodies) : bodies[k] \notin Placing(p)
       /\ \/ EndsRight(bodies, 1, Asking(p), AskedAs(WaitsFor(p)'))
          \/ WaitsFor(p)' = WaitsFor(p) /\ \A k \in 1..Len(bodies) : bodies[k] \notin Asking(p)
  /\ \A k \in 1..Len(bodies) :
       /\ bodies[k].op # "CAPTURED"
       /\ bodies[k].op = "REPLACE_ALL" =>
            /\ k = 1
            /\ \A p \in Staff : /\ EndsRight(bodies, 1, Placing(p), PlacedAs(HeldFor(p)'))
                                /\ EndsRight(bodies, 1, Asking(p), AskedAs(WaitsFor(p)'))

(* Whoever follows the lane to its end is still right after the server spoke. *)
LEMMA SpokenFollowed ==
  ASSUME RosterInv, UNCHANGED <<ram, flash>>,
         NEW bodies, NEW after, NEW got, NEW from, Speaks(bodies, after, got, from),
         Speaking(bodies)
  PROVE  Followed'
<1>1. TypesAre /\ Followed
  BY DEF RosterInv
<1>2. /\ bodies \in Seq(Message) /\ after \in Nat
      /\ Arrives(bodies, after, got, from) /\ lane' = lane \o got
      /\ got \in Seq(Message) /\ lane \in Seq(Message)
  BY <1>1 DEF Speaks, Arrives, TypesAre
<1>3. PICK q \in Seq(Message) : q = lane
  BY <1>2
<1>4. PICK n \in Nat, g \in Nat, b \in Nat : n = Len(q) /\ g = Len(got) /\ b = Len(bodies)
  BY <1>2
<1>5. ASSUME NEW W, NEW R, NEW R2, NEW now, NEW now2, Blind(W), Blind(R2), g = b,
             \/ EndsRight(bodies, 1, W, R2)
             \/ R2 = R /\ (now => now2) /\ \A k \in 1..Len(bodies) : bodies[k] \notin W
      PROVE  /\ Follows(q, now, W, R) => Follows(q \o got, now2, W, R2)
             /\ \A r \in 1..n : EndsRight(q, r, W, R) => EndsRight(q \o got, r, W, R2)
             /\ EndsRight(bodies, 1, W, R2) => EndsRight(q \o got, n + 1, W, R2)
  <2>1. 1 \in 1..n + 1 /\ n + 1 \in 1..n + 1 /\ \A r \in 1..n : r \in 1..n + 1
    OBVIOUS
  <2>2. CASE EndsRight(bodies, 1, W, R2)
    <3>1. EndsRight(got, 1, W, R2)
      BY <1>2, <1>4, <1>5, <2>2, EndsRightArrived
    <3>2. \A r \in 1..n + 1 : EndsRight(q \o got, r, W, R2)
      BY <1>2, <1>4, <3>1, Joined
    <3> QED
      BY <2>1, <3>2 DEF Follows
  <2>3. CASE ~EndsRight(bodies, 1, W, R2)
    <3>1. R2 = R /\ (now => now2)
      BY <1>5, <2>3
    <3>2. \A k \in 1..Len(got) : got[k] \notin W
      <4>1. \A k \in 1..Len(bodies) : bodies[k] \notin W
        BY <1>5, <2>3
      <4>2. \A k \in 1..Len(bodies) : (got[k] \in W) <=> (bodies[k] \in W)
        BY <1>2, <1>4, <1>5, AllArrived
      <4> QED
        BY <1>4, <1>5, <4>1, <4>2
    <3>3. \A r \in 1..n + 1 :
            /\ StaysRight(q, r, W, R) => StaysRight(q \o got, r, W, R)
            /\ EndsRight(q, r, W, R) => EndsRight(q \o got, r, W, R)
      BY <1>2, <1>4, <3>2, Joined
    <3> QED
      BY <2>1, <2>3, <3>1, <3>3 DEF Follows
  <2> QED
    BY <2>2, <2>3
<1>6. ASSUME NEW p \in Staff
      PROVE  /\ Blind(Placing(p)) /\ Blind(PlacedAs(HeldFor(p)'))
             /\ Blind(Asking(p)) /\ Blind(AskedAs(WaitsFor(p)'))
             /\ Placing(p)' = Placing(p) /\ Asking(p)' = Asking(p)
             /\ HeldFor(p)' = HeldFor(p) => PlacedAs(HeldFor(p)') = PlacedAs(HeldFor(p))
                                            /\ (HoldsNow(p) => HoldsNow(p)')
             /\ WaitsFor(p)' = WaitsFor(p) => AskedAs(WaitsFor(p)') = AskedAs(WaitsFor(p))
                                              /\ (AsksNow(p) => AsksNow(p)')
  <2>1. WaitsFor(p)' \in BOOLEAN
    BY DEF WaitsFor
  <2>2. /\ Blind(Placing(p)) /\ Blind(PlacedAs(HeldFor(p)'))
        /\ Blind(Asking(p)) /\ Blind(AskedAs(WaitsFor(p)'))
    BY <2>1, AllBlind
  <2>3. HeldFor(p)' = HeldFor(p) => (HoldsNow(p) => HoldsNow(p)')
    BY DEF HoldsNow
  <2>4. WaitsFor(p)' = WaitsFor(p) => (AsksNow(p) => AsksNow(p)')
    BY DEF AsksNow
  <2> QED
    BY <2>2, <2>3, <2>4 DEF Placing, Asking
<1>7. ASSUME NEW p \in Staff, g = b
      PROVE  /\ Follows(q, HoldsNow(p), Placing(p), PlacedAs(HeldFor(p)))
                  => Follows(q \o got, HoldsNow(p)', Placing(p), PlacedAs(HeldFor(p)'))
             /\ \A r \in 1..n : EndsRight(q, r, Placing(p), PlacedAs(HeldFor(p)))
                  => EndsRight(q \o got, r, Placing(p), PlacedAs(HeldFor(p)'))
             /\ EndsRight(bodies, 1, Placing(p), PlacedAs(HeldFor(p)'))
                  => EndsRight(q \o got, n + 1, Placing(p), PlacedAs(HeldFor(p)'))
  <2>1. \/ EndsRight(bodies, 1, Placing(p), PlacedAs(HeldFor(p)'))
        \/ /\ PlacedAs(HeldFor(p)') = PlacedAs(HeldFor(p)) /\ (HoldsNow(p) => HoldsNow(p)')
           /\ \A k \in 1..Len(bodies) : bodies[k] \notin Placing(p)
    BY <1>6, Zenon DEF Speaking
  <2> QED
    BY <1>5, <1>6, <1>7, <2>1, Zenon
<1>8. ASSUME NEW p \in Staff, g = b
      PROVE  /\ Follows(q, AsksNow(p), Asking(p), AskedAs(WaitsFor(p)))
                  => Follows(q \o got, AsksNow(p)', Asking(p), AskedAs(WaitsFor(p)'))
             /\ \A r \in 1..n : EndsRight(q, r, Asking(p), AskedAs(WaitsFor(p)))
                  => EndsRight(q \o got, r, Asking(p), AskedAs(WaitsFor(p)'))
             /\ EndsRight(bodies, 1, Asking(p), AskedAs(WaitsFor(p)'))
                  => EndsRight(q \o got, n + 1, Asking(p), AskedAs(WaitsFor(p)'))
  <2>1. \/ EndsRight(bodies, 1, Asking(p), AskedAs(WaitsFor(p)'))
        \/ /\ AskedAs(WaitsFor(p)') = AskedAs(WaitsFor(p)) /\ (AsksNow(p) => AsksNow(p)')
           /\ \A k \in 1..Len(bodies) : bodies[k] \notin Asking(p)
    BY <1>6, Zenon DEF Speaking
  <2> QED
    BY <1>5, <1>6, <1>8, <2>1, Zenon
<1>9. ASSUME Live', NEW p \in Staff
      PROVE  /\ Follows(lane', HoldsNow(p)', Placing(p), PlacedAs(HeldFor(p)'))
             /\ Follows(lane', AsksNow(p)', Asking(p), AskedAs(WaitsFor(p)'))
  <2>1. Live /\ g = b
    BY <1>4, <1>9, SpokenChain
  <2>2. /\ Follows(q, HoldsNow(p), Placing(p), PlacedAs(HeldFor(p)))
        /\ Follows(q, AsksNow(p), Asking(p), AskedAs(WaitsFor(p)))
    BY <1>1, <1>3, <2>1 DEF Followed
  <2> QED
    BY <1>2, <1>3, <1>7, <1>8, <2>1, <2>2, Zenon
<1>10. ASSUME NEW r \in 1..Len(lane'), lane'[r].op = "REPLACE_ALL",
              Chain(lane', r, server'.number), NEW p \in Staff
       PROVE  /\ EndsRight(lane', r, Placing(p), PlacedAs(HeldFor(p)'))
              /\ EndsRight(lane', r, Asking(p), AskedAs(WaitsFor(p)'))
  <2>1. /\ Len(q \o got) = n + g
        /\ \A k \in 1..n : (q \o got)[k] = q[k]
        /\ \A k \in 1..g : (q \o got)[n + k] = got[k]
    BY <1>2, <1>4, EndToEnd
  <2>2. r \in 1..n + g
    BY <1>2, <1>3, <2>1
  <2>3. CASE r \in 1..n
    <3>1. Chain(lane, r, server.number) /\ g = b
      BY <1>3, <1>4, <1>10, <2>3, SpokenChain
    <3>2. lane[r].op = "REPLACE_ALL"
      BY <1>2, <1>3, <1>10, <2>1, <2>3
    <3>3. /\ EndsRight(q, r, Placing(p), PlacedAs(HeldFor(p)))
          /\ EndsRight(q, r, Asking(p), AskedAs(WaitsFor(p)))
      BY <1>1, <1>3, <1>4, <2>3, <3>1, <3>2 DEF Followed
    <3> QED
      BY <1>2, <1>3, <1>7, <1>8, <2>3, <3>1, <3>3, Zenon
  <2>4. CASE r \notin 1..n
    <3>1. PICK s \in 1..g : r = n + s
      <4>1. r - n \in 1..g /\ r = n + (r - n)
        BY <2>2, <2>4
      <4> QED
        BY <4>1
    <3>2. from[s] + (g - s) = b /\ from[s] \in 1..b /\ got[s].op = bodies[from[s]].op
      <4>1. Chain(lane', Len(lane) + s, server'.number)
        BY <1>3, <1>4, <1>10, <3>1
      <4>2. NoneMissing(bodies, got, from, s)
        BY <1>4, <4>1, SpokenChain
      <4>3. from[s] \in 1..Len(bodies) /\ got[s].op = bodies[from[s]].op
        BY <1>2, <1>4, GotNumbers
      <4> QED
        BY <1>4, <4>2, <4>3 DEF NoneMissing
    <3>3. got[s].op = "REPLACE_ALL"
      BY <1>2, <1>3, <1>10, <2>1, <3>1
    <3>4. /\ from[s] = 1
          /\ EndsRight(bodies, 1, Placing(p), PlacedAs(HeldFor(p)'))
          /\ EndsRight(bodies, 1, Asking(p), AskedAs(WaitsFor(p)'))
      BY <1>4, <3>2, <3>3 DEF Speaking
    <3>5. g <= b
      BY <1>2, <1>4 DEF Arrives
    <3>6. s = 1 /\ g = b
      BY <3>2, <3>4, <3>5
    <3> QED
      BY <1>2, <1>3, <1>7, <1>8, <3>1, <3>4, <3>6, Zenon
  <2> QED
    BY <2>3, <2>4
<1> QED
  BY <1>6, <1>9, <1>10 DEF Followed

(* A place of two queues put together is a place of one of them. *)
LEMMA InOneOfTwo ==
  ASSUME NEW S, NEW front \in Seq(S), NEW back \in Seq(S), NEW k \in 1..Len(front \o back)
  PROVE  \/ \E j \in 1..Len(front) : (front \o back)[k] = front[j]
         \/ \E j \in 1..Len(back) : (front \o back)[k] = back[j]
<1>1. /\ Len(front) \in Nat /\ Len(back) \in Nat
      /\ Len(front \o back) = Len(front) + Len(back)
      /\ \A i \in 1..Len(front) : (front \o back)[i] = front[i]
      /\ \A i \in 1..Len(back) : (front \o back)[Len(front) + i] = back[i]
  BY EndToEnd
<1>0. front \o back \in Seq(S)
  BY EndToEnd
<1>2. PICK n \in Nat, g \in Nat, both \in Seq(S) :
        /\ n = Len(front) /\ g = Len(back) /\ both = front \o back /\ k \in 1..n + g
        /\ \A i \in 1..n : both[i] = front[i]
        /\ \A i \in 1..g : both[n + i] = back[i]
  BY <1>1, <1>0, Zenon
<1>3. CASE k \in 1..n
  BY <1>2, <1>3, Zenon
<1>4. CASE k \notin 1..n
  <2>1. PICK j \in 1..g : k = n + j
    <3>1. k - n \in 1..g /\ k = n + (k - n)
      BY <1>2, <1>4
    <3> QED
      BY <3>1
  <2>2. both[n + j] = back[j]
    BY <1>2
  <2> QED
    BY <1>2, <2>1, <2>2, Zenon
<1> QED
  BY <1>3, <1>4

(* The invariant outlives whatever the server says, as long as it says what it did. *)
LEMMA SpokenKeeps ==
  ASSUME RosterInv, UNCHANGED <<ram, flash, capturing, reporting, reports>>, TypesAre',
         NEW bodies, NEW after, NEW got, NEW from, Speaks(bodies, after, got, from),
         Speaking(bodies)
  PROVE  RosterInv'
<1>1. TypesAre /\ NoCaptures
  BY DEF RosterInv
<1>2. /\ bodies \in Seq(Message) /\ after \in Nat
      /\ Arrives(bodies, after, got, from) /\ lane' = lane \o got
      /\ got \in Seq(Message) /\ lane \in Seq(Message)
  BY <1>1 DEF Speaks, Arrives, TypesAre
<1>3. NoCaptures'
  <2>1. ASSUME NEW k \in 1..Len(lane') PROVE lane'[k].op # "CAPTURED"
    <3>1. \/ \E j \in 1..Len(lane) : lane'[k] = lane[j]
          \/ \E j \in 1..Len(got) : lane'[k] = got[j]
      <4>1. k \in 1..Len(lane \o got)
        BY <1>2, Zenon
      <4>2. PICK front \in Seq(Message), back \in Seq(Message) : front = lane /\ back = got
        BY <1>2
      <4>3. k \in 1..Len(front \o back) /\ lane' = front \o back
        BY <1>2, <4>1, <4>2, Zenon
      <4>4. \/ \E j \in 1..Len(front) : (front \o back)[k] = front[j]
            \/ \E j \in 1..Len(back) : (front \o back)[k] = back[j]
        BY <4>3, InOneOfTwo
      <4> QED
        BY <4>2, <4>3, <4>4, Zenon
    <3>2. ASSUME NEW j \in 1..Len(got) PROVE got[j].op # "CAPTURED"
      <4>1. from[j] \in 1..Len(bodies) /\ got[j].op = bodies[from[j]].op
        BY <1>2, GotNumbers
      <4>2. \A i \in 1..Len(bodies) : bodies[i].op # "CAPTURED"
        BY DEF Speaking
      <4> QED
        BY <4>1, <4>2
    <3> QED
      BY <1>1, <3>1, <3>2 DEF NoCaptures
  <2> QED
    BY <1>1, <2>1 DEF NoCaptures
<1>4. NumbersInv' /\ Ascending' /\ Saved'
  BY SpokenOrder
<1>5. Followed'
  BY SpokenFollowed
<1> QED
  BY <1>3, <1>4, <1>5 DEF RosterInv

(* Words about one person say what became of that person, and nothing of anybody else. *)
LEMMA OneIsSpokenOf ==
  ASSUME NEW p \in Staff, NEW bodies,
         \A x \in Staff \ {p} : HeldFor(x)' = HeldFor(x) /\ WaitsFor(x)' = WaitsFor(x),
         \/ bodies = <<>> /\ HeldFor(p)' = HeldFor(p) /\ WaitsFor(p)' = WaitsFor(p)
         \/ bodies = <<Ask(p)>> /\ HeldFor(p)' = HeldFor(p) /\ WaitsFor(p)'
         \/ \E f \in Faces : /\ bodies \in {<<Upsert(p, f)>>, <<Drop(p), Upsert(p, f)>>}
                             /\ HeldFor(p)' = f /\ ~WaitsFor(p)'
         \/ bodies = <<Drop(p)>> /\ HeldFor(p)' = 0 /\ ~WaitsFor(p)'
  PROVE  Speaking(bodies)
<1>0. 0 \in Faces /\ \A x \in Staff : WaitsFor(x)' \in BOOLEAN
  BY RosterAssumption DEF Faces, WaitsFor
<1>1. \A k \in 1..Len(bodies) :
        bodies[k] \in {Ask(p), Drop(p)} \/ \E f \in Faces : bodies[k] = Upsert(p, f)
  <2>1. CASE bodies \in {<<>>, <<Ask(p)>>, <<Drop(p)>>}
    BY <2>1
  <2>2. ASSUME NEW f \in Faces, bodies \in {<<Upsert(p, f)>>, <<Drop(p), Upsert(p, f)>>}
        PROVE  \A k \in 1..Len(bodies) : bodies[k] \in {Drop(p), Upsert(p, f)}
    BY <2>2
  <2> QED
    BY <2>1, <2>2
<1>2. \A k \in 1..Len(bodies) : bodies[k].op \notin {"CAPTURED", "REPLACE_ALL"}
  BY <1>1 DEF Ask, Drop, Upsert
<1>3. ASSUME NEW x \in Staff \ {p}, NEW k \in 1..Len(bodies)
      PROVE  bodies[k] \notin Placing(x) /\ bodies[k] \notin Asking(x)
  BY <1>0, <1>1, BodySets
<1>4. \/ EndsRight(bodies, 1, Placing(p), PlacedAs(HeldFor(p)'))
      \/ HeldFor(p)' = HeldFor(p) /\ \A k \in 1..Len(bodies) : bodies[k] \notin Placing(p)
  <2>1. CASE bodies = <<>> /\ HeldFor(p)' = HeldFor(p)
    BY <2>1
  <2>2. CASE bodies = <<Ask(p)>> /\ HeldFor(p)' = HeldFor(p)
    <3>1. Ask(p) \notin Placing(p)
      BY <1>0, BodySets
    <3> QED
      BY <2>2, <3>1
  <2>3. ASSUME NEW f \in Faces, bodies \in {<<Upsert(p, f)>>, <<Drop(p), Upsert(p, f)>>}, HeldFor(p)' = f
        PROVE  EndsRight(bodies, 1, Placing(p), PlacedAs(HeldFor(p)'))
    <3>1. Upsert(p, f) \in Placing(p) /\ Upsert(p, f) \in PlacedAs(f)
      BY BodySets
    <3> QED
      BY <2>3, <3>1, EndsRightLast
  <2>4. CASE bodies = <<Drop(p)>> /\ HeldFor(p)' = 0
    <3>1. Drop(p) \in Placing(p) /\ Drop(p) \in PlacedAs(0)
      BY <1>0, BodySets
    <3> QED
      BY <2>4, <3>1, EndsRightLast
  <2> QED
    BY <2>1, <2>2, <2>3, <2>4
<1>5. \/ EndsRight(bodies, 1, Asking(p), AskedAs(WaitsFor(p)'))
      \/ WaitsFor(p)' = WaitsFor(p) /\ \A k \in 1..Len(bodies) : bodies[k] \notin Asking(p)
  <2>1. CASE bodies = <<>> /\ WaitsFor(p)' = WaitsFor(p)
    BY <2>1
  <2>2. CASE bodies = <<Ask(p)>> /\ WaitsFor(p)'
    <3>1. Ask(p) \in Asking(p) /\ Ask(p) \in AskedAs(WaitsFor(p)')
      BY <1>0, <2>2, BodySets
    <3> QED
      BY <2>2, <3>1, EndsRightLast
  <2>3. ASSUME NEW f \in Faces, bodies \in {<<Upsert(p, f)>>, <<Drop(p), Upsert(p, f)>>}, ~WaitsFor(p)'
        PROVE  EndsRight(bodies, 1, Asking(p), AskedAs(WaitsFor(p)'))
    <3>1. Upsert(p, f) \in Asking(p) /\ Upsert(p, f) \in AskedAs(WaitsFor(p)')
      BY <1>0, <2>3, BodySets
    <3> QED
      BY <2>3, <3>1, EndsRightLast
  <2>4. CASE bodies = <<Drop(p)>> /\ ~WaitsFor(p)'
    <3>1. Drop(p) \in Asking(p) /\ Drop(p) \in AskedAs(WaitsFor(p)')
      BY <1>0, <2>4, BodySets
    <3> QED
      BY <2>4, <3>1, EndsRightLast
  <2> QED
    BY <2>1, <2>2, <2>3, <2>4
<1> QED
  BY <1>2, <1>3, <1>4, <1>5 DEF Speaking

(* The rows after an order on p: nobody else's change. *)
LEMMA OrderedRows ==
  ASSUME server \in Rowset, NEW p \in Staff, NEW pair, NEW face, NEW n,
         server' = [server EXCEPT !.pair = [server.pair EXCEPT ![p] = pair],
                                  !.face = [server.face EXCEPT ![p] = face], !.number = n]
  PROVE  /\ \A x \in Staff \ {p} : HeldFor(x)' = HeldFor(x) /\ WaitsFor(x)' = WaitsFor(x)
         /\ HeldFor(p)' = IF pair \in Active THEN face ELSE 0
         /\ WaitsFor(p)' = (pair \in Waiting)
<1>1. /\ server'.pair = [server.pair EXCEPT ![p] = pair]
      /\ server'.face = [server.face EXCEPT ![p] = face]
      /\ server.pair \in [Staff -> Pairs] /\ server.face \in [Staff -> Faces]
  BY DEF Rowset
<1>2. /\ \A x \in Staff \ {p} : server'.pair[x] = server.pair[x] /\ server'.face[x] = server.face[x]
      /\ server'.pair[p] = pair /\ server'.face[p] = face
  BY <1>1
<1> QED
  BY <1>2 DEF HeldFor, WaitsFor

\* What an order on p that leaves its pair at pair and its face at face may say.
SaysAll(p, pair, face, bodies) ==
  LET now == IF pair \in Active THEN face ELSE 0
  IN  \/ bodies = <<>> /\ now = HeldFor(p) /\ (pair \in Waiting) = WaitsFor(p)
      \/ bodies = <<Ask(p)>> /\ now = HeldFor(p) /\ pair \in Waiting
      \/ \E f \in Faces : /\ bodies \in {<<Upsert(p, f)>>, <<Drop(p), Upsert(p, f)>>}
                          /\ now = f /\ pair \notin Waiting
      \/ bodies = <<Drop(p)>> /\ now = 0 /\ pair \notin Waiting

(* Every order of the dashboard, and every capture of another door, says what it did. *)
LEMMA OrdersKeep ==
  ASSUME RosterInv, TypesAre', Dashboard
  PROVE  RosterInv'
<1>t. TypesAre /\ server \in Rowset /\ minted \in Faces
  BY DEF RosterInv, TypesAre
<1>u. UNCHANGED <<ram, flash, capturing, reporting, reports>>
  BY DEF Dashboard, Assign, Revoke, Erase, CapturedElsewhere, kiosk
<1>s. ASSUME NEW p \in Staff, NEW bodies \in Seq(Message), NEW rowset \in Rowset, NEW pair, NEW face,
             Tell(rowset, bodies),
             rowset = [server EXCEPT !.pair = [server.pair EXCEPT ![p] = pair],
                                     !.face = [server.face EXCEPT ![p] = face]],
             SaysAll(p, pair, face, bodies)
      PROVE  RosterInv'
  <2>1. PICK n : server' = [rowset EXCEPT !.number = n]
    BY <1>t, <1>s, TellSpeaks
  <2>2. PICK got, from : Speaks(bodies, server.number, got, from)
    BY <1>t, <1>s, TellSpeaks
  <2>3. server' = [server EXCEPT !.pair = [server.pair EXCEPT ![p] = pair],
                                 !.face = [server.face EXCEPT ![p] = face], !.number = n]
    BY <1>s, <2>1
  <2>4. /\ \A x \in Staff \ {p} : HeldFor(x)' = HeldFor(x) /\ WaitsFor(x)' = WaitsFor(x)
        /\ HeldFor(p)' = IF pair \in Active THEN face ELSE 0
        /\ WaitsFor(p)' = (pair \in Waiting)
    BY <1>t, <2>3, OrderedRows
  <2>5. Speaking(bodies)
    <3>1. \/ bodies = <<>> /\ HeldFor(p)' = HeldFor(p) /\ WaitsFor(p)' = WaitsFor(p)
          \/ bodies = <<Ask(p)>> /\ HeldFor(p)' = HeldFor(p) /\ WaitsFor(p)'
          \/ \E f \in Faces : /\ bodies \in {<<Upsert(p, f)>>, <<Drop(p), Upsert(p, f)>>}
                              /\ HeldFor(p)' = f /\ ~WaitsFor(p)'
          \/ bodies = <<Drop(p)>> /\ HeldFor(p)' = 0 /\ ~WaitsFor(p)'
      <4>1. PICK now : now = IF pair \in Active THEN face ELSE 0
        OBVIOUS
      <4>2. HeldFor(p)' = now /\ (WaitsFor(p)' <=> pair \in Waiting)
        BY <2>4, <4>1
      <4>3. \/ bodies = <<>> /\ now = HeldFor(p) /\ (pair \in Waiting) = WaitsFor(p)
            \/ bodies = <<Ask(p)>> /\ now = HeldFor(p) /\ pair \in Waiting
            \/ \E f \in Faces : /\ bodies \in {<<Upsert(p, f)>>, <<Drop(p), Upsert(p, f)>>}
                                /\ now = f /\ pair \notin Waiting
            \/ bodies = <<Drop(p)>> /\ now = 0 /\ pair \notin Waiting
        BY <1>s, <4>1 DEF SaysAll
      <4>4. WaitsFor(p)' = (pair \in Waiting)
        BY <2>4
      <4>5. CASE bodies = <<>> /\ now = HeldFor(p) /\ (pair \in Waiting) = WaitsFor(p)
        BY <4>2, <4>4, <4>5, Zenon
      <4>6. CASE bodies = <<Ask(p)>> /\ now = HeldFor(p) /\ pair \in Waiting
        BY <4>2, <4>6, Zenon
      <4>7. CASE \E f \in Faces : /\ bodies \in {<<Upsert(p, f)>>, <<Drop(p), Upsert(p, f)>>}
                                 /\ now = f /\ pair \notin Waiting
        BY <4>2, <4>7, Zenon
      <4>8. CASE bodies = <<Drop(p)>> /\ now = 0 /\ pair \notin Waiting
        BY <4>2, <4>8, Zenon
      <4> QED
        BY <4>3, <4>5, <4>6, <4>7, <4>8
    <3> QED
      BY <2>4, <3>1, OneIsSpokenOf
  <2> QED
    BY <1>u, <2>2, <2>5, SpokenKeeps
<1>f. ASSUME NEW p \in Staff
      PROVE  /\ server.face[p] \in Faces /\ server.pair[p] \in Pairs
             /\ HeldFor(p) = IF server.pair[p] \in Active THEN server.face[p] ELSE 0
             /\ WaitsFor(p) = (server.pair[p] \in Waiting)
             /\ \A pair : [server EXCEPT !.pair[p] = pair]
                   = [server EXCEPT !.pair = [server.pair EXCEPT ![p] = pair],
                                    !.face = [server.face EXCEPT ![p] = server.face[p]]]
  BY <1>t DEF Rowset, HeldFor, WaitsFor
<1>1. ASSUME NEW p \in Staff, Assign(p) PROVE RosterInv'
  <2>1. PICK next \in Pairs, bodies \in Seq(Message) :
          /\ next = IF server.pair[p] \in {"ENROLLED", "RETAKE"} THEN "RETAKE"
                      ELSE IF server.face[p] # 0 THEN "ENROLLED" ELSE "ASSIGNED"
          /\ bodies = IF next = "ENROLLED" THEN <<Upsert(p, server.face[p])>> ELSE <<Ask(p)>>
          /\ [server EXCEPT !.pair[p] = next] \in Rowset
          /\ Tell([server EXCEPT !.pair[p] = next], bodies)
    BY <1>t, <1>1, AssignShape
  <2>r. PICK rowset \in Rowset :
          /\ Tell(rowset, bodies)
          /\ rowset = [server EXCEPT !.pair = [server.pair EXCEPT ![p] = next],
                                    !.face = [server.face EXCEPT ![p] = server.face[p]]]
    BY <1>f, <2>1, Zenon
  <2>2. CASE server.pair[p] \in {"ENROLLED", "RETAKE"}
    <3>1. next = "RETAKE" /\ bodies = <<Ask(p)>>
      BY <2>1, <2>2
    <3>2. HeldFor(p) = server.face[p] /\ next \in Active /\ next \in Waiting
      BY <1>f, <2>2, <3>1 DEF Active, Waiting
    <3> QED
      <4>1. SaysAll(p, next, server.face[p], bodies)
        BY <3>1, <3>2 DEF SaysAll
      <4> QED
        BY <1>s, <2>1, <2>r, <4>1, Zenon
  <2>3. CASE server.pair[p] \notin {"ENROLLED", "RETAKE"} /\ server.face[p] # 0
    <3>1. next = "ENROLLED" /\ bodies = <<Upsert(p, server.face[p])>>
      BY <2>1, <2>3
    <3>2. next \in Active /\ next \notin Waiting
      BY <3>1 DEF Active, Waiting
    <3> QED
      <4>1. SaysAll(p, next, server.face[p], bodies)
        BY <1>f, <3>1, <3>2 DEF SaysAll
      <4> QED
        BY <1>s, <2>1, <2>r, <4>1, Zenon
  <2>4. CASE server.pair[p] \notin {"ENROLLED", "RETAKE"} /\ server.face[p] = 0
    <3>1. next = "ASSIGNED" /\ bodies = <<Ask(p)>>
      BY <2>1, <2>4
    <3>2. HeldFor(p) = 0 /\ next \in Active /\ next \in Waiting
      BY <1>f, <2>4, <3>1 DEF Active, Waiting
    <3> QED
      <4>1. SaysAll(p, next, server.face[p], bodies)
        BY <2>4, <3>1, <3>2 DEF SaysAll
      <4> QED
        BY <1>s, <2>1, <2>r, <4>1, Zenon
  <2> QED
    BY <2>2, <2>3, <2>4
<1>2. ASSUME NEW p \in Staff, Revoke(p) PROVE RosterInv'
  <2>1. [server EXCEPT !.pair[p] = "REVOKED"] \in Rowset
    BY <1>t DEF Rowset, Pairs
  <2>2. <<Drop(p)>> \in Seq(Message)
    <3>1. 0 \in Faces
      BY RosterAssumption DEF Faces
    <3> QED
      BY <3>1, BodiesAreMessages
  <2>3. Tell([server EXCEPT !.pair[p] = "REVOKED"], <<Drop(p)>>)
    BY <1>2 DEF Revoke
  <2>4. "REVOKED" \notin Active /\ "REVOKED" \notin Waiting
    BY DEF Active, Waiting
  <2>5. PICK rowset \in Rowset :
          /\ Tell(rowset, <<Drop(p)>>)
          /\ rowset = [server EXCEPT !.pair = [server.pair EXCEPT ![p] = "REVOKED"],
                                    !.face = [server.face EXCEPT ![p] = server.face[p]]]
    BY <1>f, <2>1, <2>3, Zenon
  <2>6. SaysAll(p, "REVOKED", server.face[p], <<Drop(p)>>)
    BY <2>4 DEF SaysAll
  <2> QED
    BY <1>s, <2>2, <2>5, <2>6, Zenon
<1>3. ASSUME NEW p \in Staff, Erase(p) PROVE RosterInv'
  <2>1. PICK next \in Pairs, bodies \in Seq(Message) :
          /\ next = IF server.pair[p] = "NONE" THEN "NONE" ELSE "REVOKED"
          /\ bodies = IF server.pair[p] = "NONE" THEN <<>> ELSE <<Drop(p)>>
          /\ [server EXCEPT !.face[p] = 0, !.pair[p] = next] \in Rowset
          /\ Tell([server EXCEPT !.face[p] = 0, !.pair[p] = next], bodies)
    BY <1>t, <1>3, EraseShape
  <2>2. next \notin Active /\ next \notin Waiting
    BY <2>1 DEF Active, Waiting
  <2>r. PICK rowset \in Rowset :
          /\ Tell(rowset, bodies)
          /\ rowset = [server EXCEPT !.pair = [server.pair EXCEPT ![p] = next],
                                    !.face = [server.face EXCEPT ![p] = 0]]
    <3>1. [server EXCEPT !.face[p] = 0, !.pair[p] = next]
            = [server EXCEPT !.pair = [server.pair EXCEPT ![p] = next],
                             !.face = [server.face EXCEPT ![p] = 0]]
      BY <1>t DEF Rowset
    <3> QED
      BY <2>1, <3>1, Zenon
  <2>3. CASE server.pair[p] = "NONE"
    <3>1. bodies = <<>> /\ HeldFor(p) = 0 /\ (next \in Waiting) = WaitsFor(p)
      BY <1>f, <2>1, <2>3 DEF Active, Waiting
    <3> QED
      <4>1. SaysAll(p, next, 0, bodies)
        BY <2>2, <3>1 DEF SaysAll
      <4> QED
        BY <1>s, <2>1, <2>r, <4>1, Zenon
  <2>4. CASE server.pair[p] # "NONE"
    <3>1. bodies = <<Drop(p)>>
      BY <2>1, <2>4
    <3> QED
      <4>1. SaysAll(p, next, 0, bodies)
        BY <2>2, <3>1 DEF SaysAll
      <4> QED
        BY <1>s, <2>1, <2>r, <4>1, Zenon
  <2> QED
    BY <2>3, <2>4
<1>4. ASSUME NEW p \in Staff, CapturedElsewhere(p) PROVE RosterInv'
  <2>1. PICK f \in Faces : f = minted + 1
    BY <1>t, <1>4, CapturedElsewhereShape
  <2>2. PICK next \in Pairs, bodies \in Seq(Message) :
          /\ next = IF server.pair[p] \in Active THEN "ENROLLED" ELSE server.pair[p]
          /\ bodies = IF server.pair[p] \notin Active THEN <<>>
                      ELSE IF server.face[p] # 0 THEN <<Drop(p), Upsert(p, f)>>
                      ELSE <<Upsert(p, f)>>
          /\ [server EXCEPT !.face[p] = f, !.pair[p] = next] \in Rowset
          /\ Tell([server EXCEPT !.face[p] = f, !.pair[p] = next], bodies)
    BY <1>t, <1>4, <2>1, CapturedElsewhereShape
  <2>r. PICK rowset \in Rowset :
          /\ Tell(rowset, bodies)
          /\ rowset = [server EXCEPT !.pair = [server.pair EXCEPT ![p] = next],
                                    !.face = [server.face EXCEPT ![p] = f]]
    <3>1. [server EXCEPT !.face[p] = f, !.pair[p] = next]
            = [server EXCEPT !.pair = [server.pair EXCEPT ![p] = next],
                             !.face = [server.face EXCEPT ![p] = f]]
      BY <1>t DEF Rowset
    <3> QED
      BY <2>2, <3>1, Zenon
  <2>3. CASE server.pair[p] \notin Active
    <3>1. bodies = <<>> /\ next = server.pair[p] /\ HeldFor(p) = 0 /\ next \notin Active
      BY <1>f, <2>2, <2>3
    <3> QED
      <4>1. SaysAll(p, next, f, bodies)
        BY <1>f, <3>1 DEF SaysAll
      <4> QED
        BY <1>s, <2>1, <2>r, <4>1, Zenon
  <2>4. CASE server.pair[p] \in Active
    <3>1. /\ bodies \in {<<Upsert(p, f)>>, <<Drop(p), Upsert(p, f)>>}
          /\ next \in Active /\ next \notin Waiting
      BY <2>2, <2>4 DEF Active, Waiting
    <3> QED
      <4>1. SaysAll(p, next, f, bodies)
        BY <3>1 DEF SaysAll
      <4> QED
        BY <1>s, <2>1, <2>r, <4>1, Zenon
  <2> QED
    BY <2>3, <2>4
<1> QED
  BY <1>1, <1>2, <1>3, <1>4 DEF Dashboard

(* A person's standing, by the pair and the face. *)
LEMMA StandingIs ==
  ASSUME server \in Rowset, NEW p \in Staff
  PROVE  /\ server.pair[p] \notin Active => Standing(p) = <<>>
         /\ server.pair[p] \in Active /\ server.face[p] = 0 => Standing(p) = <<Ask(p)>>
         /\ server.pair[p] \in Active /\ server.face[p] # 0 /\ server.pair[p] = "ENROLLED"
              => Standing(p) = <<Upsert(p, server.face[p])>>
         /\ server.pair[p] \in Active /\ server.face[p] # 0 /\ server.pair[p] # "ENROLLED"
              => Standing(p) = <<Upsert(p, server.face[p]), Ask(p)>>
<1>1. PICK f \in Faces : f = server.face[p]
  BY DEF Rowset
<1>2. PICK up \in Message, ask \in Message : up = Upsert(p, f) /\ ask = Ask(p)
  BY BodiesAreMessages
<1>3. /\ <<>> \o <<ask>> = <<ask>> /\ <<up>> \o <<>> = <<up>> /\ <<up>> \o <<ask>> = <<up, ask>>
  BY <1>2, OneAndAnother
<1>4. Standing(p) = IF server.pair[p] \notin Active THEN <<>>
                    ELSE (IF f # 0 THEN <<up>> ELSE <<>>)
                         \o (IF server.pair[p] # "ENROLLED" \/ f = 0 THEN <<ask>> ELSE <<>>)
  BY <1>1, <1>2, Zenon DEF Standing
<1>5. CASE server.pair[p] \notin Active
  BY <1>4, <1>5, Zenon
<1>6. CASE server.pair[p] \in Active /\ f = 0
  BY <1>1, <1>2, <1>3, <1>4, <1>6, Zenon
<1>7. CASE server.pair[p] \in Active /\ f # 0 /\ server.pair[p] = "ENROLLED"
  BY <1>1, <1>2, <1>3, <1>4, <1>7, Zenon
<1>8. CASE server.pair[p] \in Active /\ f # 0 /\ server.pair[p] # "ENROLLED"
  BY <1>1, <1>2, <1>3, <1>4, <1>8, Zenon
<1> QED
  BY <1>1, <1>5, <1>6, <1>7, <1>8

(* What a replay says of a person is about that person. *)
LEMMA StandingIsOfOne ==
  ASSUME server \in Rowset, NEW p \in Staff, NEW k \in 1..Len(Standing(p))
  PROVE  Standing(p)[k].who = p /\ Standing(p)[k].op \in {"UPSERT", "ASSIGN"}
<1>1. PICK f : f = server.face[p]
  OBVIOUS
<1>2. Standing(p) \in {<<>>, <<Ask(p)>>, <<Upsert(p, f)>>, <<Upsert(p, f), Ask(p)>>}
  BY <1>1, StandingIs
<1>3. Standing(p)[k] \in {Ask(p), Upsert(p, f)}
  <2>1. CASE Standing(p) = <<>>
    BY <2>1
  <2>2. CASE Standing(p) = <<Ask(p)>>
    BY <2>2
  <2>3. CASE Standing(p) = <<Upsert(p, f)>>
    BY <2>3
  <2>4. CASE Standing(p) = <<Upsert(p, f), Ask(p)>>
    BY <2>4
  <2> QED
    BY <1>2, <2>1, <2>2, <2>3, <2>4
<1> QED
  BY <1>3 DEF Ask, Upsert

(* In a replay, what is said of one person lies in one stretch. *)
LEMMA EverybodyInTurn ==
  ASSUME server \in Rowset, NEW x \in Staff
  PROVE  \E a \in Nat :
           /\ \A k \in 1..Len(Standing(x)) :
                a + k \in 1..Len(Everybody) /\ Everybody[a + k] = Standing(x)[k]
           /\ \A j \in 1..Len(Everybody) :
                Everybody[j].who = x => \E k \in 1..Len(Standing(x)) : j = a + k
<1>1. /\ Standings \in Seq(Seq(Message)) /\ Len(Standings) = Cardinality(Staff)
  BY EverybodyShape
<1>2. PICK at : LaidOut(Standings, Everybody, at)
  BY <1>1, FlattenSeqLaysOut, Zenon DEF Everybody
<1>3. PICK c \in Nat : c = Cardinality(Staff) /\ c = Len(Standings)
  BY <1>1, StaffIsCounted
<1>4. ASSUME NEW i \in 1..c PROVE Standings[i] = Standing(Nth(Staff, i)) /\ Nth(Staff, i) \in Staff
  BY <1>3, StaffIsCounted DEF Standings
<1>5. PICK i \in 1..c : Nth(Staff, i) = x
  BY <1>3, StaffIsCounted, NthIsOnto
<1>6. at[i] \in Nat /\ Standings[i] = Standing(x)
  BY <1>2, <1>3, <1>4, <1>5 DEF LaidOut
<1>7. \A k \in 1..Len(Standing(x)) :
         at[i] + k \in 1..Len(Everybody) /\ Everybody[at[i] + k] = Standing(x)[k]
  <2>1. \A k \in 1..Len(Standings[i]) :
          at[i] + k \in 1..Len(Everybody) /\ Everybody[at[i] + k] = Standings[i][k]
    BY <1>2, <1>3, Zenon DEF LaidOut
  <2> QED
    BY <1>6, <2>1, Zenon
<1>8. ASSUME NEW j \in 1..Len(Everybody), Everybody[j].who = x
      PROVE  \E k \in 1..Len(Standing(x)) : j = at[i] + k
  <2>1. \E other \in 1..c : \E k \in 1..Len(Standings[other]) : j = at[other] + k
    BY <1>2, <1>3, Zenon DEF LaidOut
  <2>0. PICK other \in 1..c : \E k \in 1..Len(Standings[other]) : j = at[other] + k
    BY <2>1, Zenon
  <2>2. PICK k \in 1..Len(Standings[other]) : j = at[other] + k
    BY <2>0, Zenon
  <2>3. Everybody[at[other] + k] = Standings[other][k]
    BY <1>2, <1>3, Zenon DEF LaidOut
  <2>4. PICK y \in Staff : y = Nth(Staff, other)
    BY <1>4
  <2>5. Standings[other] = Standing(y)
    BY <1>4, <2>4
  <2>6. Standing(y)[k].who = y
    <3>1. k \in 1..Len(Standing(y))
      BY <2>5
    <3> QED
      BY <3>1, StandingIsOfOne
  <2>7. y = x
    BY <1>8, <2>2, <2>3, <2>5, <2>6, Zenon
  <2>8. other = i
    <3>1. ~(other < i)
      <4>1. other < i => Nth(Staff, other) < Nth(Staff, i)
        BY <1>3, StaffIsCounted, NthGrows
      <4> QED
        BY <1>5, <2>4, <2>7, <4>1, StaffIsCounted
    <3>2. ~(i < other)
      <4>1. i < other => Nth(Staff, i) < Nth(Staff, other)
        BY <1>3, StaffIsCounted, NthGrows
      <4> QED
        BY <1>5, <2>4, <2>7, <4>1, StaffIsCounted
    <3> QED
      BY <3>1, <3>2
  <2> QED
    BY <1>6, <2>2, <2>8, Zenon
<1> QED
  BY <1>6, <1>7, <1>8, Zenon

(* Behind its REPLACE_ALL a replay only enrols and asks. *)
LEMMA EverybodyAsks ==
  ASSUME server \in Rowset, NEW j \in 1..Len(Everybody)
  PROVE  Everybody[j].op \in {"UPSERT", "ASSIGN"}
<1>1. /\ Standings \in Seq(Seq(Message)) /\ Len(Standings) = Cardinality(Staff)
  BY EverybodyShape
<1>2. PICK at : LaidOut(Standings, Everybody, at)
  BY <1>1, FlattenSeqLaysOut, Zenon DEF Everybody
<1>3. PICK c \in Nat : c = Cardinality(Staff) /\ c = Len(Standings)
  BY <1>1, StaffIsCounted
<1>4. \E i \in 1..c : \E k \in 1..Len(Standings[i]) : j = at[i] + k
  BY <1>2, <1>3, Zenon DEF LaidOut
<1>0. PICK i \in 1..c : \E k \in 1..Len(Standings[i]) : j = at[i] + k
  BY <1>4, Zenon
<1>5. PICK k \in 1..Len(Standings[i]) : j = at[i] + k
  BY <1>0, Zenon
<1>6. Everybody[at[i] + k] = Standings[i][k]
  BY <1>2, <1>3, Zenon DEF LaidOut
<1>7. PICK y \in Staff : y = Nth(Staff, i) /\ Standings[i] = Standing(y)
  BY <1>3, StaffIsCounted DEF Standings
<1>8. Standing(y)[k].op \in {"UPSERT", "ASSIGN"}
  <2>1. k \in 1..Len(Standing(y))
    BY <1>7
  <2> QED
    BY <2>1, StandingIsOfOne
<1> QED
  BY <1>5, <1>6, <1>7, <1>8, Zenon

(* For one person only the REPLACE_ALL and their own stretch of a replay count. *)
LEMMA OwnReplayCounts ==
  ASSUME server \in Rowset, NEW x \in Staff, NEW W, NEW R, NEW own,
         \A m \in W : m.op = "REPLACE_ALL" \/ m.who = x,
         Len(own) = Len(Standing(x)) + 1, own[1] = StartOver,
         \A k \in 1..Len(Standing(x)) : own[k + 1] = Standing(x)[k],
         EndsRight(own, 1, W, R)
  PROVE  EndsRight(<<StartOver>> \o Everybody, 1, W, R)
<1>1. PICK a \in Nat :
           /\ \A k \in 1..Len(Standing(x)) :
                a + k \in 1..Len(Everybody) /\ Everybody[a + k] = Standing(x)[k]
           /\ \A j \in 1..Len(Everybody) :
                Everybody[j].who = x => \E k \in 1..Len(Standing(x)) : j = a + k
  BY EverybodyInTurn
<1>2. Standing(x) \in Seq(Message)
  BY StandingShape
<1>3. PICK m \in Nat, n \in Nat, flat \in Seq(Message), bodies \in Seq(Message), stand \in Seq(Message) :
        /\ flat = Everybody /\ n = Len(flat) /\ bodies = <<StartOver>> \o Everybody
        /\ Len(bodies) = n + 1 /\ bodies[1] = StartOver
        /\ \A i \in 1..n : bodies[i + 1] = flat[i]
        /\ stand = Standing(x) /\ m = Len(stand)
  <2>1. Len(Standing(x)) \in Nat
    BY <1>2
  <2> QED
    BY <1>2, <2>1, EverybodyShape, Zenon
<1>4. /\ \A k \in 1..m : a + k \in 1..n /\ flat[a + k] = stand[k] /\ own[k + 1] = stand[k]
      /\ \A j \in 1..n : flat[j].who = x => \E k \in 1..m : j = a + k
      /\ Len(own) = m + 1 /\ own[1] = StartOver
  BY <1>1, <1>3, Zenon
<1>5. ASSUME NEW j \in 1..n PROVE flat[j].op # "REPLACE_ALL"
  BY <1>3, EverybodyAsks
<1>6. ASSUME NEW j \in 1..n + 1, j # 1, bodies[j] \in W
      PROVE  \E k \in 1..m : j = a + k + 1 /\ bodies[j] = own[k + 1]
  <2>1. PICK i \in 1..n : j = i + 1
    <3>1. j - 1 \in 1..n /\ j = (j - 1) + 1
      BY <1>6
    <3> QED
      BY <3>1
  <2>2. bodies[j] = flat[i]
    BY <1>3, <2>1
  <2>3. flat[i].who = x
    BY <1>5, <1>6, <2>2
  <2>4. PICK k \in 1..m : i = a + k
    BY <1>4, <2>3
  <2>5. flat[i] = own[k + 1]
    BY <1>4, <2>4
  <2>6. j = a + k + 1
    BY <2>1, <2>4
  <2> QED
    BY <2>2, <2>5, <2>6
<1>7. PICK j \in 1..m + 1 : own[j] \in W /\ \A k \in j..m + 1 : own[k] \in W => own[k] \in R
  BY <1>4 DEF EndsRight, StaysRight
<1>8. PICK to \in 1..n + 1 : /\ bodies[to] = own[j]
                             /\ j = 1 => to = 1
                             /\ j # 1 => to = a + j
  <2>1. CASE j = 1
    <3>1. 1 \in 1..n + 1
      BY <1>3
    <3> QED
      BY <1>3, <1>4, <2>1, <3>1
  <2>2. CASE j # 1
    <3>1. PICK k \in 1..m : j = k + 1
      <4>1. j - 1 \in 1..m /\ j = (j - 1) + 1
        BY <2>2
      <4> QED
        BY <4>1
    <3>2. a + k \in 1..n /\ flat[a + k] = own[j]
      BY <1>4, <3>1
    <3>3. (a + k) + 1 \in 1..n + 1 /\ (a + k) + 1 = a + j /\ bodies[(a + k) + 1] = flat[a + k]
      BY <1>3, <3>1, <3>2
    <3> QED
      BY <2>2, <3>2, <3>3
  <2> QED
    BY <2>1, <2>2
<1>9. ASSUME NEW i \in to..n + 1, bodies[i] \in W PROVE bodies[i] \in R
  <2>1. CASE i = 1
    <3>1. to = 1 /\ j = 1
      BY <1>4, <1>8, <2>1
    <3>2. own[1] \in R
      <4>1. 1 \in j..m + 1
        BY <3>1
      <4> QED
        BY <1>7, <3>1, <4>1
    <3> QED
      BY <1>3, <1>4, <2>1, <3>2
  <2>2. CASE i # 1
    <3>1. i \in 1..n + 1
      BY <1>8
    <3>2. PICK k \in 1..m : i = a + k + 1 /\ bodies[i] = own[k + 1]
      BY <1>6, <1>9, <2>2, <3>1
    <3>3. k + 1 \in j..m + 1
      BY <1>7, <1>8, <3>2
    <3> QED
      BY <1>7, <1>9, <3>2, <3>3
  <2> QED
    BY <2>1, <2>2
<1>10. bodies[to] \in W
  BY <1>7, <1>8
<1> QED
  BY <1>3, <1>9, <1>10 DEF EndsRight, StaysRight

(* The rows after a replay: a pair that holds no face waits for one. *)
LEMMA ReplayedRows ==
  ASSUME TypesAre, NEW floor \in Nat, Replay(floor), NEW x \in Staff
  PROVE  /\ server.pair[x] \notin Active => HeldFor(x)' = 0 /\ WaitsFor(x)' = FALSE
         /\ server.pair[x] \in Active /\ server.face[x] = 0 => HeldFor(x)' = 0 /\ WaitsFor(x)' = TRUE
         /\ server.pair[x] \in Active /\ server.face[x] # 0 /\ server.pair[x] = "ENROLLED"
              => HeldFor(x)' = server.face[x] /\ WaitsFor(x)' = FALSE
         /\ server.pair[x] \in Active /\ server.face[x] # 0 /\ server.pair[x] # "ENROLLED"
              => HeldFor(x)' = server.face[x] /\ WaitsFor(x)' = TRUE
<1>1. /\ server'.face = server.face
      /\ server'.pair = [p \in Staff |->
            IF server.face[p] = 0 /\ server.pair[p] \in {"ENROLLED", "RETAKE"}
            THEN "ASSIGNED" ELSE server.pair[p]]
  BY TypesAreTypes, ReplayShape
<1>2. /\ server'.face[x] = server.face[x]
      /\ server'.pair[x] = IF server.face[x] = 0 /\ server.pair[x] \in {"ENROLLED", "RETAKE"}
                           THEN "ASSIGNED" ELSE server.pair[x]
  BY <1>1
<1> QED
  BY <1>2 DEF HeldFor, WaitsFor, Active, Waiting

(* The replay of one person ends with them as the server has them. *)
LEMMA OwnReplay ==
  ASSUME TypesAre, NEW floor \in Nat, Replay(floor), NEW x \in Staff
  PROVE  /\ EndsRight(<<StartOver>> \o Everybody, 1, Placing(x), PlacedAs(HeldFor(x)'))
         /\ EndsRight(<<StartOver>> \o Everybody, 1, Asking(x), AskedAs(WaitsFor(x)'))
<1>1. server \in Rowset
  BY DEF TypesAre
<1>2. PICK f \in Faces : f = server.face[x]
  BY <1>1 DEF Rowset
<1>3. PICK held : held = HeldFor(x)'
  OBVIOUS
<1>4. PICK asked \in BOOLEAN : asked = WaitsFor(x)'
  <2>1. WaitsFor(x)' \in BOOLEAN
    BY DEF WaitsFor
  <2> QED
    BY <2>1
<1>5. PICK up, ask : up = Upsert(x, f) /\ ask = Ask(x)
  OBVIOUS
<1>6. /\ ask \notin Placing(x) /\ ask \in Asking(x) /\ (ask \in AskedAs(asked) <=> asked)
      /\ up \in Placing(x) /\ up \in Asking(x)
      /\ (up \in PlacedAs(held) <=> f = held) /\ (up \in AskedAs(asked) <=> ~asked)
      /\ StartOver \in Placing(x) /\ StartOver \in Asking(x)
      /\ (StartOver \in PlacedAs(held) <=> 0 = held) /\ (StartOver \in AskedAs(asked) <=> ~asked)
  BY <1>5, BodySets
<1>7. /\ \A m \in Placing(x) : m.op = "REPLACE_ALL" \/ m.who = x
      /\ \A m \in Asking(x) : m.op = "REPLACE_ALL" \/ m.who = x
  BY DEF Placing, Asking
<1>8. ASSUME NEW own, Len(own) = Len(Standing(x)) + 1, own[1] = StartOver,
             \A k \in 1..Len(Standing(x)) : own[k + 1] = Standing(x)[k],
             EndsRight(own, 1, Placing(x), PlacedAs(held)),
             EndsRight(own, 1, Asking(x), AskedAs(asked))
      PROVE  /\ EndsRight(<<StartOver>> \o Everybody, 1, Placing(x), PlacedAs(held))
             /\ EndsRight(<<StartOver>> \o Everybody, 1, Asking(x), AskedAs(asked))
  BY <1>1, <1>7, <1>8, OwnReplayCounts
<1>9. CASE server.pair[x] \notin Active
  <2>1. Standing(x) = <<>> /\ held = 0 /\ asked = FALSE
    BY <1>1, <1>3, <1>4, <1>9, StandingIs, ReplayedRows
  <2>2. /\ Len(<<StartOver>>) = Len(Standing(x)) + 1 /\ <<StartOver>>[1] = StartOver
        /\ \A k \in 1..Len(Standing(x)) : <<StartOver>>[k + 1] = Standing(x)[k]
    BY <2>1
  <2>3. /\ EndsRight(<<StartOver>>, 1, Placing(x), PlacedAs(held))
        /\ EndsRight(<<StartOver>>, 1, Asking(x), AskedAs(asked))
    BY <1>6, <2>1, EndsRightLast
  <2> QED
    BY <1>3, <1>4, <1>8, <2>2, <2>3
<1>10. CASE server.pair[x] \in Active /\ f = 0
  <2>1. Standing(x) = <<ask>> /\ held = 0 /\ asked = TRUE
    BY <1>1, <1>2, <1>3, <1>4, <1>5, <1>10, StandingIs, ReplayedRows
  <2>2. PICK own : own = <<StartOver, ask>>
    OBVIOUS
  <2>3. /\ Len(own) = 2 /\ own[1] = StartOver /\ own[2] = ask
        /\ Len(Standing(x)) = 1 /\ Standing(x)[1] = ask
    BY <2>1, <2>2
  <2>4. /\ Len(own) = Len(Standing(x)) + 1
        /\ \A k \in 1..Len(Standing(x)) : own[k + 1] = Standing(x)[k]
    BY <2>3
  <2>5. EndsRight(own, 1, Placing(x), PlacedAs(held))
    <3>1. StartOver \in Placing(x) /\ StartOver \in PlacedAs(held) /\ ask \notin Placing(x)
      BY <1>6, <2>1
    <3>2. \A k \in 1..2 : k = 1 \/ k = 2
      OBVIOUS
    <3>3. StaysRight(own, 1, Placing(x), PlacedAs(held))
      BY <2>3, <3>1, <3>2, Zenon DEF StaysRight
    <3>4. 1 \in 1..2
      OBVIOUS
    <3> QED
      BY <2>3, <3>1, <3>3, <3>4, Zenon DEF EndsRight
  <2>6. EndsRight(own, 1, Asking(x), AskedAs(asked))
    BY <1>6, <2>1, <2>2, EndsRightLast
  <2> QED
    BY <1>3, <1>4, <1>8, <2>3, <2>4, <2>5, <2>6
<1>11. CASE server.pair[x] \in Active /\ f # 0 /\ server.pair[x] = "ENROLLED"
  <2>1. Standing(x) = <<up>> /\ held = f /\ asked = FALSE
    BY <1>1, <1>2, <1>3, <1>4, <1>5, <1>11, StandingIs, ReplayedRows
  <2>2. PICK own : own = <<StartOver, up>>
    OBVIOUS
  <2>3. /\ Len(own) = 2 /\ own[1] = StartOver /\ own[2] = up
        /\ Len(Standing(x)) = 1 /\ Standing(x)[1] = up
    BY <2>1, <2>2
  <2>4. /\ Len(own) = Len(Standing(x)) + 1
        /\ \A k \in 1..Len(Standing(x)) : own[k + 1] = Standing(x)[k]
    BY <2>3
  <2>5. /\ EndsRight(own, 1, Placing(x), PlacedAs(held))
        /\ EndsRight(own, 1, Asking(x), AskedAs(asked))
    BY <1>6, <2>1, <2>2, EndsRightLast
  <2> QED
    BY <1>3, <1>4, <1>8, <2>3, <2>4, <2>5
<1>12. CASE server.pair[x] \in Active /\ f # 0 /\ server.pair[x] # "ENROLLED"
  <2>1. Standing(x) = <<up, ask>> /\ held = f /\ asked = TRUE
    BY <1>1, <1>2, <1>3, <1>4, <1>5, <1>12, StandingIs, ReplayedRows
  <2>2. PICK own : own = <<StartOver, up, ask>>
    OBVIOUS
  <2>3. /\ Len(own) = 3 /\ own[1] = StartOver /\ own[2] = up /\ own[3] = ask
        /\ Len(Standing(x)) = 2 /\ Standing(x)[1] = up /\ Standing(x)[2] = ask
    BY <2>1, <2>2
  <2>4. /\ Len(own) = Len(Standing(x)) + 1
        /\ \A k \in 1..Len(Standing(x)) : own[k + 1] = Standing(x)[k]
    BY <2>3
  <2>5. EndsRight(own, 1, Placing(x), PlacedAs(held))
    <3>1. up \in Placing(x) /\ up \in PlacedAs(held) /\ ask \notin Placing(x)
      BY <1>6, <2>1
    <3>2. \A k \in 2..3 : k = 2 \/ k = 3
      OBVIOUS
    <3>3. StaysRight(own, 2, Placing(x), PlacedAs(held))
      BY <2>3, <3>1, <3>2, Zenon DEF StaysRight
    <3>4. 2 \in 1..3
      OBVIOUS
    <3> QED
      BY <2>3, <3>1, <3>3, <3>4, Zenon DEF EndsRight
  <2>6. EndsRight(own, 1, Asking(x), AskedAs(asked))
    <3>1. ask \in Asking(x) /\ ask \in AskedAs(asked)
      BY <1>6, <2>1
    <3>2. \A k \in 3..3 : k = 3
      OBVIOUS
    <3>3. StaysRight(own, 3, Asking(x), AskedAs(asked))
      BY <2>3, <3>1, <3>2, Zenon DEF StaysRight
    <3>4. 3 \in 1..3
      OBVIOUS
    <3> QED
      BY <2>3, <3>1, <3>3, <3>4, Zenon DEF EndsRight
  <2> QED
    BY <1>3, <1>4, <1>8, <2>3, <2>4, <2>5, <2>6
<1> QED
  BY <1>2, <1>9, <1>10, <1>11, <1>12

(* A replay says everything: the invariant outlives it. *)
LEMMA ReplayKeeps ==
  ASSUME RosterInv, TypesAre', NEW floor \in Nat, Replay(floor),
         UNCHANGED <<ram, flash, capturing, reporting, reports>>
  PROVE  RosterInv'
<1>1. TypesAre /\ server \in Rowset
  BY DEF RosterInv, TypesAre
<1>2. PICK got, from : Speaks(<<StartOver>> \o Everybody, ReplayBase(floor) - 1, got, from)
  BY <1>1, ReplaySpeaks
<1>3. PICK n \in Nat, bodies \in Seq(Message) :
        /\ bodies = <<StartOver>> \o Everybody /\ n = Len(Everybody)
        /\ Len(bodies) = n + 1 /\ bodies[1] = StartOver
        /\ \A i \in 1..n : bodies[i + 1] = Everybody[i]
  BY <1>1, EverybodyShape, Zenon
<1>4. ASSUME NEW k \in 1..n + 1, k # 1 PROVE bodies[k].op \in {"UPSERT", "ASSIGN"}
  <2>1. PICK i \in 1..n : k = i + 1
    <3>1. k - 1 \in 1..n /\ k = (k - 1) + 1
      BY <1>4
    <3> QED
      BY <3>1
  <2>2. bodies[k] = Everybody[i]
    BY <1>3, <2>1
  <2> QED
    BY <1>1, <1>3, <2>2, EverybodyAsks
<1>5. bodies[1].op = "REPLACE_ALL"
  BY <1>3 DEF StartOver
<1>6. ASSUME NEW x \in Staff
      PROVE  /\ EndsRight(bodies, 1, Placing(x), PlacedAs(HeldFor(x)'))
             /\ EndsRight(bodies, 1, Asking(x), AskedAs(WaitsFor(x)'))
  BY <1>1, <1>3, OwnReplay
<1>7. \A k \in 1..Len(bodies) :
        bodies[k].op # "CAPTURED" /\ (bodies[k].op = "REPLACE_ALL" => k = 1)
  BY <1>3, <1>4, <1>5
<1>8. Speaking(bodies)
  BY <1>6, <1>7, Zenon DEF Speaking
<1> QED
  BY <1>2, <1>3, <1>8, SpokenKeeps

(* The server says nothing: a beat is heard, or the api starts again. *)
LEMMA QuietKeeps ==
  ASSUME RosterInv, TypesAre',
         UNCHANGED <<lane, ram, flash, capturing, reporting, reports>>,
         server'.number = server.number, server'.pair = server.pair, server'.face = server.face
  PROVE  RosterInv'
<1>1. \A p \in Staff : HeldFor(p)' = HeldFor(p) /\ WaitsFor(p)' = WaitsFor(p)
  BY DEF HeldFor, WaitsFor
<1>2. NumbersInv' /\ NoCaptures' /\ Ascending' /\ Saved'
  BY DEF RosterInv, NumbersInv, NoCaptures, Ascending, Saved, Reached, Batch
<1>3. Live' = Live
  BY DEF Live, Reached, Batch
<1>4. ASSUME NEW p \in Staff
      PROVE  /\ Placing(p)' = Placing(p) /\ Asking(p)' = Asking(p)
             /\ PlacedAs(HeldFor(p)') = PlacedAs(HeldFor(p))
             /\ AskedAs(WaitsFor(p)') = AskedAs(WaitsFor(p))
             /\ HoldsNow(p)' = HoldsNow(p) /\ AsksNow(p)' = AsksNow(p)
  BY <1>1 DEF Placing, Asking, HoldsNow, AsksNow
<1>5. Followed'
  BY <1>3, <1>4 DEF RosterInv, Followed
<1> QED
  BY <1>2, <1>5 DEF RosterInv

(* What is left of the lane when its head is taken. *)
LEMMA RestKeeps ==
  ASSUME TypesAre, NumbersInv, Ascending, Followed, lane # <<>>, lane' = Tail(lane),
         UNCHANGED server, flash'.held = flash.held,
         Reached' = Reached \/ Reached' = Head(lane).number
  PROVE  /\ Ascending'
         /\ \A r \in 1..Len(lane') : Chain(lane', r, server.number) => Chain(lane, r + 1, server.number)
         /\ \A r \in 1..Len(lane') : lane'[r].op = "REPLACE_ALL" /\ Chain(lane', r, server.number) =>
              \A p \in Staff : /\ EndsRight(lane', r, Placing(p), PlacedAs(HeldFor(p)))
                               /\ EndsRight(lane', r, Asking(p), AskedAs(WaitsFor(p)))
<1>1. PICK n \in Nat, rest \in Seq(Message) : /\ n = Len(lane) /\ n >= 1 /\ rest = lane' /\ Len(rest) = n - 1
                             /\ \A k \in 1..n - 1 : k + 1 \in 1..n /\ rest[k] = lane[k + 1]
                             /\ Head(lane) = lane[1] /\ 1 \in 1..n
  <2>1. Len(lane) \in Nat /\ Len(lane) >= 1 /\ Head(lane) = lane[1]
    BY RestOfTheLane, NumbersAre
  <2>2. PICK n \in Nat : n = Len(lane)
    BY <2>1
  <2>3. /\ Len(lane') = n - 1 /\ 1 \in 1..n
        /\ \A k \in 1..n - 1 : k + 1 \in 1..n /\ lane'[k] = lane[k + 1]
    BY <2>1, <2>2, RestOfTheLane
  <2>4. lane' \in Seq(Message)
    BY HeadOfTheLane
  <2> QED
    BY <2>1, <2>2, <2>3, <2>4
<1>2. \A k \in 1..n : lane[k].number \in Nat /\ Reached < lane[k].number
  BY <1>1, NumbersAre DEF Ascending
<1>3. Reached \in Nat /\ flash.held \in Nat
  BY BatchNumber, NumbersAre DEF Reached
<1>4. Ascending'
  <2>1. ASSUME NEW i \in 1..n - 1, NEW j \in 1..n - 1, i < j PROVE rest[i].number < rest[j].number
    <3>1. i + 1 \in 1..n /\ j + 1 \in 1..n /\ i + 1 < j + 1
      BY <1>1, <2>1
    <3>2. lane[i + 1].number < lane[j + 1].number
      BY <1>1, <3>1 DEF Ascending
    <3> QED
      BY <1>1, <3>2
  <2>2. ASSUME NEW i \in 1..n - 1 PROVE Reached' < rest[i].number
    <3>1. i + 1 \in 1..n /\ 1 < i + 1
      BY <1>1
    <3>2. lane[1].number < lane[i + 1].number
      BY <1>1, <3>1 DEF Ascending
    <3>3. Reached < lane[i + 1].number
      BY <1>2, <3>1
    <3> QED
      BY <1>1, <3>2, <3>3
  <2>3. flash'.held <= Reached'
    <3>1. flash.held <= Reached /\ Reached < lane[1].number /\ lane[1].number \in Nat
      BY <1>1, <1>2 DEF Ascending
    <3> QED
      BY <1>1, <1>3, <3>1
  <2> QED
    BY <1>1, <2>1, <2>2, <2>3 DEF Ascending
<1>5. PICK top \in Nat : top = server.number
  BY NumbersAre
<1>6. ASSUME NEW r \in 1..n - 1, Chain(rest, r, top) PROVE Chain(lane, r + 1, top)
  <2>1. ASSUME NEW k \in r + 1..n PROVE lane[k].number + (n - k) = top
    <3>1. PICK i \in r..n - 1 : k = i + 1 /\ i \in 1..n - 1
      <4>1. k - 1 \in r..n - 1 /\ k = (k - 1) + 1 /\ k - 1 \in 1..n - 1
        BY <1>1
      <4> QED
        BY <4>1
    <3>2. rest[i].number + ((n - 1) - i) = top
      BY <1>1, <1>6, <3>1 DEF Chain
    <3>3. rest[i] = lane[k]
      BY <1>1, <3>1
    <3>4. PICK v \in Nat : v = lane[k].number
      <4>1. k \in 1..n
        BY <1>1
      <4> QED
        BY <1>2, <4>1
    <3>5. v + ((n - 1) - i) = top
      BY <3>2, <3>3, <3>4
    <3> QED
      BY <1>1, <3>1, <3>4, <3>5
  <2> QED
    BY <1>1, <2>1 DEF Chain
<1>7. ASSUME NEW r \in 1..n - 1, rest[r].op = "REPLACE_ALL", Chain(rest, r, top), NEW p \in Staff
      PROVE  /\ EndsRight(rest, r, Placing(p), PlacedAs(HeldFor(p)))
             /\ EndsRight(rest, r, Asking(p), AskedAs(WaitsFor(p)))
  <2>1. PICK i \in 1..n : i = r + 1
    BY <1>1
  <2>2. lane[i].op = "REPLACE_ALL" /\ Chain(lane, i, top)
    BY <1>1, <1>6, <1>7, <2>1
  <2>3. /\ EndsRight(lane, i, Placing(p), PlacedAs(HeldFor(p)))
        /\ EndsRight(lane, i, Asking(p), AskedAs(WaitsFor(p)))
    BY <1>1, <1>5, <2>2 DEF Followed
  <2>4. PICK q \in Seq(Message) : q = lane /\ q # <<>> /\ rest = Tail(q)
    BY <1>1 DEF TypesAre
  <2>5. r \in 1..Len(Tail(q))
    BY <1>1, <2>4
  <2> QED
    BY <2>1, <2>3, <2>4, <2>5, TailTaken
<1>8. \A r \in 1..n - 1 : Chain(rest, r, server.number) => Chain(lane, r + 1, server.number)
  BY <1>5, <1>6
<1>9. \A r \in 1..n - 1 : rest[r].op = "REPLACE_ALL" /\ Chain(rest, r, server.number) =>
              \A p \in Staff : /\ EndsRight(rest, r, Placing(p), PlacedAs(HeldFor(p)))
                               /\ EndsRight(rest, r, Asking(p), AskedAs(WaitsFor(p)))
  BY <1>5, <1>7
<1> QED
  BY <1>1, <1>4, <1>8, <1>9, Zenon

(* A head taken in keeps a follower of the lane right. *)
LEMMA FollowsOn ==
  ASSUME NEW q \in Seq(Message), q # <<>>, NEW W, NEW R, NEW now, NEW now2,
         Follows(q, now, W, R),
         Head(q) \in W /\ Head(q) \in R => now2,
         Head(q) \notin W /\ now => now2
  PROVE  Follows(Tail(q), now2, W, R)
<1>1. CASE now /\ StaysRight(q, 1, W, R)
  <2>1. StaysRight(Tail(q), 1, W, R) /\ (Head(q) \in W => Head(q) \in R)
    BY <1>1, TailTaken
  <2> QED
    BY <1>1, <2>1 DEF Follows
<1>2. CASE EndsRight(q, 1, W, R)
  <2>1. \/ EndsRight(Tail(q), 1, W, R)
        \/ Head(q) \in W /\ Head(q) \in R /\ StaysRight(Tail(q), 1, W, R)
    BY <1>2, TailTaken
  <2> QED
    BY <2>1 DEF Follows
<1> QED
  BY <1>1, <1>2 DEF Follows

(* The parts of the invariant, and the numbers it speaks of. *)
LEMMA RosterFacts ==
  ASSUME RosterInv
  PROVE  /\ TypesAre /\ NumbersInv /\ NoCaptures /\ Ascending /\ Saved /\ Followed
         /\ ram \in RamType /\ flash \in FlashType /\ lane \in Seq(Message)
         /\ server.number \in Nat /\ flash.held \in Nat /\ ram.batch.held \in Nat
         /\ Reached \in Nat /\ Reached <= server.number /\ Batch.held = Reached
<1>1. TypesAre /\ NumbersInv /\ NoCaptures /\ Ascending /\ Saved /\ Followed
  BY DEF RosterInv
<1>2. ram \in RamType /\ flash \in FlashType /\ lane \in Seq(Message)
  BY <1>1 DEF TypesAre
<1>3. Reached \in Nat /\ Reached <= server.number /\ Batch.held = Reached
  BY <1>1, BatchNumber DEF Reached
<1> QED
  BY <1>1, <1>2, <1>3, NumbersAre

(* The batch a message is taken into is open, and holds what was saved or changed. *)
LEMMA OpenBatch ==
  ASSUME RosterInv, CanTake
  PROVE  /\ Batch \in [at : {"none", "taking", "storing"}, held : Nat, changed : BOOLEAN]
         /\ Batch.at = "taking"
         /\ Batch.changed => flash.held < Batch.held
         /\ ram.batch.at = "taking" /\ ram.batch.changed => Batch.changed
<1>1. Saved /\ ram \in RamType
  BY RosterFacts
<1>2. Batch \in [at : {"none", "taking", "storing"}, held : Nat, changed : BOOLEAN]
  BY RosterFacts, BatchType
<1>3. CASE ram.batch = NoBatch
  BY <1>2, <1>3 DEF Batch, NoBatch
<1>4. CASE ram.batch # NoBatch
  <2>1. Batch = ram.batch
    BY <1>4 DEF Batch
  <2>2. ram.batch.at \in {"none", "taking", "storing"} /\ ram.batch.at # "storing"
    BY <1>1 DEF RamType, CanTake
  <2>3. ram.batch.at = "taking"
    BY <1>1, <1>4, <2>2 DEF Saved
  <2> QED
    BY <1>1, <1>2, <2>1, <2>3 DEF Saved
<1> QED
  BY <1>3, <1>4

(* A message refused, or one past a gap: the kiosk waits to be told all over. *)
LEMMA GappedKeeps ==
  ASSUME RosterInv, TypesAre', TakeFails \/ PassOver
  PROVE  RosterInv'
<1>1. TypesAre /\ NumbersInv /\ NoCaptures /\ Ascending /\ Saved /\ Followed
      /\ ram \in RamType /\ flash \in FlashType
  BY RosterFacts
<1>2. /\ lane # <<>> /\ lane' = Tail(lane) /\ CanTake
      /\ UNCHANGED <<server, reports, capturing, reporting>>
  BY DEF TakeFails, PassOver, CanTake
<1>3. PICK batch \in [at : {"none", "taking", "storing"}, held : Nat, changed : BOOLEAN] :
        /\ batch = Batch /\ batch.at = "taking"
        /\ batch.changed => flash.held < batch.held
  BY <1>2, OpenBatch
<1>4. /\ Head(lane) = lane[1] /\ Head(lane) \in Message /\ Len(lane) \in Nat /\ Len(lane) >= 1
      /\ 1 \in 1..Len(lane)
  BY <1>1, <1>2, RestOfTheLane, NumbersAre
<1>5. /\ Reached \in Nat /\ lane[1].number \in Nat /\ server.number \in Nat
      /\ Reached < lane[1].number /\ lane[1].number <= server.number
  BY <1>1, <1>4, RosterFacts, NumbersAre DEF Ascending, NumbersInv
<1>6. /\ ram'.gapped = TRUE /\ ram'.batch = batch /\ ram'.table = ram.table
      /\ ram'.asks = flash'.asks /\ flash'.held = flash.held /\ flash'.table = flash.table
  <2>1. CASE TakeFails
    <3>1. PICK asks : /\ ram' = [ram EXCEPT !.gapped = TRUE, !.asks = asks, !.batch = batch]
                      /\ flash' = [flash EXCEPT !.asks = asks]
      BY <1>3, <2>1 DEF TakeFails
    <3> QED
      BY <1>1, <3>1 DEF RamType, FlashType
  <2>2. CASE PassOver
    <3>1. PICK m : m = Head(lane)
      OBVIOUS
    <3>2. ~Stale(m)
      <4>1. m.number = lane[1].number
        BY <1>4, <3>1
      <4>2. Batch.held = Reached
        BY DEF Reached
      <4> QED
        BY <1>5, <4>1, <4>2 DEF Stale
    <3>3. PICK gapped : gapped = (ram.gapped \/ ~Stale(m)) /\ gapped = TRUE
      BY <3>2
    <3>4. ram' = [ram EXCEPT !.gapped = gapped, !.batch = batch] /\ flash' = flash
      BY <1>3, <2>2, <3>1, <3>3 DEF PassOver
    <3> QED
      BY <1>1, <3>3, <3>4 DEF RamType, Saved
  <2> QED
    BY <2>1, <2>2
<1>7. Reached' = Reached
  <2>1. Batch' = batch
    BY <1>3, <1>6 DEF Batch, NoBatch
  <2> QED
    BY <1>3, <2>1 DEF Reached
<1>8. NumbersInv'
  BY <1>1, TakenNumbers DEF TakeRoster
<1>9. NoCaptures'
  <2>1. \A i \in 1..Len(lane') : lane'[i].op # "CAPTURED"
    BY <1>1, <1>2, RestOfTheLane DEF NoCaptures
  <2> QED
    BY <1>1, <1>2, <1>6, <2>1 DEF NoCaptures
<1>10. /\ Ascending'
       /\ \A r \in 1..Len(lane') : lane'[r].op = "REPLACE_ALL" /\ Chain(lane', r, server.number) =>
            \A p \in Staff : /\ EndsRight(lane', r, Placing(p), PlacedAs(HeldFor(p)))
                             /\ EndsRight(lane', r, Asking(p), AskedAs(WaitsFor(p)))
  BY <1>1, <1>2, <1>6, <1>7, RestKeeps
<1>11. Saved'
  <2>1. Reached' < server'.number
    BY <1>2, <1>5, <1>7
  <2> QED
    BY <1>3, <1>6, <2>1 DEF Saved
<1>12. ~Live'
  BY <1>6 DEF Live
<1>13. Followed'
  <2>1. \A p \in Staff : /\ Placing(p)' = Placing(p) /\ Asking(p)' = Asking(p)
                         /\ HeldFor(p)' = HeldFor(p) /\ WaitsFor(p)' = WaitsFor(p)
                         /\ PlacedAs(HeldFor(p)') = PlacedAs(HeldFor(p))
                         /\ AskedAs(WaitsFor(p)') = AskedAs(WaitsFor(p))
    BY <1>2 DEF Placing, Asking, HeldFor, WaitsFor
  <2> QED
    BY <1>2, <1>10, <1>12, <2>1 DEF Followed
<1> QED
  BY <1>8, <1>9, <1>10, <1>11, <1>13 DEF RosterInv

(* What stands of Followed while neither the rows nor the lane change. *)
LEMMA StillFollowed ==
  ASSUME RosterInv, UNCHANGED <<server, lane>>,
         Live' => Live /\ \A p \in Staff : (HoldsNow(p) => HoldsNow(p)') /\ (AsksNow(p) => AsksNow(p)')
  PROVE  Followed'
<1>1. Followed
  BY DEF RosterInv
<1>2. \A p \in Staff : /\ Placing(p)' = Placing(p) /\ Asking(p)' = Asking(p)
                       /\ HeldFor(p)' = HeldFor(p) /\ WaitsFor(p)' = WaitsFor(p)
                       /\ PlacedAs(HeldFor(p)') = PlacedAs(HeldFor(p))
                       /\ AskedAs(WaitsFor(p)') = AskedAs(WaitsFor(p))
  BY DEF Placing, Asking, HeldFor, WaitsFor
<1>3. ASSUME Live', NEW p \in Staff
      PROVE  /\ Follows(lane, HoldsNow(p)', Placing(p), PlacedAs(HeldFor(p)))
             /\ Follows(lane, AsksNow(p)', Asking(p), AskedAs(WaitsFor(p)))
  <2>1. /\ Follows(lane, HoldsNow(p), Placing(p), PlacedAs(HeldFor(p)))
        /\ Follows(lane, AsksNow(p), Asking(p), AskedAs(WaitsFor(p)))
        /\ HoldsNow(p) => HoldsNow(p)'
        /\ AsksNow(p) => AsksNow(p)'
    BY <1>1, <1>3 DEF Followed
  <2> QED
    BY <2>1 DEF Follows
<1> QED
  BY <1>1, <1>2, <1>3 DEF Followed

(* The table goes to flash before the number; if it cannot, the kiosk waits to be told all over. *)
LEMMA BatchEnds ==
  ASSUME RosterInv, TypesAre', EndBatch
  PROVE  RosterInv'
<1>1. TypesAre /\ NumbersInv /\ NoCaptures /\ Ascending /\ Saved /\ Followed
      /\ ram \in RamType /\ flash \in FlashType
  BY RosterFacts
<1>2. /\ server.number \in Nat /\ flash.held \in Nat /\ Reached \in Nat /\ Len(lane) \in Nat
      /\ Reached <= server.number /\ flash.held <= Reached
      /\ \A i \in 1..Len(lane) : lane[i].number \in Nat /\ Reached < lane[i].number
  BY <1>1, RosterFacts, NumbersAre DEF Ascending
<1>3. UNCHANGED <<server, lane, reports, capturing, reporting>> /\ ram.batch.at = "taking"
  BY DEF EndBatch
<1>4. Reached = ram.batch.held
  BY <1>1, <1>3 DEF Reached, Batch, NoBatch
<1>5. CASE /\ flash' = IF ram.batch.changed THEN [flash EXCEPT !.table = ram.table] ELSE flash
           /\ ram' = [ram EXCEPT !.batch.at = "storing"]
  <2>1. /\ ram'.batch.at = "storing" /\ ram'.batch.held = ram.batch.held
        /\ ram'.table = ram.table /\ ram'.asks = ram.asks /\ ram'.spent = ram.spent
        /\ ram'.lacks = ram.lacks /\ ram'.gapped = ram.gapped
    BY <1>1, <1>5 DEF RamType
  <2>2. /\ flash'.held = flash.held /\ flash'.asks = flash.asks
        /\ flash'.table = IF ram.batch.changed THEN ram.table ELSE flash.table
    BY <1>1, <1>5 DEF FlashType
  <2>3. Reached' = Reached
    <3>1. Batch' = ram'.batch
      BY <2>1 DEF Batch, NoBatch
    <3> QED
      BY <1>4, <2>1, <3>1 DEF Reached
  <2>4. NumbersInv' /\ Ascending'
    BY <1>1, <1>3, <2>1, <2>2, <2>3 DEF NumbersInv, Ascending
  <2>5. NoCaptures'
    <3>1. \A p \in Staff : flash'.table[p].own = 0
      BY <1>1, <2>2 DEF NoCaptures
    <3> QED
      BY <1>1, <1>3, <2>1, <3>1 DEF NoCaptures
  <2>6. Saved'
    BY <1>1, <1>3, <2>1, <2>2, <2>3 DEF Saved
  <2>7. Live' => Live
    BY <1>3, <2>1, <2>3 DEF Live
  <2>8. \A p \in Staff : (HoldsNow(p) => HoldsNow(p)') /\ (AsksNow(p) => AsksNow(p)')
    BY <1>3, <2>1 DEF HoldsNow, AsksNow, HeldFor, WaitsFor
  <2>9. Followed'
    BY <1>3, <2>7, <2>8, StillFollowed
  <2> QED
    BY <2>4, <2>5, <2>6, <2>9 DEF RosterInv
<1>6. CASE /\ ram.batch.changed /\ ram' = [ram EXCEPT !.batch = NoBatch, !.gapped = TRUE]
           /\ UNCHANGED flash
  <2>1. ram'.batch = NoBatch /\ ram'.gapped = TRUE /\ ram'.table = ram.table /\ ram'.asks = ram.asks
    BY <1>1, <1>6 DEF RamType
  <2>2. Reached' = flash.held
    BY <1>6, <2>1 DEF Reached, Batch
  <2>3. flash.held < Reached
    BY <1>1, <1>3, <1>4, <1>6 DEF Saved
  <2>4. NumbersInv'
    BY <1>1, <1>2, <1>3, <1>6, <2>1 DEF NumbersInv, NoBatch
  <2>5. Ascending'
    BY <1>1, <1>2, <1>3, <1>6, <2>2 DEF Ascending
  <2>6. NoCaptures'
    BY <1>1, <1>3, <1>6, <2>1 DEF NoCaptures
  <2>7. Saved'
    <3>1. Reached' < server'.number
      BY <1>2, <1>3, <2>2, <2>3
    <3> QED
      BY <1>1, <1>6, <2>1, <3>1 DEF Saved, NoBatch
  <2>8. ~Live'
    BY <2>1 DEF Live
  <2>9. Followed'
    BY <1>3, <2>8, StillFollowed
  <2> QED
    BY <2>4, <2>5, <2>6, <2>7, <2>9 DEF RosterInv
<1> QED
  BY <1>5, <1>6 DEF EndBatch

(* The number goes to flash behind the table, or does not go at all. *)
LEMMA NumberIsStored ==
  ASSUME RosterInv, TypesAre', StoreNumber
  PROVE  RosterInv'
<1>1. TypesAre /\ NumbersInv /\ NoCaptures /\ Ascending /\ Saved /\ Followed
      /\ ram \in RamType /\ flash \in FlashType
  BY RosterFacts
<1>2. /\ server.number \in Nat /\ flash.held \in Nat /\ Reached \in Nat /\ Len(lane) \in Nat
      /\ Reached <= server.number /\ flash.held <= Reached
      /\ \A i \in 1..Len(lane) : lane[i].number \in Nat /\ Reached < lane[i].number
  BY <1>1, RosterFacts, NumbersAre DEF Ascending
<1>3. /\ UNCHANGED <<server, lane, reports, capturing, reporting>> /\ ram.batch.at = "storing"
      /\ ram' = [ram EXCEPT !.batch = NoBatch]
  BY DEF StoreNumber
<1>4. Reached = ram.batch.held
  BY <1>1, <1>3 DEF Reached, Batch, NoBatch
<1>5. /\ ram'.batch = NoBatch /\ ram'.gapped = ram.gapped /\ ram'.table = ram.table
      /\ ram'.asks = ram.asks /\ ram'.spent = ram.spent /\ ram'.lacks = ram.lacks
  BY <1>1, <1>3 DEF RamType
<1>6. flash'.table = flash.table /\ flash'.asks = flash.asks
      /\ \/ flash'.held = Reached
         \/ flash'.held = flash.held /\ flash.held < Reached
  <2>1. CASE flash' = [flash EXCEPT !.held = ram.batch.held]
    BY <1>1, <1>4, <2>1 DEF FlashType
  <2>2. CASE UNCHANGED flash /\ ram.batch.held # flash.held
    BY <1>2, <1>4, <2>2
  <2> QED
    BY <2>1, <2>2 DEF StoreNumber
<1>7. Reached' = flash'.held /\ Reached' <= Reached /\ Reached' \in Nat
  BY <1>2, <1>5, <1>6 DEF Reached, Batch
<1>8. NumbersInv'
  BY <1>1, <1>2, <1>3, <1>5, <1>7 DEF NumbersInv, NoBatch
<1>9. Ascending'
  BY <1>1, <1>2, <1>3, <1>7 DEF Ascending
<1>10. NoCaptures'
  BY <1>1, <1>3, <1>5, <1>6 DEF NoCaptures
<1>11. Saved'
  <2>1. ram.gapped => Reached' < server'.number
    BY <1>1, <1>2, <1>3, <1>7 DEF Saved
  <2> QED
    BY <1>1, <1>3, <1>5, <1>6, <2>1 DEF Saved, NoBatch
<1>12. ASSUME Live' PROVE Live
  <2>1. PICK n \in Nat, top \in Nat, now \in Nat, next \in Nat :
          /\ n = Len(lane) /\ top = server.number /\ now = Reached /\ next = Reached'
          /\ next = now \/ next < now
    BY <1>2, <1>6, <1>7
  <2>2. next + n = top /\ Chain(lane, 1, top) /\ ~ram.gapped
    BY <1>3, <1>5, <1>12, <2>1 DEF Live
  <2>3. next = now
    <3>1. CASE n = 0
      BY <1>2, <2>1, <2>2, <3>1
    <3>2. CASE n # 0
      <4>1. 1 \in 1..n
        BY <3>2
      <4>2. lane[1].number + (n - 1) = top
        BY <2>1, <2>2, <4>1 DEF Chain
      <4>3. lane[1].number \in Nat /\ now < lane[1].number
        BY <1>2, <2>1, <4>1
      <4> QED
        BY <2>1, <2>2, <4>2, <4>3
    <3> QED
      BY <3>1, <3>2
  <2> QED
    BY <2>1, <2>2, <2>3 DEF Live
<1>13. \A p \in Staff : (HoldsNow(p) => HoldsNow(p)') /\ (AsksNow(p) => AsksNow(p)')
  BY <1>3, <1>5 DEF HoldsNow, AsksNow, HeldFor, WaitsFor
<1>14. Followed'
  BY <1>3, <1>12, <1>13, StillFollowed
<1> QED
  BY <1>8, <1>9, <1>10, <1>11, <1>14 DEF RosterInv

(* A kiosk that comes back at the server's own number lost nothing on the way. *)
LEMMA PowerCutKeeps ==
  ASSUME RosterInv, TypesAre', PowerCut
  PROVE  RosterInv'
<1>1. TypesAre /\ NumbersInv /\ NoCaptures /\ Ascending /\ Saved /\ Followed
      /\ ram \in RamType /\ flash \in FlashType
  BY RosterFacts
<1>2. /\ server.number \in Nat /\ flash.held \in Nat /\ Reached \in Nat /\ Len(lane) \in Nat
      /\ Reached <= server.number /\ flash.held <= Reached
      /\ \A i \in 1..Len(lane) : /\ lane[i].number \in Nat /\ Reached < lane[i].number
                                 /\ lane[i].number <= server.number
  BY <1>1, RosterFacts, NumbersAre DEF Ascending, NumbersInv
<1>3. /\ UNCHANGED <<server, flash, reports>> /\ lane' = <<>>
      /\ capturing' = 0 /\ reporting' = NoReport
      /\ ram'.table = flash.table /\ ram'.asks = flash.asks /\ ram'.gapped = FALSE
      /\ ram'.spent = ram.spent /\ ram'.lacks = ram.lacks /\ ram'.batch = NoBatch
  BY DEF PowerCut
<1>4. Reached' = flash.held
  BY <1>3 DEF Reached, Batch
<1>5. Len(lane') = 0
  BY <1>3
<1>6. NumbersInv'
  BY <1>1, <1>2, <1>3, <1>5 DEF NumbersInv, NoBatch
<1>7. NoCaptures'
  BY <1>1, <1>3, <1>5 DEF NoCaptures
<1>8. Ascending'
  BY <1>2, <1>3, <1>4, <1>5 DEF Ascending
<1>9. Saved'
  BY <1>3 DEF Saved, NoBatch
<1>10. ASSUME Live'
       PROVE  Live /\ lane = <<>> /\ ram.table = flash.table /\ ram.asks = flash.asks
  <2>1. flash.held = server.number
    BY <1>2, <1>3, <1>4, <1>5, <1>10 DEF Live
  <2>2. Reached = server.number /\ ~ram.gapped
    BY <1>1, <1>2, <2>1 DEF Saved
  <2>3. Len(lane) = 0
    <3>1. ASSUME Len(lane) # 0 PROVE FALSE
      <4>1. 1 \in 1..Len(lane)
        BY <1>2, <3>1
      <4> QED
        BY <1>2, <2>2, <4>1
    <3> QED
      BY <3>1
  <2>4. lane = <<>>
    BY <1>1, <2>3 DEF TypesAre
  <2>5. ram.table = flash.table
    <3>1. ASSUME ram.batch.at = "taking", ram.batch.changed PROVE FALSE
      <4>1. flash.held < ram.batch.held /\ ram.batch.held <= server.number
        BY <1>1, <3>1 DEF Saved, NumbersInv
      <4> QED
        BY <1>1, <2>1, <4>1, NumbersAre
    <3> QED
      BY <1>1, <2>2, <3>1 DEF Saved
  <2>6. Live
    BY <1>2, <2>2, <2>3 DEF Live, Chain
  <2> QED
    BY <1>1, <2>4, <2>5, <2>6 DEF Saved
<1>11. Followed'
  <2>1. CASE Live'
    <3>1. /\ UNCHANGED <<server, lane>>
          /\ ram'.table = ram.table /\ ram'.asks = ram.asks
          /\ ram'.spent = ram.spent /\ ram'.lacks = ram.lacks
      BY <1>3, <1>10, <2>1
    <3>2. \A p \in Staff : (HoldsNow(p) => HoldsNow(p)') /\ (AsksNow(p) => AsksNow(p)')
      BY <3>1 DEF HoldsNow, AsksNow, HeldFor, WaitsFor
    <3> QED
      BY <1>10, <2>1, <3>1, <3>2, StillFollowed
  <2>2. CASE ~Live'
    BY <1>5, <2>2 DEF Followed
  <2> QED
    BY <2>1, <2>2
<1> QED
  BY <1>6, <1>7, <1>8, <1>9, <1>11 DEF RosterInv

(* A message that is about p settles p; one that is not leaves p alone. *)
LEMMA TableTaken ==
  ASSUME RosterInv, NEW m \in Message, m.op # "CAPTURED", NEW p \in Staff,
         NEW crowded \in BOOLEAN, crowded => m.op = "UPSERT" /\ ram.table[m.who].held = 0,
         ram'.table = Table(m, crowded), ram'.lacks = LacksAfter(m, FALSE, crowded),
         UNCHANGED server
  PROVE  /\ m \in Placing(p) /\ m \in PlacedAs(HeldFor(p)) => HoldsNow(p)'
         /\ m \notin Placing(p) /\ HoldsNow(p) => HoldsNow(p)'
<1>1. ram.table \in [Staff -> Record]
  BY RosterFacts DEF RamType
<1>2. /\ m.op \in {"ASSIGN", "UPSERT", "DELETE_EMPLOYEE", "REPLACE_ALL"}
      /\ m.op # "REPLACE_ALL" => m.who \in Staff
  BY DEF Message
<1>3. HeldFor(p)' = HeldFor(p)
  BY DEF HeldFor
<1>4. CASE m.op = "REPLACE_ALL"
  <2>1. ram'.table = [x \in Staff |-> [held |-> 0, own |-> ram.table[x].own]]
    BY <1>4 DEF Table
  <2>2. ram'.table[p].held = 0
    <3>1. ram'.table[p] = [held |-> 0, own |-> ram.table[p].own]
      BY <2>1
    <3> QED
      BY <3>1
  <2>3. m \in Placing(p) /\ (m \in PlacedAs(HeldFor(p)) => HeldFor(p) = 0)
    BY <1>4 DEF Placing, PlacedAs
  <2> QED
    BY <1>3, <2>2, <2>3 DEF HoldsNow
<1>c. CASE crowded
  <2>1. /\ m.op = "UPSERT" /\ m.who \in Staff /\ ram.table[m.who].held = 0
        /\ ram'.table = ram.table /\ ram'.lacks = ram.lacks \cup {m.who}
    BY <1>2, <1>c DEF Table, LacksAfter
  <2>2. (m \in Placing(p)) <=> m.who = p
    BY <2>1 DEF Placing
  <2> QED
    BY <1>3, <2>1, <2>2 DEF HoldsNow
<1>5. CASE m.op = "UPSERT" /\ ~crowded
  <2>1. ram'.table = [ram.table EXCEPT ![m.who].held = m.face]
    BY <1>5 DEF Table
  <2>l. ram'.lacks = ram.lacks \ {m.who}
    BY <1>5 DEF LacksAfter
  <2>2. ram'.table[p].held = IF m.who = p THEN m.face ELSE ram.table[p].held
    BY <1>1, <1>2, <1>5, <2>1 DEF Record
  <2>3. /\ (m \in Placing(p)) <=> m.who = p
        /\ m \in PlacedAs(HeldFor(p)) => m.face = HeldFor(p)
    BY <1>5 DEF Placing, PlacedAs
  <2> QED
    BY <1>3, <2>l, <2>2, <2>3 DEF HoldsNow
<1>6. CASE m.op = "DELETE_EMPLOYEE"
  <2>1. ram'.table = [ram.table EXCEPT ![m.who] = [held |-> 0, own |-> 0]]
    BY <1>6 DEF Table
  <2>l. ram'.lacks = ram.lacks \ {m.who}
    BY <1>6 DEF LacksAfter
  <2>2. ram'.table[p].held = IF m.who = p THEN 0 ELSE ram.table[p].held
    <3>1. ram'.table[p] = IF m.who = p THEN [held |-> 0, own |-> 0] ELSE ram.table[p]
      BY <1>1, <1>2, <1>6, <2>1
    <3> QED
      BY <3>1
  <2>3. /\ (m \in Placing(p)) <=> m.who = p
        /\ m \in PlacedAs(HeldFor(p)) => 0 = HeldFor(p)
    BY <1>6 DEF Placing, PlacedAs
  <2> QED
    BY <1>3, <2>l, <2>2, <2>3 DEF HoldsNow
<1>7. CASE m.op = "ASSIGN"
  <2>1. ram'.table = ram.table /\ ram'.lacks = ram.lacks /\ m \notin Placing(p)
    BY <1>7 DEF Table, Placing, LacksAfter
  <2> QED
    BY <1>3, <2>1 DEF HoldsNow
<1> QED
  BY <1>2, <1>c, <1>4, <1>5, <1>6, <1>7

(* The same of the pending list, but for an ask a full list refused. *)
LEMMA AsksTaken ==
  ASSUME RosterInv, NEW m \in Message, m.op # "CAPTURED", NEW p \in Staff,
         NEW crowded \in BOOLEAN, crowded => m.op = "UPSERT",
         ram'.asks = AsksAfter(m, crowded), UNCHANGED server,
         ram'.spent = SpentAfter(m, FALSE, crowded), ram'.lacks = LacksAfter(m, FALSE, crowded)
  PROVE  /\ m \in Asking(p) /\ m \in AskedAs(WaitsFor(p)) => AsksNow(p)'
         /\ m \notin Asking(p) /\ AsksNow(p) => AsksNow(p)'
<1>1. m.op \in {"ASSIGN", "UPSERT", "DELETE_EMPLOYEE", "REPLACE_ALL"}
  BY DEF Message
<1>2. WaitsFor(p)' = WaitsFor(p)
  BY DEF WaitsFor
<1>3. /\ m \in Asking(p) <=> (m.op = "REPLACE_ALL" \/ m.who = p)
      /\ m \in AskedAs(WaitsFor(p)) <=> ((m.op = "ASSIGN") <=> WaitsFor(p))
  BY DEF Asking, AskedAs
<1>4. CASE m.op = "REPLACE_ALL"
  <2>1. ram'.asks = {}
    BY <1>4 DEF AsksAfter
  <2> QED
    BY <1>2, <1>3, <1>4, <2>1 DEF AsksNow
<1>c. CASE crowded
  <2>1. /\ m.op = "UPSERT" /\ ram'.asks = ram.asks /\ ram'.spent = ram.spent
        /\ ram'.lacks = ram.lacks \cup {m.who}
    BY <1>c DEF AsksAfter, SpentAfter, LacksAfter, Full
  <2> QED
    BY <1>2, <1>3, <2>1 DEF AsksNow
<1>5. CASE m.op = "ASSIGN" /\ Full(m)
  <2>1. /\ ram'.asks = ram.asks /\ ram'.spent = ram.spent \cup {m.who}
        /\ ram'.lacks = ram.lacks
    BY <1>5 DEF AsksAfter, SpentAfter, LacksAfter
  <2> QED
    BY <1>2, <1>3, <1>5, <2>1 DEF AsksNow
<1>6. CASE m.op = "ASSIGN" /\ ~Full(m)
  <2>1. /\ ram'.asks = ram.asks \cup {m.who} /\ ram'.spent = ram.spent \ {m.who}
        /\ ram'.lacks = ram.lacks
    BY <1>6 DEF AsksAfter, SpentAfter, LacksAfter
  <2> QED
    BY <1>2, <1>3, <1>6, <2>1 DEF AsksNow
<1>7. CASE m.op \in {"UPSERT", "DELETE_EMPLOYEE"} /\ ~crowded
  <2>1. /\ ram'.asks = ram.asks \ {m.who} /\ ram'.spent = ram.spent \ {m.who}
        /\ ram'.lacks = ram.lacks \ {m.who}
    BY <1>7 DEF AsksAfter, Full, SpentAfter, LacksAfter
  <2> QED
    BY <1>2, <1>3, <1>7, <2>1 DEF AsksNow
<1> QED
  BY <1>1, <1>c, <1>4, <1>5, <1>6, <1>7

(* A message applied: the invariant outlives it. *)
LEMMA TakenKeeps ==
  ASSUME ~PendingFails, RosterInv, TypesAre', TakeOne
  PROVE  RosterInv'
<1>1. TypesAre /\ NumbersInv /\ NoCaptures /\ Ascending /\ Saved /\ Followed
      /\ ram \in RamType /\ flash \in FlashType
  BY RosterFacts
<1>2. /\ lane # <<>> /\ lane' = Tail(lane) /\ CanTake
      /\ UNCHANGED <<server, reports, capturing, reporting>>
  BY DEF TakeOne, CanTake
<1>3. PICK batch \in [at : {"none", "taking", "storing"}, held : Nat, changed : BOOLEAN] :
        /\ batch = Batch /\ batch.at = "taking" /\ batch.held = Reached
        /\ batch.changed => flash.held < batch.held
        /\ ram.batch.at = "taking" /\ ram.batch.changed => batch.changed
  BY <1>2, OpenBatch DEF Reached
<1>4. PICK m \in Message : m = Head(lane) /\ m = lane[1]
  BY <1>1, <1>2, RestOfTheLane
<1>5. m.op # "CAPTURED" /\ Takes(m)
  BY <1>4 DEF TakeOne
<1>6. /\ m.op \in {"ASSIGN", "UPSERT", "DELETE_EMPLOYEE", "REPLACE_ALL"}
      /\ m.op # "REPLACE_ALL" => m.who \in Staff
      /\ m.number \in Nat
  BY <1>5 DEF Message
<1>7. PICK spared, crowded, refused \in BOOLEAN : TakenAs(m, batch, spared, crowded, refused)
  BY <1>3, <1>4, OneTaken
<1>8. spared = FALSE /\ refused = crowded
  BY <1>1, <1>6, <1>7 DEF TakenAs, NoCaptures
<1>9. PICK table, asks, spent, lacks, changed :
        /\ table = Table(m, crowded) /\ asks = AsksAfter(m, crowded)
        /\ spent = SpentAfter(m, FALSE, crowded) /\ lacks = LacksAfter(m, FALSE, crowded)
        /\ changed = (batch.changed \/ (m.op # "ASSIGN" /\ ~crowded))
  OBVIOUS
<1>10. ram' = [ram EXCEPT !.table = table, !.asks = asks,
                 !.gapped = IF m.op = "REPLACE_ALL" THEN FALSE ELSE ram.gapped,
                 !.spent = spent, !.lacks = lacks,
                 !.batch = [batch EXCEPT !.held = m.number, !.changed = changed]]
  BY <1>7, <1>8, <1>9, Zenon DEF TakenAs
<1>11. /\ ram'.table = table /\ ram'.asks = asks /\ ram'.spent = spent /\ ram'.lacks = lacks
       /\ ram'.gapped = (IF m.op = "REPLACE_ALL" THEN FALSE ELSE ram.gapped)
       /\ ram'.batch.at = "taking" /\ ram'.batch.held = m.number /\ ram'.batch.changed = changed
  BY <1>1, <1>3, <1>10 DEF RamType
<1>12. flash' = [flash EXCEPT !.asks = asks]
  BY <1>7, <1>8, <1>9 DEF TakenAs, SavePending
<1>13. flash'.asks = asks /\ flash'.held = flash.held /\ flash'.table = flash.table
  BY <1>1, <1>12 DEF FlashType
<1>14. Reached' = m.number
  <2>1. Batch' = ram'.batch
    BY <1>11 DEF Batch, NoBatch
  <2> QED
    BY <1>11, <2>1 DEF Reached
<1>15. NumbersInv'
  BY <1>1, TakenNumbers DEF TakeRoster
<1>16. NoCaptures'
  <2>1. \A i \in 1..Len(lane') : lane'[i].op # "CAPTURED"
    BY <1>1, <1>2, RestOfTheLane DEF NoCaptures
  <2>2. \A p \in Staff : table[p].own = 0
    <3>1. ram.table \in [Staff -> Record] /\ \A p \in Staff : ram.table[p].own = 0
      BY <1>1 DEF RamType, NoCaptures
    <3>2. CASE m.op = "REPLACE_ALL"
      <4>1. table = [x \in Staff |-> [held |-> 0, own |-> ram.table[x].own]]
        BY <1>9, <3>2 DEF Table
      <4> QED
        BY <3>1, <4>1
    <3>3. CASE m.op = "UPSERT" /\ ~crowded
      <4>1. table = [ram.table EXCEPT ![m.who].held = m.face]
        BY <1>9, <3>3 DEF Table
      <4> QED
        BY <1>6, <3>1, <3>3, <4>1 DEF Record
    <3>4. CASE m.op = "DELETE_EMPLOYEE"
      <4>1. table = [ram.table EXCEPT ![m.who] = [held |-> 0, own |-> 0]]
        BY <1>9, <3>4 DEF Table
      <4> QED
        BY <1>6, <3>1, <3>4, <4>1
    <3>5. CASE m.op = "ASSIGN" \/ (m.op = "UPSERT" /\ crowded)
      <4>1. table = ram.table
        BY <1>9, <3>5 DEF Table
      <4> QED
        BY <3>1, <4>1
    <3> QED
      BY <1>6, <3>2, <3>3, <3>4, <3>5
  <2>3. \A p \in Staff : ram'.table[p].own = 0 /\ flash'.table[p].own = 0
    BY <1>1, <1>11, <1>13, <2>2 DEF NoCaptures
  <2> QED
    BY <1>1, <1>2, <2>1, <2>3 DEF NoCaptures
<1>17. /\ Ascending'
       /\ \A r \in 1..Len(lane') : Chain(lane', r, server.number) => Chain(lane, r + 1, server.number)
       /\ \A r \in 1..Len(lane') : lane'[r].op = "REPLACE_ALL" /\ Chain(lane', r, server.number) =>
            \A p \in Staff : /\ EndsRight(lane', r, Placing(p), PlacedAs(HeldFor(p)))
                             /\ EndsRight(lane', r, Asking(p), AskedAs(WaitsFor(p)))
  BY <1>1, <1>2, <1>4, <1>13, <1>14, RestKeeps
<1>18. PICK n \in Nat, top \in Nat, now \in Nat :
         /\ n = Len(lane) /\ top = server.number /\ now = Reached /\ n >= 1
         /\ Len(lane') = n - 1 /\ 1 \in 1..n
         /\ \A k \in 1..n - 1 : lane'[k] = lane[k + 1]
         /\ \A k \in 1..n : lane[k].number \in Nat
         /\ now < m.number
  <2>1. /\ Len(lane) \in Nat /\ Len(lane) >= 1 /\ Reached \in Nat /\ server.number \in Nat
        /\ \A k \in 1..Len(lane) : lane[k].number \in Nat
    BY <1>1, <1>2, RosterFacts, RestOfTheLane, NumbersAre
  <2>2. PICK n \in Nat : n = Len(lane)
    BY <2>1
  <2>3. 1 \in 1..n /\ Len(lane') = n - 1 /\ \A k \in 1..n - 1 : lane'[k] = lane[k + 1]
    BY <1>1, <1>2, <2>1, <2>2, RestOfTheLane
  <2>4. Reached < m.number
    BY <1>1, <1>4, <2>2, <2>3 DEF Ascending
  <2> QED
    BY <2>1, <2>2, <2>3, <2>4
<1>19. Saved'
  <2>1. ram'.gapped = FALSE
    BY <1>5, <1>6, <1>11 DEF Takes
  <2>2. ram'.batch.changed => flash'.held < ram'.batch.held
    <3>1. flash.held <= now /\ flash.held \in Nat
      BY <1>1, <1>18, NumbersAre DEF Ascending
    <3> QED
      BY <1>6, <1>11, <1>13, <1>18, <3>1
  <2>3. ram'.table = flash'.table \/ ram'.batch.changed
    <3>1. CASE m.op = "ASSIGN" \/ crowded
      <4>1. table = ram.table /\ ~ram.gapped
        BY <1>5, <1>7, <1>8, <1>9, <3>1 DEF Table, Takes, TakenAs
      <4>2. ram.table = flash.table \/ batch.changed
        BY <1>1, <1>3, <4>1 DEF Saved
      <4> QED
        BY <1>9, <1>11, <1>13, <4>1, <4>2
    <3>2. CASE m.op # "ASSIGN" /\ ~crowded
      BY <1>9, <1>11, <3>2
    <3> QED
      BY <3>1, <3>2
  <2> QED
    BY <1>11, <1>13, <2>1, <2>2, <2>3 DEF Saved
<1>20. ASSUME Live'
       PROVE  \A p \in Staff : /\ Follows(lane, HoldsNow(p), Placing(p), PlacedAs(HeldFor(p)))
                               /\ Follows(lane, AsksNow(p), Asking(p), AskedAs(WaitsFor(p)))
  <2>1. m.number + (n - 1) = top /\ Chain(lane', 1, top)
    BY <1>2, <1>14, <1>18, <1>20 DEF Live
  <2>2. Chain(lane, 1, top)
    <3>1. ASSUME NEW k \in 1..n PROVE lane[k].number + (n - k) = top
      <4>1. CASE k = 1
        BY <1>4, <2>1, <4>1
      <4>2. CASE k # 1
        <5>1. PICK i \in 1..n - 1 : k = i + 1
          <6>1. k - 1 \in 1..n - 1 /\ k = (k - 1) + 1
            BY <4>2
          <6> QED
            BY <6>1
        <5>2. lane'[i].number + ((n - 1) - i) = top
          BY <1>18, <2>1 DEF Chain
        <5>3. PICK v \in Nat : v = lane[k].number /\ v = lane'[i].number
          BY <1>18, <5>1
        <5>4. v + ((n - 1) - i) = top
          BY <5>2, <5>3
        <5> QED
          BY <5>1, <5>3, <5>4
      <4> QED
        BY <4>1, <4>2
    <3> QED
      BY <1>18, <3>1 DEF Chain
  <2>3. CASE m.op = "REPLACE_ALL"
    <3>1. \A p \in Staff : /\ EndsRight(lane, 1, Placing(p), PlacedAs(HeldFor(p)))
                           /\ EndsRight(lane, 1, Asking(p), AskedAs(WaitsFor(p)))
      BY <1>1, <1>4, <1>18, <2>2, <2>3 DEF Followed
    <3> QED
      BY <3>1 DEF Follows
  <2>4. CASE m.op # "REPLACE_ALL"
    <3>1. ~ram.gapped /\ m.number = now + 1
      BY <1>5, <1>3, <1>18, <2>4 DEF Takes
    <3>2. now + n = top
      BY <2>1, <3>1
    <3>3. Live
      BY <1>18, <2>2, <3>1, <3>2 DEF Live
    <3> QED
      BY <1>1, <3>3 DEF Followed
  <2> QED
    BY <2>3, <2>4
<1>21. ASSUME Live', NEW p \in Staff
       PROVE  /\ Follows(lane', HoldsNow(p)', Placing(p), PlacedAs(HeldFor(p)))
              /\ Follows(lane', AsksNow(p)', Asking(p), AskedAs(WaitsFor(p)))
  <2>1. PICK q \in Seq(Message) : q = lane /\ q # <<>> /\ Head(q) = m /\ Tail(q) = lane'
    BY <1>1, <1>2, <1>4 DEF TypesAre
  <2>2. /\ Follows(q, HoldsNow(p), Placing(p), PlacedAs(HeldFor(p)))
        /\ Follows(q, AsksNow(p), Asking(p), AskedAs(WaitsFor(p)))
    BY <1>20, <1>21, <2>1
  <2>3. /\ m \in Placing(p) /\ m \in PlacedAs(HeldFor(p)) => HoldsNow(p)'
        /\ m \notin Placing(p) /\ HoldsNow(p) => HoldsNow(p)'
    BY <1>2, <1>5, <1>7, <1>8, <1>9, <1>11, TableTaken DEF TakenAs
  <2>4. /\ m \in Asking(p) /\ m \in AskedAs(WaitsFor(p)) => AsksNow(p)'
        /\ m \notin Asking(p) /\ AsksNow(p) => AsksNow(p)'
    BY <1>2, <1>5, <1>7, <1>8, <1>9, <1>11, AsksTaken DEF TakenAs
  <2>5. PICK held, held2, asked, asked2 :
          /\ held = HoldsNow(p) /\ held2 = HoldsNow(p)'
          /\ asked = AsksNow(p) /\ asked2 = AsksNow(p)'
    OBVIOUS
  <2>6. Follows(Tail(q), held2, Placing(p), PlacedAs(HeldFor(p)))
    BY <2>1, <2>2, <2>3, <2>5, FollowsOn
  <2>7. Follows(Tail(q), asked2, Asking(p), AskedAs(WaitsFor(p)))
    BY <2>1, <2>2, <2>4, <2>5, FollowsOn
  <2> QED
    BY <2>1, <2>5, <2>6, <2>7
<1>22. Followed'
  <2>1. \A p \in Staff : /\ Placing(p)' = Placing(p) /\ Asking(p)' = Asking(p)
                         /\ HeldFor(p)' = HeldFor(p) /\ WaitsFor(p)' = WaitsFor(p)
                         /\ PlacedAs(HeldFor(p)') = PlacedAs(HeldFor(p))
                         /\ AskedAs(WaitsFor(p)') = AskedAs(WaitsFor(p))
    BY <1>2 DEF Placing, Asking, HeldFor, WaitsFor
  <2> QED
    BY <1>2, <1>17, <1>21, <2>1 DEF Followed
<1> QED
  BY <1>15, <1>16, <1>17, <1>19, <1>22 DEF RosterInv

(* The invariant outlives every step of a door that captures nothing, saves its pending list
   and is never put back to a backup. *)
LEMMA NextKeepsRoster ==
  ASSUME ~Captures, ~PendingFails, ~Restores, RosterInv, [RosterNext]_rosterVars
  PROVE  RosterInv'
<1>1. TypesAre /\ NoCaptures /\ server \in Rowset /\ beats \in Seq(Beat)
  BY RosterFacts DEF TypesAre
<1>2. TypesAre'
  <2>1. RosterTypeOK
    BY <1>1, TypesAreTypes
  <2>2. RosterTypeOK'
    BY <2>1, NextKeepsTypes
  <2>3. RosterTypeOK' <=> TypesAre'
    BY DEF RosterTypeOK, TypesAre, Rowset, Beat, Sample, RamType, FlashType, FateType
  <2> QED
    BY <2>2, <2>3
<1>3. CASE UNCHANGED rosterVars
  BY <1>2, <1>3, QuietKeeps DEF rosterVars
<1>4. CASE Dashboard
  BY <1>2, <1>4, OrdersKeep
<1>5. CASE ResyncByHand
  <2>1. Replay(0) /\ UNCHANGED <<ram, flash, capturing, reporting, reports>> /\ 0 \in Nat
    BY <1>5 DEF ResyncByHand, kiosk
  <2> QED
    BY <1>2, <2>1, ReplayKeeps
<1>6. CASE Converge
  <2>1. beats # <<>> /\ UNCHANGED <<ram, flash, capturing, reporting, reports>>
    BY <1>6 DEF Converge, kiosk
  <2>2. PICK n \in Nat : n = Head(beats).number
    <3>1. Head(beats) \in Beat
      BY <1>1, <2>1
    <3> QED
      BY <3>1 DEF Beat
  <2>3. \/ /\ server' \in {server, [server EXCEPT !.run = NoRun], [server EXCEPT !.run.heard = n]}
           /\ UNCHANGED lane
        \/ Replay(n)
    BY <1>6, <2>2 DEF Converge
  <2>4. CASE /\ server' \in {server, [server EXCEPT !.run = NoRun], [server EXCEPT !.run.heard = n]}
             /\ UNCHANGED lane
    <3>1. server'.number = server.number /\ server'.pair = server.pair /\ server'.face = server.face
      BY <1>1, <2>4 DEF Rowset
    <3> QED
      BY <1>2, <2>1, <2>4, <3>1, QuietKeeps
  <2>5. CASE Replay(n)
    BY <1>2, <2>1, <2>5, ReplayKeeps
  <2> QED
    BY <2>3, <2>4, <2>5
<1>7. CASE ApiRestart
  <2>1. /\ UNCHANGED <<lane, ram, flash, capturing, reporting, reports>>
        /\ server' = [server EXCEPT !.run = NoRun]
    BY <1>7 DEF ApiRestart, kiosk
  <2>2. server'.number = server.number /\ server'.pair = server.pair /\ server'.face = server.face
    BY <1>1, <2>1 DEF Rowset
  <2> QED
    BY <1>2, <2>1, <2>2, QuietKeeps
<1>8. CASE Heartbeat \/ LoseBeat
  <2>1. UNCHANGED <<server, lane, ram, flash, capturing, reporting, reports>>
    BY <1>8 DEF Heartbeat, LoseBeat, kiosk
  <2> QED
    BY <1>2, <2>1, QuietKeeps
<1>9. CASE TakeRoster
  <2>1. ~TakeCaptured
    <3>1. ASSUME TakeCaptured PROVE FALSE
      <4>1. lane # <<>> /\ Head(lane).op = "CAPTURED"
        BY <3>1 DEF TakeCaptured, CanTake
      <4>2. Head(lane) = lane[1] /\ 1 \in 1..Len(lane)
        BY <1>1, <4>1, RestOfTheLane, NumbersAre
      <4> QED
        BY <1>1, <4>1, <4>2 DEF NoCaptures
    <3> QED
      BY <3>1
  <2> QED
    BY <1>2, <1>9, <2>1, TakenKeeps, GappedKeeps DEF TakeRoster
<1>10. CASE EndBatch
  BY <1>2, <1>10, BatchEnds
<1>11. CASE StoreNumber
  BY <1>2, <1>11, NumberIsStored
<1>12. CASE PowerCut
  BY <1>2, <1>12, PowerCutKeeps
<1>13. ~TakeReport /\ ~BackUp /\ ~Restore
  BY <1>1 DEF TakeReport, BackUp, Restore, NoCaptures
<1>14. ~LeaveSession /\ ~SealSession /\ ~Acked /\ ~NotAcked
  BY <1>1 DEF LeaveSession, SealSession, Acked, NotAcked, NoCaptures
<1>15. ~ \E p \in Staff : OpenSession(p) \/ Report(p)
  BY <1>1 DEF OpenSession, Report, NoCaptures
<1> QED
  BY <1>3, <1>4, <1>5, <1>6, <1>7, <1>8, <1>9, <1>10, <1>11, <1>12, <1>13, <1>14, <1>15
     DEF RosterNext

(* A door nobody is enrolled at. *)
LEMMA RosterBegins == RosterInit => RosterInv
<1> SUFFICES ASSUME RosterInit PROVE RosterInv
  OBVIOUS
<1>1. TypesAre
  BY TypesInit, TypesAreTypes
<1>2. /\ lane = <<>> /\ Len(lane) = 0
      /\ server.number = 0 /\ flash.held = 0 /\ ram.batch = NoBatch /\ ram.gapped = FALSE
      /\ ram.table = flash.table /\ ram.asks = {} /\ flash.asks = {}
      /\ capturing = 0 /\ reporting = NoReport /\ reports = <<>>
  BY DEF RosterInit
<1>3. ASSUME NEW p \in Staff
      PROVE  /\ ram.table[p].own = 0 /\ ram.table[p].held = 0 /\ flash.table[p].own = 0
             /\ server.pair[p] = "NONE"
  BY DEF RosterInit
<1>4. Reached = 0
  BY <1>2 DEF Reached, Batch
<1>5. NumbersInv /\ NoCaptures /\ Ascending /\ Saved
  BY <1>2, <1>3, <1>4 DEF NumbersInv, NoCaptures, Ascending, Saved, NoBatch
<1>6. ASSUME NEW p \in Staff PROVE HoldsNow(p) /\ AsksNow(p)
  BY <1>2, <1>3 DEF HoldsNow, AsksNow, HeldFor, WaitsFor, Active, Waiting
<1>7. \A W, R : StaysRight(lane, 1, W, R)
  BY <1>2 DEF StaysRight
<1>8. Followed
  BY <1>2, <1>6, <1>7 DEF Followed, Follows
<1> QED
  BY <1>1, <1>5, <1>8 DEF RosterInv

(* Once nothing is on its way, equal numbers leave no room for a difference. *)
LEMMA EqualWhenSettled == RosterInv => EqualNumbersEqualRosters
<1> SUFFICES ASSUME RosterInv, Settled, flash.held = server.number, NEW p \in Staff
             PROVE  Agrees(p)
  BY DEF EqualNumbersEqualRosters
<1>1. Saved /\ Followed /\ server.number \in Nat
  BY RosterFacts
<1>2. lane = <<>> /\ Len(lane) = 0 /\ ram.batch = NoBatch
  BY DEF Settled, AtRest
<1>3. Reached = server.number /\ ~ram.gapped
  BY <1>1, <1>2 DEF Reached, Batch, Saved
<1>4. Live
  BY <1>1, <1>2, <1>3 DEF Live, Chain
<1>5. HoldsNow(p) /\ AsksNow(p)
  <2>1. \A W, R : ~EndsRight(lane, 1, W, R)
    BY <1>2 DEF EndsRight
  <2> QED
    BY <1>1, <1>4, <2>1 DEF Followed, Follows
<1> QED
  BY <1>5 DEF Agrees, HoldsNow, AsksNow, HeldFor, WaitsFor

(* converge: once nothing is on its way and nothing half done, a kiosk that names the server's
   number holds the server's people and asks for those it waits for, whatever messages were
   lost, writes failed, batches broke off and power went on the way there; at a door that
   captures nothing of its own, that saves its pending list, and whose server is not put
   back to a backup. *)
THEOREM EqualRosters ==
  ASSUME ~Captures, ~PendingFails, ~Restores
  PROVE  RosterSpec => []EqualNumbersEqualRosters
<1>1. RosterInv /\ [RosterNext]_rosterVars => RosterInv'
  BY NextKeepsRoster
<1> QED
  BY <1>1, RosterBegins, EqualWhenSettled, PTL DEF RosterSpec
=============================================================================
