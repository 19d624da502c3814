-------------------------- MODULE AttendLog_proofs --------------------------
(* Proofs about AttendLog, for any number of files, records, punches and boots *)
(* and for every fault it models.                                              *)
EXTENDS AttendLog, SequenceTheorems, TLAPS

USE SizesAssumption, FaultsAssumption

(* replace_locked keeps a register a register, whichever way it ends. *)
LEMMA CountOutcomes ==
  ASSUME NEW r \in Registers(Nat), NEW v \in Nat
  PROVE  /\ Finished(v) \in Registers(Nat)
         /\ Failed(r, 0) \subseteq Registers(Nat)
         /\ Cut(r, v, 0) \subseteq Registers(Nat)
  BY DEF Registers, Places, Finished, Failed, Cut, NoFile

(* A cursor that is replaced reads as the new one, the old one or the start of the log. *)
LEMMA CursorOutcomes ==
  ASSUME NEW r \in Registers(Cursor), NEW v \in Cursor
  PROVE  /\ Finished(v) \in Registers(Cursor) /\ Finished(v).val = v
         /\ Failed(r, Start) \subseteq Registers(Cursor)
         /\ Cut(r, v, Start) \subseteq Registers(Cursor)
         /\ \A s \in Failed(r, Start) : s.val \in {r.val, Start}
         /\ \A s \in Cut(r, v, Start) : s = Finished(v) \/ s.val \in {r.val, Start}
<1>1. Start \in Cursor
  BY DEF Start, Cursor, FileIds
<1> QED
  BY <1>1 DEF Registers, Places, Finished, Failed, Cut, NoFile

(* Dropping files below the cursor leaves the others as they are. *)
LEMMA DropTypes ==
  ASSUME TypeOK, NEW below
  PROVE  /\ files \ Synced(below) \subseteq FileIds
         /\ [f \in FileIds |-> IF f \in Synced(below) THEN <<>> ELSE cells[f]]
              \in [FileIds -> Seq(Cell)]
         /\ [f \in FileIds |-> f \notin Synced(below) /\ tail[f]] \in [FileIds -> BOOLEAN]
<1>1. \A f \in FileIds : (IF f \in Synced(below) THEN <<>> ELSE cells[f]) \in Seq(Cell)
  BY DEF TypeOK
<1>2. \A f \in FileIds : (f \notin Synced(below) /\ tail[f]) \in BOOLEAN
  BY Zenon
<1> QED
  BY <1>1, <1>2 DEF TypeOK

(* The flash of a kiosk out of the box, and of one erased at the bench. *)
LEMMA BlankTypes ==
  /\ 0 \in FileIds /\ Start \in Cursor /\ NoMessage \in Message
  /\ NoFile(Start) \in Registers(Cursor) /\ NoFile(0) \in Registers(Nat)
  /\ [f \in FileIds |-> <<>>] \in [FileIds -> Seq(Cell)]
  /\ [f \in FileIds |-> FALSE] \in [FileIds -> BOOLEAN]
<1>1. 0 \in FileIds
  BY DEF FileIds
<1>2. Start \in Cursor /\ NoMessage \in Message
  BY <1>1 DEF Start, Cursor, NoMessage, Message
<1>3. NoFile(Start) \in Registers(Cursor) /\ NoFile(0) \in Registers(Nat)
  BY <1>2 DEF NoFile, Registers, Places
<1>4. <<>> \in Seq(Cell)
  OBVIOUS
<1> QED
  BY <1>1, <1>2, <1>3, <1>4

(* A kiosk out of the box is well typed. *)
LEMMA TypeInit == Init => TypeOK
  BY BlankTypes DEF Init, TypeOK, Start, NoMessage

(* What sys_storage_init reads from the log are counts. *)
LEMMA LoggedBootsAreNat == ASSUME TypeOK PROVE LoggedBoots \subseteq Nat
<1> SUFFICES ASSUME NEW f \in files, cells[f] # <<>>
             PROVE  cells[f][Len(cells[f])].boot \in Nat
  BY DEF LoggedBoots
<1>1. cells[f] \in Seq(Cell)
  BY DEF TypeOK
<1>2. Len(cells[f]) \in 1..Len(cells[f])
  BY <1>1
<1>3. cells[f][Len(cells[f])] \in Cell
  BY <1>1, <1>2
<1> QED
  BY <1>3 DEF Cell

(* No step of kiosk, broker or backend leaves the types. *)
LEMMA TypeNext == TypeOK /\ [Next]_vars => TypeOK'
<1> SUFFICES ASSUME TypeOK, [Next]_vars PROVE TypeOK'
  OBVIOUS
<1> USE DEF TypeOK
<1>s. Start \in Cursor /\ NoMessage \in Message
  BY BlankTypes
<1>1. CASE AppendRecord
  <2>1. PICK stuck \in SUBSET {g \in files : tail[g]}, f \in FileIds :
          /\ files' = files \cup {f} /\ logIndex' = f
          /\ cells' = [cells EXCEPT ![f] = Append(@,
               [boot |-> boot, seq |-> seq', punch |-> punches', whole |-> ~TailLeft(f)])]
          /\ tail' = [tail EXCEPT ![f] = TailLeft(f)]
    BY <1>1 DEF AppendRecord
  <2>2. punches' \in Nat /\ seq' \in Nat /\ promised' \subseteq Nat
    BY <1>1 DEF AppendRecord, Punching
  <2>3. [boot |-> boot, seq |-> seq', punch |-> punches', whole |-> ~TailLeft(f)] \in Cell
    BY <2>2 DEF Cell, TailLeft
  <2>4. cells' \in [FileIds -> Seq(Cell)]
    BY <2>1, <2>3
  <2>5. tail' \in [FileIds -> BOOLEAN]
    BY <2>1 DEF TailLeft
  <2> QED
    BY <1>1, <2>1, <2>2, <2>4, <2>5 DEF AppendRecord, backend
<1>2. CASE AppendFails
  <2>1. /\ files' \subseteq FileIds /\ tail' \in [FileIds -> BOOLEAN] /\ logIndex' \in FileIds
    BY <1>2 DEF AppendFails
  <2> QED
    BY <1>2, <2>1 DEF AppendFails, Punching, backend
<1>3. CASE ReadNext
  <2>1. PICK f \in FileIds, i \in 1..FileCap :
          /\ IsNext(f, i, cursor.val)
          /\ next' = [file |-> f, rec |-> i]
          /\ holding' = [boot |-> cells[f][i].boot, seq |-> cells[f][i].seq,
                         punch |-> cells[f][i].punch]
    BY <1>3 DEF ReadNext
  <2>2. cells[f][i] \in Cell
    BY <2>1 DEF IsNext, IsRecord
  <2>3. next' \in Cursor /\ holding' \in Message
    BY <2>1, <2>2 DEF Cursor, Message, Cell
  <2> QED
    BY <1>3, <2>3 DEF ReadNext, flash, backend, ghosts
<1>4. CASE Send
  BY <1>4 DEF Send, flash, backend, ghosts
<1>5. CASE Acked
  BY <1>5 DEF Acked, flash, backend, ghosts
<1>6. CASE GiveUp
  BY <1>6, <1>s DEF GiveUp, Return, flash, backend, ghosts
<1>7. CASE MoveCursor
  <2>1. cursor' \in Registers(Cursor)
    BY <1>7, CursorOutcomes DEF MoveCursor
  <2>2. /\ files' \subseteq FileIds /\ cells' \in [FileIds -> Seq(Cell)]
        /\ tail' \in [FileIds -> BOOLEAN] /\ dropped' \in Nat
    <3>1. next.file \in Nat
      BY DEF Cursor, FileIds
    <3>2. CASE UNCHANGED <<files, cells, tail, dropped>>
      BY <3>2
    <3>3. CASE /\ files' = files \ Synced(next.file)
               /\ cells' = [f \in FileIds |-> IF f \in Synced(next.file) THEN <<>> ELSE cells[f]]
               /\ tail' = [f \in FileIds |-> f \notin Synced(next.file) /\ tail[f]]
               /\ dropped' = IF next.file > dropped THEN next.file ELSE dropped
      <4>1. files' \subseteq FileIds
        BY <3>3, DropTypes
      <4>2. cells' \in [FileIds -> Seq(Cell)]
        BY <3>3, DropTypes
      <4>3. tail' \in [FileIds -> BOOLEAN]
        BY <3>3, DropTypes
      <4>4. dropped' \in Nat
        BY <3>1, <3>3
      <4> QED
        BY <4>1, <4>2, <4>3, <4>4
    <3> QED
      BY <1>7, <3>2, <3>3 DEF MoveCursor
  <2> QED
    BY <1>7, <1>s, <2>1, <2>2 DEF MoveCursor, Return, backend, ghosts
<1>8. CASE Accept
  BY <1>8 DEF Accept, BrokerTakes, flash, ram, backend, ghosts
<1>9. CASE Handle
  BY <1>9 DEF Handle, Settle, Stored, flash, ram, ghosts
<1>10. CASE Collect
  <2>1. PICK highest \in HighestBoot : LiftBootCount(highest) /\ holes' \subseteq Holes
    BY <1>10 DEF Collect, Holes
  <2>2. highest \in Nat
    BY DEF HighestBoot, Highest, Message
  <2>3. boot' \in Nat /\ nvsBoot' \in Nat /\ bootBin' \in Registers(Nat)
    BY <2>1, <2>2, CountOutcomes DEF LiftBootCount
  <2> QED
    BY <1>10, <2>1, <2>3 DEF Collect, backend
<1>11. CASE BootCounts
  <2>1. PICK lost \in {FALSE, NvsMayFail} :
          /\ \E last \in Highest({IF lost THEN 0 ELSE nvsBoot, bootBin.val} \cup LoggedBoots) :
               boot' = last + 1
          /\ ticket' = (ticket /\ ~lost)
          /\ holes' = holes \cup (IF lost /\ bootBin.at = "none" THEN {"copies"} ELSE {})
    BY <1>11 DEF BootCounts
  <2>2. LoggedBoots \subseteq Nat
    BY LoggedBootsAreNat
  <2>3. boot' \in Nat
    BY <2>1, <2>2 DEF Highest, Registers
  <2>4. logIndex' \in FileIds
    BY <1>11 DEF BootCounts, Newest
  <2>5. ticket' \in BOOLEAN /\ holes' \subseteq Holes
    BY <2>1 DEF Holes
  <2> QED
    BY <1>11, <2>3, <2>4, <2>5 DEF BootCounts, backend
<1>12. CASE BootFiles
  <2>1. bootBin' \in Registers(Nat)
    BY <1>12, CountOutcomes DEF BootFiles
  <2> QED
    BY <1>12, <2>1 DEF BootFiles, backend
<1>13. CASE PowerCut
  <2>1. nvsBoot' \in Nat /\ bootBin' \in Registers(Nat)
    <3>1. HighestBoot \subseteq Nat
      BY DEF HighestBoot, Highest, Message
    <3> QED
      BY <1>13, <3>1, CountOutcomes DEF PowerCut
  <2>2. cursor' \in Registers(Cursor)
    BY <1>13, CursorOutcomes DEF PowerCut
  <2>3. /\ files' \subseteq FileIds /\ cells' \in [FileIds -> Seq(Cell)]
        /\ tail' \in [FileIds -> BOOLEAN]
    BY <1>13, DropTypes DEF PowerCut
  <2>4. 0 \in FileIds
    BY DEF FileIds
  <2> QED
    BY <1>13, <1>s, <2>1, <2>2, <2>3, <2>4 DEF PowerCut, Return, backend, ghosts
<1>14. CASE Rot
  <2>1. PICK f \in files, i \in 1..FileCap :
          /\ IsRecord(f, i)
          /\ cells' = [cells EXCEPT ![f] = [cells[f] EXCEPT ![i] = Spoilt(cells[f][i])]]
          /\ rotted' = rotted \cup {cells[f][i].punch}
    BY <1>14 DEF Rot
  <2>2. /\ f \in FileIds /\ cells[f] \in Seq(Cell)
        /\ i \in 1..Len(cells[f]) /\ cells[f][i] \in Cell
    BY <2>1 DEF IsRecord
  <2>3. Spoilt(cells[f][i]) \in Cell
    BY <2>2 DEF Cell, Spoilt
  <2>5. [cells[f] EXCEPT ![i] = Spoilt(cells[f][i])] \in Seq(Cell)
    BY <2>2, <2>3, ExceptSeq
  <2>6. cells' \in [FileIds -> Seq(Cell)]
    BY <2>1, <2>2, <2>5
  <2>7. rotted' \subseteq Nat
    BY <2>1, <2>2 DEF Cell
  <2> QED
    BY <1>14, <2>6, <2>7 DEF Rot, ram, backend
<1>15. CASE EraseFlash
  <2>1. /\ cursor' \in Registers(Cursor) /\ bootBin' \in Registers(Nat)
        /\ cells' \in [FileIds -> Seq(Cell)] /\ tail' \in [FileIds -> BOOLEAN]
    BY <1>15, <1>s DEF EraseFlash, NoFile, Registers, Places
  <2> QED
    BY <1>15, <2>1 DEF EraseFlash, ram, backend
<1>16. CASE UNCHANGED vars
  BY <1>16 DEF vars, flash, ram, backend, ghosts
<1> QED
  BY <1>1, <1>2, <1>3, <1>4, <1>5, <1>6, <1>7, <1>8, <1>9, <1>10, <1>11, <1>12,
     <1>13, <1>14, <1>15, <1>16 DEF Next

(* Every reachable state is one TypeOK describes. *)
THEOREM TypeCorrect == Spec => []TypeOK
<1> QED
  BY TypeInit, TypeNext, PTL DEF Spec
-----------------------------------------------------------------------------
(* NothingLost is not inductive: it says where a punch is, and not that the    *)
(* cursor only ever passes records the broker has.  The strengthening does.    *)
Delivered == {m.punch : m \in accepted}

(* The files in use reach up to logIndex, and both cursors stand on a record. *)
LogInPlace ==
  /\ power # "on" => pc = "idle"
  /\ power # "off" => \A g \in files : g <= logIndex
  /\ \A g \in FileIds : Len(cells[g]) > 0 => g \in files
  /\ cursor.val # Start =>
       cursor.val.file \in files /\ cursor.val.rec <= Len(cells[cursor.val.file])
  /\ pc # "idle" => next.file \in files /\ next.rec <= Len(cells[next.file])

(* No whole record behind the cursor is missing at the broker. *)
BehindTheCursor ==
  \A f \in FileIds : \A i \in 1..Len(cells[f]) :
    IsRecord(f, i) /\ ~Ahead(f, i, cursor.val) => cells[f][i].punch \in Delivered

(* Nor behind the cursor the drain is about to write, but the one it holds. *)
BehindTheNext ==
  pc # "idle" =>
    \A f \in FileIds : \A i \in 1..Len(cells[f]) :
      IsRecord(f, i) /\ ~Ahead(f, i, next) =>
        cells[f][i].punch \in Delivered \cup {holding.punch}

Acknowledged == pc = "acked" => holding \in accepted

(* A promised punch the broker does not have is whole in some file. *)
Written ==
  \A p \in promised \ rotted :
    p \notin Delivered =>
      \E f \in FileIds : \E i \in 1..Len(cells[f]) : IsRecord(f, i) /\ cells[f][i].punch = p

IInv == LogInPlace /\ BehindTheCursor /\ BehindTheNext /\ Acknowledged /\ Written

(* A step that leaves the log, the cursors and the promises alone. *)
LEMMA SameLog ==
  ASSUME IInv, UNCHANGED <<files, cells, cursor, promised, rotted>>,
         accepted \subseteq accepted',
         pc' # "idle" => pc # "idle" /\ UNCHANGED <<next, holding>>,
         power' # "on" => pc' = "idle",
         power' # "off" => \A g \in files : g <= logIndex',
         Acknowledged'
  PROVE  IInv'
<1>1. Delivered \subseteq Delivered'
  BY DEF Delivered
<1>2. \A f \in FileIds : \A i \in 1..Len(cells[f]) :
        /\ IsRecord(f, i)' <=> IsRecord(f, i)
        /\ Ahead(f, i, cursor.val)' <=> Ahead(f, i, cursor.val)
        /\ pc' # "idle" => (Ahead(f, i, next)' <=> Ahead(f, i, next))
  BY DEF IsRecord, Ahead
<1>3. LogInPlace'
  BY DEF IInv, LogInPlace
<1>4. BehindTheCursor'
  BY <1>1, <1>2 DEF IInv, BehindTheCursor
<1>5. BehindTheNext'
  BY <1>1, <1>2 DEF IInv, BehindTheNext
<1>6. Written'
  BY <1>1, <1>2 DEF IInv, Written
<1> QED
  BY <1>3, <1>4, <1>5, <1>6 DEF IInv

(* The file the next record goes into holds nothing behind either cursor that  *)
(* is not there already: what is appended to it is ahead of both.              *)
LEMMA AppendIsAhead ==
  ASSUME TypeOK, LogInPlace, power = "on",
         NEW stuck, NEW f \in FileIds, ActiveLog(f, stuck),
         NEW i \in Nat, i > Len(cells[f])
  PROVE  Ahead(f, i, cursor.val) /\ (pc # "idle" => Ahead(f, i, next))
<1>1. f >= logIndex
  BY DEF ActiveLog
<1>2. Len(cells[f]) \in Nat /\ logIndex \in Int /\ f \in Int
  BY DEF TypeOK, FileIds
<1>3. cursor.val \in Cursor /\ next \in Cursor
  BY DEF TypeOK, Registers
<1>4. ASSUME NEW c \in Cursor, c.file \in files /\ c.rec <= Len(cells[c.file])
      PROVE  Ahead(f, i, c)
  <2>1. c.file <= logIndex /\ c.file \in Int /\ c.rec \in Nat
    BY <1>4 DEF LogInPlace, Cursor, FileIds
  <2> QED
    BY <1>1, <1>2, <1>4, <2>1 DEF Ahead
<1>5. Ahead(f, i, Start)
  BY <1>2 DEF Ahead, Start, FileIds
<1> QED
  BY <1>3, <1>4, <1>5 DEF LogInPlace

(* A record goes behind all others, past any torn tail, and no cursor moves. *)
LEMMA AppendRecordKeeps == ASSUME TypeOK, IInv, AppendRecord PROVE IInv'
<1>1. PICK stuck \in SUBSET {g \in files : tail[g]}, f \in FileIds :
        /\ ActiveLog(f, stuck)
        /\ files' = files \cup {f} /\ logIndex' = f
        /\ cells' = [cells EXCEPT ![f] = Append(@,
             [boot |-> boot, seq |-> seq', punch |-> punches', whole |-> ~TailLeft(f)])]
  BY DEF AppendRecord
<1> DEFINE new == [boot |-> boot, seq |-> seq', punch |-> punches', whole |-> TRUE]
<1>2. /\ power = "on" /\ punches' \in Nat /\ seq' \in Nat
      /\ promised' \in {promised, promised \cup {punches'}}
      /\ UNCHANGED <<cursor, next, holding, pc, power, accepted, rotted>>
  BY DEF AppendRecord, Punching, TypeOK
<1>3. /\ cells' = [cells EXCEPT ![f] = Append(cells[f], new)]
      /\ \A g \in FileIds : cells[g] \in Seq(Cell)
      /\ new \in Cell
  BY <1>1, <1>2 DEF TailLeft, TypeOK, Cell
<1> HIDE DEF new
<1>4. /\ Len(cells'[f]) = Len(cells[f]) + 1 /\ cells'[f][Len(cells[f]) + 1] = new
      /\ \A i \in 1..Len(cells[f]) : cells'[f][i] = cells[f][i]
      /\ \A g \in FileIds : g # f => cells'[g] = cells[g]
  BY <1>3 DEF TypeOK
<1>5. Delivered' = Delivered
  BY <1>2 DEF Delivered
<1>6. Len(cells[f]) \in Nat /\ Len(cells[f]) + 1 > Len(cells[f])
  BY <1>3
<1>7. /\ Ahead(f, Len(cells[f]) + 1, cursor.val)
      /\ pc # "idle" => Ahead(f, Len(cells[f]) + 1, next)
  BY <1>1, <1>2, <1>6, AppendIsAhead DEF IInv
<1>8. \A g \in FileIds : \A i \in 1..Len(cells'[g]) :
        \/ g = f /\ i = Len(cells[f]) + 1
        \/ /\ i \in 1..Len(cells[g]) /\ cells'[g][i] = cells[g][i]
           /\ IsRecord(g, i)' => IsRecord(g, i)
  <2> SUFFICES ASSUME NEW g \in FileIds, NEW i \in 1..Len(cells'[g]),
                      ~(g = f /\ i = Len(cells[f]) + 1)
               PROVE  /\ i \in 1..Len(cells[g]) /\ cells'[g][i] = cells[g][i]
                      /\ IsRecord(g, i)' => IsRecord(g, i)
    OBVIOUS
  <2>1. i \in 1..Len(cells[g]) /\ cells'[g][i] = cells[g][i]
    BY <1>4, <1>6
  <2>2. g \in files
    BY <2>1, <1>3 DEF IInv, LogInPlace
  <2> QED
    BY <2>1, <2>2 DEF IsRecord
<1>9. LogInPlace'
  <2>1. \A g \in files' : g <= logIndex'
    <3>1. \A g \in files : g <= logIndex
      BY <1>2 DEF IInv, LogInPlace
    <3>2. f >= logIndex
      BY <1>1 DEF ActiveLog
    <3> QED
      BY <1>1, <3>1, <3>2 DEF TypeOK, FileIds
  <2>2. \A g \in FileIds : Len(cells'[g]) > 0 => g \in files'
    BY <1>1, <1>4 DEF IInv, LogInPlace
  <2>3. \A g \in FileIds : Len(cells[g]) <= Len(cells'[g])
    BY <1>3, <1>4, <1>6
  <2>4. \A c \in Cursor : c.file \in files /\ c.rec <= Len(cells[c.file]) =>
          c.file \in files' /\ c.rec <= Len(cells'[c.file])
    <3> SUFFICES ASSUME NEW c \in Cursor, c.file \in files, c.rec <= Len(cells[c.file])
                 PROVE  c.file \in files' /\ c.rec <= Len(cells'[c.file])
      OBVIOUS
    <3>1. c.rec \in Nat /\ c.file \in FileIds
      BY DEF Cursor
    <3>2. Len(cells[c.file]) \in Nat /\ Len(cells'[c.file]) \in Nat
      BY <1>3, <1>4, <3>1
    <3> QED
      BY <1>1, <2>3, <3>1, <3>2
  <2>5. cursor.val \in Cursor /\ next \in Cursor
    BY DEF TypeOK, Registers
  <2> QED
    BY <1>2, <2>1, <2>2, <2>4, <2>5 DEF IInv, LogInPlace
<1>10. BehindTheCursor'
  BY <1>2, <1>5, <1>7, <1>8 DEF IInv, BehindTheCursor, Ahead
<1>11. BehindTheNext'
  BY <1>2, <1>5, <1>7, <1>8 DEF IInv, BehindTheNext, Ahead
<1>12. Written'
  <2> SUFFICES ASSUME NEW p \in promised' \ rotted', p \notin Delivered'
               PROVE  \E g \in FileIds : \E i \in 1..Len(cells'[g]) :
                        IsRecord(g, i)' /\ cells'[g][i].punch = p
    BY DEF Written
  <2>1. CASE p = punches'
    <3>1. Len(cells[f]) + 1 \in 1..Len(cells'[f])
      BY <1>4, <1>6
    <3>2. new.whole /\ new.punch = punches'
      BY DEF new
    <3> QED
      BY <1>1, <1>4, <2>1, <3>1, <3>2 DEF IsRecord
  <2>2. CASE p \in promised
    <3>0. PICK g \in FileIds :
            \E i \in 1..Len(cells[g]) : IsRecord(g, i) /\ cells[g][i].punch = p
      BY <1>2, <1>5, <2>2 DEF IInv, Written
    <3>1. PICK i \in 1..Len(cells[g]) : IsRecord(g, i) /\ cells[g][i].punch = p
      BY <3>0
    <3>2. i \in 1..Len(cells'[g]) /\ cells'[g][i] = cells[g][i]
      BY <1>4, <1>6
    <3> QED
      BY <1>1, <3>1, <3>2 DEF IsRecord
  <2> QED
    BY <1>2, <2>1, <2>2
<1> QED
  BY <1>2, <1>9, <1>10, <1>11, <1>12 DEF IInv, Acknowledged

(* A failed append leaves every whole record where it was. *)
LEMMA AppendFailsKeeps == ASSUME TypeOK, IInv, AppendFails PROVE IInv'
<1>1. /\ UNCHANGED <<cells, cursor, next, holding, pc, power, accepted, promised, rotted>>
      /\ power = "on"
  BY DEF AppendFails, Punching
<1>2. files \subseteq files' /\ \A g \in files' : g <= logIndex'
  <2>1. \A g \in files : g \in Nat /\ g <= logIndex
    BY <1>1 DEF IInv, LogInPlace, TypeOK, FileIds
  <2>2. CASE UNCHANGED <<files, logIndex>>
    BY <2>1, <2>2
  <2>3. CASE \E stuck \in SUBSET {g \in files : tail[g]}, f \in FileIds :
               ActiveLog(f, stuck) /\ files' = files \cup {f} /\ logIndex' = f
    <3>1. PICK f \in FileIds : f >= logIndex /\ files' = files \cup {f} /\ logIndex' = f
      BY <2>3 DEF ActiveLog
    <3> QED
      BY <2>1, <3>1 DEF TypeOK, FileIds
  <2> QED
    BY <2>2, <2>3 DEF AppendFails
<1>3. \A f \in FileIds : \A i \in 1..Len(cells[f]) : IsRecord(f, i)' <=> IsRecord(f, i)
  <2> SUFFICES ASSUME NEW f \in FileIds, NEW i \in 1..Len(cells[f])
               PROVE  IsRecord(f, i)' <=> IsRecord(f, i)
    OBVIOUS
  <2>1. f \in files /\ f \in files'
    BY <1>2 DEF IInv, LogInPlace, TypeOK
  <2> QED
    BY <1>1, <2>1 DEF IsRecord
<1>4. LogInPlace'
  BY <1>1, <1>2 DEF IInv, LogInPlace
<1>5. BehindTheCursor' /\ BehindTheNext'
  BY <1>1, <1>3 DEF IInv, BehindTheCursor, BehindTheNext, Ahead, Delivered
<1>6. Written'
  BY <1>1, <1>3 DEF IInv, Written, Delivered
<1> QED
  BY <1>1, <1>4, <1>5, <1>6 DEF IInv, Acknowledged

(* The drain takes the first whole record past the cursor, so what lies behind *)
(* the cursor it will write lay behind the old one, or is the record it holds. *)
LEMMA ReadNextKeeps == ASSUME TypeOK, IInv, ReadNext PROVE IInv'
<1>1. PICK f \in FileIds, i \in 1..FileCap :
        /\ IsNext(f, i, cursor.val)
        /\ next' = [file |-> f, rec |-> i]
        /\ holding'.punch = cells[f][i].punch
  BY DEF ReadNext
<1>2. /\ UNCHANGED <<files, cells, cursor, power, logIndex, accepted, promised, rotted>>
      /\ power = "on" /\ pc' = "read"
  BY DEF ReadNext, flash, ghosts
<1>3. \A g \in FileIds : \A j \in 1..Len(cells[g]) :
        /\ IsRecord(g, j)' <=> IsRecord(g, j)
        /\ Ahead(g, j, cursor.val)' <=> Ahead(g, j, cursor.val)
  BY <1>2 DEF IsRecord, Ahead
<1>4. f \in files /\ i <= Len(cells[f])
  BY <1>1 DEF IsNext, IsRecord, TypeOK
<1>5. LogInPlace'
  BY <1>1, <1>2, <1>4 DEF IInv, LogInPlace
<1>6. ASSUME NEW g \in FileIds, NEW j \in 1..Len(cells[g]),
             IsRecord(g, j), ~Ahead(g, j, next')
      PROVE  cells[g][j].punch \in Delivered \cup {holding'.punch}
  <2>1. CASE Ahead(g, j, cursor.val)
    <3>1. g > f \/ (g = f /\ j >= i)
      BY <1>1, <1>6, <2>1 DEF IsNext
    <3>2. g = f /\ j = i
      BY <1>1, <1>6, <3>1 DEF Ahead, FileIds
    <3> QED
      BY <1>1, <3>2
  <2>2. CASE ~Ahead(g, j, cursor.val)
    BY <1>6, <2>2 DEF IInv, BehindTheCursor
  <2> QED
    BY <2>1, <2>2
<1>7. BehindTheCursor' /\ Written'
  BY <1>2, <1>3 DEF IInv, BehindTheCursor, Written, Delivered
<1>8. BehindTheNext'
  BY <1>2, <1>3, <1>6 DEF BehindTheNext, Delivered, Ahead
<1> QED
  BY <1>2, <1>5, <1>7, <1>8 DEF IInv, Acknowledged

(* A cursor write, however it ends, and the files that go with it.  What goes  *)
(* lies below the record that was acknowledged.                                *)
LEMMA CursorWriteKeeps ==
  ASSUME TypeOK, IInv, NEW below \in Nat,
         \/ below = 0 /\ cursor'.val \in {cursor.val, Start}
         \/ pc = "acked" /\ cursor'.val = next /\ below <= next.file,
         files' = files \ Synced(below),
         cells' = [f \in FileIds |-> IF f \in Synced(below) THEN <<>> ELSE cells[f]],
         pc' = "idle",
         UNCHANGED <<accepted, promised, rotted>>,
         power' # "off" => power # "off" /\ UNCHANGED logIndex
  PROVE  IInv'
<1>1. /\ next.file \in FileIds /\ cursor.val.file \in FileIds
      /\ next.rec \in Nat /\ cursor.val.rec \in Nat
  BY DEF TypeOK, Cursor, Registers
<1>2. \A f \in Synced(below) : below # 0 /\ f < below
  BY DEF Synced, TypeOK, FileIds
<1>3. Delivered' = Delivered
  BY DEF Delivered
<1>4. \A f \in FileIds : \A i \in 1..Len(cells'[f]) :
        /\ f \notin Synced(below) /\ cells'[f] = cells[f] /\ i \in 1..Len(cells[f])
        /\ IsRecord(f, i)' <=> IsRecord(f, i)
  BY DEF IsRecord, TypeOK
<1>5. \A f \in files' : f \in FileIds /\ cells'[f] = cells[f]
  BY DEF TypeOK
<1>6. LogInPlace'
  <2>1. \A g \in FileIds : Len(cells'[g]) > 0 => g \in files'
    BY DEF IInv, LogInPlace
  <2>2. CASE below = 0 /\ cursor'.val \in {cursor.val, Start}
    <3>1. files' = files
      BY <1>2, <2>2
    <3> QED
      BY <1>5, <2>1, <2>2, <3>1 DEF IInv, LogInPlace
  <2>3. CASE pc = "acked" /\ cursor'.val = next /\ below <= next.file
    <3>1. next.file \in files' /\ next.rec <= Len(cells[next.file])
      BY <1>1, <1>2, <2>3 DEF IInv, LogInPlace, FileIds
    <3> QED
      BY <1>5, <2>1, <2>3, <3>1 DEF IInv, LogInPlace
  <2> QED
    BY <2>2, <2>3
<1>7. ASSUME NEW f \in FileIds, NEW i \in 1..Len(cells[f]),
             IsRecord(f, i), ~Ahead(f, i, cursor'.val)
      PROVE  cells[f][i].punch \in Delivered
  <2>1. ~Ahead(f, i, cursor.val) \/ (pc = "acked" /\ ~Ahead(f, i, next))
    <3>1. Ahead(f, i, Start)
      BY DEF Ahead, Start, FileIds
    <3> QED
      BY <1>7, <3>1
  <2>2. CASE ~Ahead(f, i, cursor.val)
    BY <1>7, <2>2 DEF IInv, BehindTheCursor
  <2>3. CASE pc = "acked" /\ ~Ahead(f, i, next)
    BY <1>7, <2>3 DEF IInv, BehindTheNext, Acknowledged, Delivered
  <2> QED
    BY <2>1, <2>2, <2>3
<1>8. BehindTheCursor'
  BY <1>3, <1>4, <1>7 DEF BehindTheCursor, Ahead
<1>9. Written'
  <2> SUFFICES ASSUME NEW p \in promised \ rotted, p \notin Delivered
               PROVE  \E f \in FileIds : \E i \in 1..Len(cells'[f]) :
                        IsRecord(f, i)' /\ cells'[f][i].punch = p
    BY <1>3 DEF Written
  <2>1. PICK f \in FileIds :
          \E i \in 1..Len(cells[f]) : IsRecord(f, i) /\ cells[f][i].punch = p
    BY DEF IInv, Written
  <2>2. PICK i \in 1..Len(cells[f]) : IsRecord(f, i) /\ cells[f][i].punch = p
    BY <2>1
  <2>3. f \notin Synced(below)
    <3>1. SUFFICES ASSUME f \in Synced(below) PROVE FALSE
      OBVIOUS
    <3>2. pc = "acked" /\ f < next.file
      BY <1>1, <1>2, <3>1 DEF FileIds
    <3>3. ~Ahead(f, i, next)
      BY <1>1, <3>2 DEF Ahead, FileIds
    <3> QED
      BY <2>2, <3>2, <3>3 DEF IInv, BehindTheNext, Acknowledged, Delivered
  <2> QED
    BY <1>4, <2>2, <2>3
<1> QED
  BY <1>6, <1>8, <1>9 DEF IInv, BehindTheNext, Acknowledged

(* A cursor at file 0 drops no file. *)
LEMMA NothingSynced ==
  ASSUME TypeOK
  PROVE  /\ files \ Synced(0) = files
         /\ [f \in FileIds |-> IF f \in Synced(0) THEN <<>> ELSE cells[f]] = cells
<1>0. \A f \in files : f \in Nat /\ ~(f < 0)
  BY DEF TypeOK, FileIds
<1>1. Synced(0) = {}
  BY <1>0 DEF Synced
<1>2. \A f \in FileIds : (IF f \in Synced(0) THEN <<>> ELSE cells[f]) = cells[f]
  BY <1>1
<1>3. cells = [f \in FileIds |-> cells[f]]
  BY DEF TypeOK
<1>4. [f \in FileIds |-> IF f \in Synced(0) THEN <<>> ELSE cells[f]] = [f \in FileIds |-> cells[f]]
  BY <1>2, Zenon
<1> QED
  BY <1>1, <1>3, <1>4

(* The move of the cursor passes a record the broker has, whichever way its replace ends. *)
LEMMA MoveCursorKeeps == ASSUME TypeOK, IInv, MoveCursor PROVE IInv'
<1>1. /\ pc = "acked" /\ pc' = "idle" /\ next \in Cursor /\ next.file \in Nat
      /\ UNCHANGED <<accepted, promised, rotted, power, logIndex>> /\ power = "on"
  BY DEF MoveCursor, Return, ghosts, TypeOK, Cursor, FileIds
<1>2. CASE /\ cursor' = Finished(next)
           /\ files' = files \ Synced(next.file)
           /\ cells' = [f \in FileIds |-> IF f \in Synced(next.file) THEN <<>> ELSE cells[f]]
  <2>1. cursor'.val = next
    BY <1>1, <1>2, CursorOutcomes DEF TypeOK
  <2> QED
    BY <1>1, <1>2, <2>1, CursorWriteKeeps
<1>3. CASE cursor' \in Failed(cursor, Start) /\ UNCHANGED <<files, cells>>
  <2>1. cursor'.val \in {cursor.val, Start}
    BY <1>1, <1>3, CursorOutcomes DEF TypeOK
  <2> QED
    BY <1>1, <1>3, <2>1, NothingSynced, CursorWriteKeeps
<1> QED
  BY <1>2, <1>3 DEF MoveCursor

(* A cut leaves a cursor that reads old, new or start, and every record not yet passed. *)
LEMMA PowerCutKeeps == ASSUME TypeOK, IInv, PowerCut PROVE IInv'
<1>1. /\ pc' = "idle" /\ power' = "off" /\ next \in Cursor /\ next.file \in Nat
      /\ UNCHANGED <<accepted, promised, rotted>>
      /\ cursor' \in IF pc = "acked" THEN Cut(cursor, next, Start) ELSE {cursor}
  BY DEF PowerCut, Return, ghosts, TypeOK, Cursor, FileIds
<1>2. PICK below \in IF pc = "acked" /\ cursor' = Finished(next) THEN 0..next.file ELSE {0} :
        /\ files' = files \ Synced(below)
        /\ cells' = [f \in FileIds |-> IF f \in Synced(below) THEN <<>> ELSE cells[f]]
  BY DEF PowerCut
<1>3. CASE pc = "acked" /\ cursor' = Finished(next)
  <2>1. cursor'.val = next /\ below \in Nat /\ below <= next.file
    BY <1>1, <1>2, <1>3, CursorOutcomes DEF TypeOK
  <2> QED
    BY <1>1, <1>2, <1>3, <2>1, CursorWriteKeeps
<1>4. CASE ~(pc = "acked" /\ cursor' = Finished(next))
  <2>1. cursor'.val \in {cursor.val, Start}
    BY <1>1, <1>4, CursorOutcomes DEF TypeOK
  <2>2. below = 0
    BY <1>2, <1>4
  <2> QED
    BY <1>1, <1>2, <2>1, <2>2, CursorWriteKeeps
<1> QED
  BY <1>3, <1>4

(* A record flash loses is counted as lost to flash, not to the code. *)
LEMMA RotKeeps == ASSUME TypeOK, IInv, Rot PROVE IInv'
<1>1. PICK f \in files, i \in 1..FileCap :
        /\ IsRecord(f, i)
        /\ cells' = [cells EXCEPT ![f] = [cells[f] EXCEPT ![i] = Spoilt(cells[f][i])]]
        /\ rotted' = rotted \cup {cells[f][i].punch}
  BY DEF Rot
<1>2. UNCHANGED <<files, cursor, power, logIndex, pc, next, holding, accepted, promised>>
  BY DEF Rot, ram
<1>3. f \in FileIds /\ i \in 1..Len(cells[f])
  BY <1>1 DEF TypeOK, IsRecord
<1>4. \A g \in FileIds : cells[g] \in Seq(Cell)
  BY DEF TypeOK
<1>5. /\ \A g \in FileIds : Len(cells'[g]) = Len(cells[g])
      /\ \A g \in FileIds : \A j \in 1..Len(cells[g]) :
           cells'[g][j] = IF g = f /\ j = i THEN Spoilt(cells[f][i]) ELSE cells[g][j]
  BY <1>1, <1>3, <1>4 DEF TypeOK
<1>6. Spoilt(cells[f][i]).whole = FALSE
  BY <1>3, <1>4 DEF Spoilt, Cell
<1>7. \A g \in FileIds : \A j \in 1..Len(cells[g]) :
        IsRecord(g, j)' <=> IsRecord(g, j) /\ ~(g = f /\ j = i)
  BY <1>2, <1>5, <1>6 DEF IsRecord
<1>8. LogInPlace'
  BY <1>2, <1>5 DEF IInv, LogInPlace, TypeOK
<1>9. BehindTheCursor' /\ BehindTheNext'
  BY <1>2, <1>5, <1>7 DEF IInv, BehindTheCursor, BehindTheNext, Ahead, Delivered
<1>10. Written'
  BY <1>1, <1>2, <1>5, <1>7 DEF IInv, Written, Delivered
<1> QED
  BY <1>2, <1>8, <1>9, <1>10 DEF IInv, Acknowledged

(* An erased kiosk owes nothing, and has nothing. *)
LEMMA EraseFlashKeeps == ASSUME TypeOK, IInv, EraseFlash PROVE IInv'
<1>1. /\ files' = {} /\ \A f \in FileIds : cells'[f] = <<>>
      /\ cursor'.val = Start /\ promised' = {} /\ pc' = "idle"
  BY DEF EraseFlash, ram, NoFile, IInv, LogInPlace
<1> QED
  BY <1>1 DEF IInv, LogInPlace, BehindTheCursor, BehindTheNext, Acknowledged, Written, IsRecord

(* An empty log loses nothing. *)
LEMMA InitIInv == Init => IInv
<1> SUFFICES ASSUME Init PROVE IInv
  OBVIOUS
<1>1. /\ files = {} /\ \A f \in FileIds : cells[f] = <<>>
      /\ cursor.val = Start /\ promised = {} /\ pc = "idle"
  BY DEF Init, NoFile
<1> QED
  BY <1>1 DEF IInv, LogInPlace, BehindTheCursor, BehindTheNext, Acknowledged, Written, IsRecord

(* Every step keeps the five parts. *)
LEMMA NextIInv == ASSUME TypeOK, IInv, [Next]_vars PROVE IInv'
<1> USE DEF flash, ram, ghosts, backend
<1>1. CASE AppendRecord BY <1>1, AppendRecordKeeps
<1>2. CASE AppendFails BY <1>2, AppendFailsKeeps
<1>3. CASE ReadNext BY <1>3, ReadNextKeeps
<1>4. CASE Send
  BY <1>4, SameLog DEF Send, IInv, LogInPlace, Acknowledged
<1>5. CASE Acked
  BY <1>5, SameLog DEF Acked, IInv, LogInPlace, Acknowledged
<1>6. CASE GiveUp
  BY <1>6, SameLog DEF GiveUp, Return, IInv, LogInPlace, Acknowledged
<1>7. CASE MoveCursor BY <1>7, MoveCursorKeeps
<1>8. CASE Accept
  BY <1>8, SameLog DEF Accept, BrokerTakes, IInv, LogInPlace, Acknowledged
<1>9. CASE Handle
  BY <1>9, SameLog DEF Handle, Settle, IInv, LogInPlace, Acknowledged
<1>10. CASE Collect
  BY <1>10, SameLog DEF Collect, IInv, LogInPlace, Acknowledged
<1>11. CASE BootCounts
  <2>1. \A g \in files : g <= logIndex'
    BY <1>11 DEF BootCounts, Newest
  <2> QED
    BY <1>11, <2>1, SameLog DEF BootCounts, IInv, LogInPlace, Acknowledged
<1>12. CASE BootFiles
  BY <1>12, SameLog DEF BootFiles, IInv, LogInPlace, Acknowledged
<1>13. CASE PowerCut BY <1>13, PowerCutKeeps
<1>14. CASE Rot BY <1>14, RotKeeps
<1>15. CASE EraseFlash BY <1>15, EraseFlashKeeps
<1>16. CASE UNCHANGED vars
  BY <1>16, SameLog DEF vars, IInv, LogInPlace, Acknowledged
<1> QED
  BY <1>1, <1>2, <1>3, <1>4, <1>5, <1>6, <1>7, <1>8, <1>9, <1>10, <1>11, <1>12,
     <1>13, <1>14, <1>15, <1>16 DEF Next

(* What is written and not behind the cursor is queued; what is behind it the  *)
(* broker has.                                                                 *)
LEMMA IInvKeepsPunches == ASSUME TypeOK, IInv PROVE NothingLost
<1> SUFFICES ASSUME NEW p \in promised \ rotted, p \notin Kept, p \notin Refused
             PROVE  p \in Queued \cup Delivered
  BY DEF NothingLost, Underway, Delivered
<1>1. CASE p \in Delivered
  BY <1>1
<1>2. CASE p \notin Delivered
  <2>1. PICK f \in FileIds :
          \E i \in 1..Len(cells[f]) : IsRecord(f, i) /\ cells[f][i].punch = p
    BY <1>2 DEF IInv, Written
  <2>2. PICK i \in 1..Len(cells[f]) : IsRecord(f, i) /\ cells[f][i].punch = p
    BY <2>1
  <2>3. i \in Waiting(f)
    BY <1>2, <2>2 DEF IInv, BehindTheCursor, Waiting
  <2> QED
    BY <2>2, <2>3 DEF Queued
<1> QED
  BY <1>1, <1>2

(* Any number of punches, boots, cuts, late and repeated messages: a punch the *)
(* append answered ESP_OK for is in the log ahead of the cursor, with the      *)
(* broker, or settled by the backend (drain and cursor_set of the kiosk,       *)
(* record of the backend).                                                     *)
THEOREM NoPunchLost == Spec => []NothingLost
<1>1. Init => IInv
  BY InitIInv
<1>2. TypeOK /\ TypeOK' /\ IInv /\ [Next]_vars => IInv'
  BY NextIInv
<1>3. TypeOK /\ IInv => NothingLost
  BY IInvKeepsPunches
<1> QED
  BY <1>1, <1>2, <1>3, TypeCorrect, PTL DEF Spec
-----------------------------------------------------------------------------
(* The id and the number of the punch a record holds, as the message made of it. *)
IdOf(r) == [boot |-> r.boot, seq |-> r.seq, punch |-> r.punch]

Logged(m) == \E f \in FileIds : \E i \in 1..Len(cells[f]) : m = IdOf(cells[f][i])

(* Every message there is or may still be made of what the kiosk has written. *)
Issued ==
  {m \in Message : \/ Logged(m) \/ m \in wire \/ m \in accepted \/ m \in server
                   \/ pc # "idle" /\ m = holding}

(* A number of a punch is given once, and never again, not even after erase-flash. *)
PunchesApart ==
  /\ \A m \in Issued : m.punch \in 1..punches
  /\ \A m, n \in Issued : m.punch = n.punch => m = n

(* A file dropped, or the whole log erased, brings no record. *)
LEMMA FewerLogged ==
  ASSUME NEW gone, cells' = [f \in FileIds |-> IF f \in gone THEN <<>> ELSE cells[f]],
         NEW m, Logged(m)'
  PROVE  Logged(m)
<1>1. PICK f \in FileIds : \E i \in 1..Len(cells'[f]) : m = IdOf(cells'[f][i])
  BY DEF Logged
<1>2. f \notin gone /\ cells'[f] = cells[f]
  BY <1>1
<1> QED
  BY <1>1, <1>2 DEF Logged

(* Only an append issues an id; every other step passes on those there are. *)
LEMMA NothingNewIssued ==
  ASSUME TypeOK, [Next]_vars, ~AppendRecord
  PROVE  Issued' \subseteq Issued
<1> USE DEF flash, ram, ghosts, backend
<1>0. ASSUME UNCHANGED <<cells, server>>, wire' \subseteq wire \cup (IF pc = "idle" THEN {} ELSE {holding}),
             accepted' \subseteq accepted \cup wire,
             pc' # "idle" => pc # "idle" /\ holding' = holding
      PROVE  Issued' \subseteq Issued
  BY <1>0 DEF Issued, Logged
<1>2. CASE AppendFails
  BY <1>2, <1>0 DEF AppendFails
<1>3. CASE ReadNext
  <2>1. PICK f \in FileIds, i \in 1..FileCap :
          IsNext(f, i, cursor.val) /\ holding' = IdOf(cells[f][i])
    BY <1>3 DEF ReadNext, IdOf
  <2>2. Logged(holding')
    BY <2>1 DEF IsNext, IsRecord, Logged
  <2> QED
    BY <1>3, <2>2 DEF ReadNext, Issued, Logged
<1>4. CASE Send
  BY <1>4, <1>0 DEF Send
<1>5. CASE Acked
  BY <1>5, <1>0 DEF Acked
<1>6. CASE GiveUp
  BY <1>6, <1>0 DEF GiveUp, Return
<1>7. CASE MoveCursor
  <2>1. PICK gone : cells' = [f \in FileIds |-> IF f \in gone THEN <<>> ELSE cells[f]]
    BY <1>7, NothingSynced DEF MoveCursor
  <2>2. pc' = "idle" /\ UNCHANGED <<wire, accepted, server>>
    BY <1>7 DEF MoveCursor, Return
  <2> QED
    BY <2>1, <2>2, FewerLogged DEF Issued
<1>8. CASE Accept
  BY <1>8, <1>0 DEF Accept, BrokerTakes
<1>9. CASE Handle
  <2>1. PICK m \in accepted : server' \subseteq server \cup {m}
    BY <1>9 DEF Handle, Settle, Stored
  <2> QED
    BY <1>9, <2>1 DEF Handle, Settle, Issued, Logged
<1>10. CASE Collect
  BY <1>10, <1>0 DEF Collect
<1>11. CASE BootCounts
  BY <1>11, <1>0 DEF BootCounts
<1>12. CASE BootFiles
  BY <1>12, <1>0 DEF BootFiles
<1>13. CASE PowerCut
  <2>1. PICK gone : cells' = [f \in FileIds |-> IF f \in gone THEN <<>> ELSE cells[f]]
    BY <1>13 DEF PowerCut
  <2>2. pc' = "idle" /\ UNCHANGED <<wire, accepted, server>>
    BY <1>13 DEF PowerCut, Return
  <2> QED
    BY <2>1, <2>2, FewerLogged DEF Issued
<1>14. CASE Rot
  <2>1. PICK f \in files, i \in 1..FileCap :
          /\ IsRecord(f, i)
          /\ cells' = [cells EXCEPT ![f] = [cells[f] EXCEPT ![i] = Spoilt(cells[f][i])]]
    BY <1>14 DEF Rot
  <2>2. f \in FileIds /\ i \in 1..Len(cells[f]) /\ cells[f] \in Seq(Cell)
    BY <2>1 DEF TypeOK, IsRecord
  <2>3. cells[f][i] \in Cell
    BY <2>2
  <2>4. /\ \A g \in FileIds : Len(cells'[g]) = Len(cells[g])
        /\ \A g \in FileIds : \A j \in 1..Len(cells[g]) :
             cells'[g][j] = IF g = f /\ j = i THEN Spoilt(cells[f][i]) ELSE cells[g][j]
    BY <2>1, <2>2 DEF TypeOK
  <2>5. IdOf(Spoilt(cells[f][i])) = IdOf(cells[f][i])
    BY <2>3 DEF IdOf, Spoilt, Cell
  <2>6. \A g \in FileIds : \A j \in 1..Len(cells[g]) : IdOf(cells'[g][j]) = IdOf(cells[g][j])
    BY <2>4, <2>5
  <2>7. \A m : Logged(m)' => Logged(m)
    BY <2>4, <2>6 DEF Logged
  <2> QED
    BY <1>14, <2>7 DEF Rot, Issued
<1>15. CASE EraseFlash
  <2>1. cells' = [f \in FileIds |-> IF f \in FileIds THEN <<>> ELSE cells[f]]
    BY <1>15 DEF EraseFlash
  <2>2. wire' = {} /\ accepted' = {} /\ UNCHANGED <<pc, holding, server>>
    BY <1>15 DEF EraseFlash
  <2> QED
    BY <2>1, <2>2, FewerLogged DEF Issued
<1>16. CASE UNCHANGED vars
  BY <1>16, <1>0 DEF vars
<1> QED
  BY <1>2, <1>3, <1>4, <1>5, <1>6, <1>7, <1>8, <1>9, <1>10, <1>11, <1>12,
     <1>13, <1>14, <1>15, <1>16 DEF Next

(* An append issues the next number under the next id. *)
LEMMA OneNewIssued ==
  ASSUME TypeOK, AppendRecord, NEW m \in Issued'
  PROVE  m \in Issued \/ m = [boot |-> boot, seq |-> seq + 1, punch |-> punches + 1]
<1>1. PICK f \in FileIds :
        cells' = [cells EXCEPT ![f] = Append(cells[f],
          [boot |-> boot, seq |-> seq', punch |-> punches', whole |-> ~TailLeft(f)])]
  BY DEF AppendRecord
<1> DEFINE new == [boot |-> boot, seq |-> seq', punch |-> punches', whole |-> ~TailLeft(f)]
<1>2. /\ seq' = seq + 1 /\ punches' = punches + 1
      /\ UNCHANGED <<pc, holding, wire, accepted, server>>
  BY DEF AppendRecord, Punching, backend
<1>3. new \in Cell
  BY <1>2 DEF TailLeft, TypeOK, Cell
<1>4. IdOf(new) = [boot |-> boot, seq |-> seq + 1, punch |-> punches + 1]
  BY <1>2 DEF IdOf
<1>c. cells' = [cells EXCEPT ![f] = Append(cells[f], new)]
  BY <1>1
<1> HIDE DEF new
<1>5. /\ cells[f] \in Seq(Cell)
      /\ Len(cells'[f]) = Len(cells[f]) + 1 /\ cells'[f][Len(cells[f]) + 1] = new
      /\ \A i \in 1..Len(cells[f]) : cells'[f][i] = cells[f][i]
      /\ \A g \in FileIds : g # f => cells'[g] = cells[g]
  BY <1>c, <1>3 DEF TypeOK
<1>6. ASSUME Logged(m)' PROVE Logged(m) \/ m = IdOf(new)
  <2>1. PICK g \in FileIds : \E i \in 1..Len(cells'[g]) : m = IdOf(cells'[g][i])
    BY <1>6 DEF Logged
  <2>2. PICK i \in 1..Len(cells'[g]) : m = IdOf(cells'[g][i])
    BY <2>1
  <2>3. CASE g # f
    BY <1>5, <2>2, <2>3 DEF Logged
  <2>4. CASE g = f /\ i = Len(cells[f]) + 1
    BY <1>5, <2>2, <2>4
  <2>5. CASE g = f /\ i # Len(cells[f]) + 1
    <3>1. i \in 1..Len(cells[f])
      BY <1>5, <2>5
    <3> QED
      BY <1>5, <2>2, <2>5, <3>1 DEF Logged
  <2> QED
    BY <2>3, <2>4, <2>5
<1> QED
  BY <1>2, <1>4, <1>6 DEF Issued

(* What is issued is a message. *)
LEMMA IssuedTypes ==
  ASSUME TypeOK, NEW m \in Issued
  PROVE  m \in Message /\ m.boot \in Nat /\ m.seq \in Nat /\ m.punch \in Nat
  BY DEF Issued, Message

(* The counter of the punches only goes up. *)
LEMMA PunchesGoOn == ASSUME TypeOK, [Next]_vars PROVE punches' >= punches
<1> USE DEF flash, ram, ghosts, backend, TypeOK, Punching
<1>1. AppendRecord => punches' >= punches
  BY DEF AppendRecord
<1>2. AppendFails => punches' >= punches
  BY DEF AppendFails
<1>3. \/ ReadNext \/ Send \/ Acked \/ GiveUp \/ MoveCursor \/ Accept \/ Handle \/ Collect
      => punches' = punches
  BY DEF ReadNext, Send, Acked, GiveUp, MoveCursor, Accept, Handle, BrokerTakes, Settle, Collect
<1>4. \/ BootCounts \/ BootFiles \/ PowerCut \/ Rot \/ EraseFlash \/ UNCHANGED vars
      => punches' = punches
  BY DEF BootCounts, BootFiles, PowerCut, Rot, EraseFlash, vars
<1> QED
  BY <1>1, <1>2, <1>3, <1>4 DEF Next

(* A new number is above all there are, and no other step makes one. *)
LEMMA PunchesApartNext == ASSUME TypeOK, PunchesApart, [Next]_vars PROVE PunchesApart'
<1>0. punches \in Nat /\ punches' \in Nat /\ punches' >= punches
  BY PunchesGoOn, TypeNext DEF TypeOK
<1>1. CASE AppendRecord
  <2>1. PICK new : new = [boot |-> boot, seq |-> seq + 1, punch |-> punches + 1]
    OBVIOUS
  <2>2. punches' = punches + 1 /\ new.punch = punches + 1
    BY <1>1, <2>1 DEF AppendRecord, Punching
  <2>3. \A m \in Issued' : m \in Issued \/ m = new
    BY <1>1, <2>1, OneNewIssued
  <2>4. \A m \in Issued : m.punch \in 1..punches
    BY DEF PunchesApart
  <2>5. \A m \in Issued' : m.punch \in 1..punches'
    BY <1>0, <2>2, <2>3, <2>4
  <2>6. \A m \in Issued : m.punch # new.punch
    BY <1>0, <2>2, <2>4
  <2>7. \A m, n \in Issued : m.punch = n.punch => m = n
    BY DEF PunchesApart
  <2>8. \A m, n \in Issued' : m.punch = n.punch => m = n
    BY <2>3, <2>6, <2>7
  <2> QED
    BY <2>5, <2>8 DEF PunchesApart
<1>2. CASE ~AppendRecord
  <2>1. Issued' \subseteq Issued
    BY <1>2, NothingNewIssued
  <2>2. \A m \in Issued : m.punch \in 1..punches
    BY DEF PunchesApart
  <2>3. \A m, n \in Issued : m.punch = n.punch => m = n
    BY DEF PunchesApart
  <2>4. \A m \in Issued' : m.punch \in 1..punches'
    BY <1>0, <2>1, <2>2
  <2> QED
    BY <2>1, <2>3, <2>4 DEF PunchesApart
<1> QED
  BY <1>1, <1>2

-----------------------------------------------------------------------------
(* A kiosk whose face table is empty has written nothing since it was erased. *)
Blank ==
  ~roster => /\ wire = {} /\ accepted = {} /\ pc = "idle"
             /\ \A f \in FileIds : cells[f] = <<>>
             /\ ~MayErase => server = {}

(* Where the copies of the count stand against the count tasks last ran under. *)
CountsHold ==
  /\ power # "off" => boot > 0
  /\ "copies" \notin holes =>
       /\ power = "on" => boot = ran
       /\ power = "counted" => boot > ran
       /\ power # "off" => nvsBoot = boot
       /\ nvsBoot >= ran
       /\ NvsMayFail => bootBin.at = "none" \/ bootBin.val >= ran

(* While the kiosk knows somebody, every id there is lies behind the next one. *)
IdsBelow ==
  holes = {} /\ roster =>
    \A m \in Issued : /\ m.boot <= ran
                      /\ power = "on" /\ m.boot = boot => m.seq <= seq

IdsApart ==
  holes = {} =>
    \A m, n \in Issued : m.boot = n.boot /\ m.seq = n.seq => m.punch = n.punch

(* Neither hole is reached by a kiosk that loses neither NVS nor its flash. *)
NoHole == ~NvsMayFail /\ ~MayErase => holes = {}

(* The copies of the count do what they are for: each write of one goes        *)
(* through, or there is no loss they would have to make good.                  *)
CountsStand == ~CountMayFail \/ (~NvsMayFail /\ ~MayErase)

IdInv == CountsHold /\ Blank /\ IdsBelow /\ IdsApart /\ NoHole

(* A step that leaves the counts and the ids alone. *)
LEMMA SameIds ==
  ASSUME TypeOK, IdInv, [Next]_vars, ~AppendRecord,
         UNCHANGED <<power, boot, seq, ran, nvsBoot, bootBin, roster, holes>>,
         ~roster => wire' = {} /\ accepted' = {} /\ pc' = "idle"
                    /\ (\A f \in FileIds : cells'[f] = <<>>)
                    /\ (~MayErase => server' = {})
  PROVE  IdInv'
<1>1. Issued' \subseteq Issued
  BY NothingNewIssued
<1>2. CountsHold' /\ NoHole' /\ Blank'
  BY DEF IdInv, CountsHold, NoHole, Blank
<1>3. IdsBelow' /\ IdsApart'
  BY <1>1 DEF IdInv, IdsBelow, IdsApart
<1> QED
  BY <1>2, <1>3 DEF IdInv

(* What the set of the highest holds. *)
LEMMA HighestIs ==
  ASSUME NEW S \in SUBSET Nat, NEW h \in Highest(S)
  PROVE  h \in Nat /\ h \in S \cup {0} /\ \A c \in S : c <= h
  BY DEF Highest

(* The next id is one nobody has. *)
LEMMA AppendRecordKeepsIds == ASSUME TypeOK, IdInv, AppendRecord PROVE IdInv'
<1>1. /\ power = "on" /\ roster /\ seq' = seq + 1
      /\ UNCHANGED <<power, boot, ran, nvsBoot, bootBin, roster, holes>>
  BY DEF AppendRecord, Punching
<1>2. PICK new : new = [boot |-> boot, seq |-> seq + 1, punch |-> punches + 1]
  OBVIOUS
<1>3. new.boot = boot /\ new.seq = seq + 1
  BY <1>2
<1>4. \A m \in Issued' : m \in Issued \/ m = new
  BY <1>2, OneNewIssued
<1>5. CountsHold' /\ NoHole' /\ Blank'
  BY <1>1 DEF IdInv, CountsHold, NoHole, Blank
<1>6. CASE holes # {}
  BY <1>1, <1>5, <1>6 DEF IdInv, IdsBelow, IdsApart
<1>7. CASE holes = {}
  <2>1. boot = ran /\ seq \in Nat /\ boot \in Nat
    BY <1>1, <1>7 DEF IdInv, CountsHold, TypeOK
  <2>2. \A m \in Issued : m.boot \in Nat /\ m.seq \in Nat /\ m.boot <= ran
                          /\ (m.boot = boot => m.seq <= seq)
    BY <1>1, <1>7, IssuedTypes DEF IdInv, IdsBelow
  <2>3. \A m \in Issued : ~(m.boot = new.boot /\ m.seq = new.seq)
    BY <1>3, <2>1, <2>2
  <2>4. \A m, n \in Issued : m.boot = n.boot /\ m.seq = n.seq => m.punch = n.punch
    BY <1>7 DEF IdInv, IdsApart
  <2>5. \A m, n \in Issued' : m.boot = n.boot /\ m.seq = n.seq => m.punch = n.punch
    BY <1>4, <2>3, <2>4
  <2>6. \A m \in Issued' : m.boot <= ran /\ (m.boot = boot => m.seq <= seq + 1)
    BY <1>3, <1>4, <2>1, <2>2
  <2> QED
    BY <1>1, <1>5, <2>5, <2>6 DEF IdInv, IdsBelow, IdsApart
<1> QED
  BY <1>6, <1>7

(* A number spent on a record that was not written. *)
LEMMA AppendFailsKeepsIds == ASSUME TypeOK, IdInv, AppendFails, [Next]_vars, ~AppendRecord PROVE IdInv'
<1>1. /\ power = "on" /\ roster /\ seq' = seq + 1
      /\ UNCHANGED <<power, boot, ran, nvsBoot, bootBin, roster, holes>>
  BY DEF AppendFails, Punching
<1>2. Issued' \subseteq Issued
  BY NothingNewIssued
<1>3. \A m \in Issued : m.seq \in Nat
  BY IssuedTypes
<1>4. seq \in Nat
  BY DEF TypeOK
<1>5. CountsHold' /\ NoHole' /\ Blank'
  BY <1>1 DEF IdInv, CountsHold, NoHole, Blank
<1>6. IdsApart'
  BY <1>1, <1>2 DEF IdInv, IdsApart
<1>7. IdsBelow'
  <2>1. SUFFICES ASSUME holes = {}, NEW m \in Issued
                 PROVE  m.boot <= ran /\ (m.boot = boot => m.seq <= seq + 1)
    BY <1>1, <1>2 DEF IdsBelow
  <2>2. m.boot <= ran /\ (m.boot = boot => m.seq <= seq)
    BY <1>1, <2>1 DEF IdInv, IdsBelow
  <2> QED
    BY <1>3, <1>4, <2>2
<1> QED
  BY <1>5, <1>6, <1>7 DEF IdInv

(* A blank kiosk that is let in comes past every count the server has, or just *)
(* level with it, which is a hole; one that knows somebody is past it already.  *)
LEMMA CollectKeepsIds ==
  ASSUME TypeOK, CountsStand, IdInv, Collect, [Next]_vars, ~AppendRecord
  PROVE  IdInv'
<1>1. PICK highest \in HighestBoot :
        /\ LiftBootCount(highest)
        /\ holes' = holes \cup (IF ~roster /\ boot = highest THEN {"equal"} ELSE {})
  BY DEF Collect
<1>2. /\ power = "on" /\ ran' = boot' /\ (roster => roster')
      /\ UNCHANGED <<power, seq, cells, wire, accepted, server, pc>>
  BY DEF Collect, backend
<1>3. /\ highest \in Nat /\ \A m \in server : m.boot <= highest
      /\ server = {} => highest = 0
  <2>1. {r.boot : r \in server} \subseteq Nat
    BY DEF TypeOK, Message
  <2>2. highest \in {r.boot : r \in server} \cup {0}
    BY <2>1, HighestIs DEF HighestBoot
  <2> QED
    BY <2>1, <2>2, HighestIs DEF HighestBoot
<1>4. boot \in Nat /\ nvsBoot \in Nat /\ ran \in Nat /\ boot > 0
  BY <1>2 DEF TypeOK, IdInv, CountsHold
<1>5. Issued' \subseteq Issued
  BY NothingNewIssued
<1>6. holes = {} /\ roster => highest <= boot
  <2> SUFFICES ASSUME holes = {}, roster PROVE highest <= boot
    OBVIOUS
  <2>1. \A m \in server : m.boot <= boot
    <3>1. server \subseteq Issued
      BY DEF TypeOK, Issued
    <3> QED
      BY <1>2, <3>1 DEF IdInv, IdsBelow, CountsHold
  <2>2. highest \in {r.boot : r \in server} \cup {0}
    BY DEF HighestBoot, Highest
  <2> QED
    BY <1>4, <2>1, <2>2
<1>7. boot < highest => ~CountMayFail
  <2>1. SUFFICES ASSUME CountMayFail, boot < highest PROVE FALSE
    OBVIOUS
  <2>2. ~NvsMayFail /\ ~MayErase
    BY <2>1 DEF CountsStand
  <2>3. holes = {}
    BY <2>2 DEF IdInv, NoHole
  <2>4. ~roster => highest = 0
    BY <1>3, <2>2 DEF IdInv, Blank
  <2> QED
    BY <1>3, <1>4, <1>6, <2>1, <2>3, <2>4
<1>8. \/ boot >= highest /\ UNCHANGED <<boot, nvsBoot, bootBin>>
      \/ /\ boot < highest /\ boot' = highest + 1 /\ nvsBoot' = boot'
         /\ bootBin' = Finished(boot')
  BY <1>1, <1>3, <1>4, <1>7 DEF LiftBootCount
<1>9. CountsHold'
  <2>1. boot' > 0 /\ boot' \in Nat
    BY <1>3, <1>4, <1>8
  <2>2. "copies" \notin holes' => "copies" \notin holes
    BY <1>1
  <2>3. CASE boot < highest
    BY <1>2, <1>3, <1>4, <1>8, <2>1, <2>3 DEF CountsHold, Finished
  <2>4. CASE boot >= highest
    BY <1>2, <1>3, <1>4, <1>8, <2>1, <2>2, <2>4 DEF IdInv, CountsHold
  <2> QED
    BY <1>3, <1>4, <2>3, <2>4
<1>10. NoHole'
  <2>1. SUFFICES ASSUME ~NvsMayFail, ~MayErase PROVE ~(~roster /\ boot = highest)
    BY <1>1 DEF IdInv, NoHole
  <2> QED
    BY <1>3, <1>4, <2>1 DEF IdInv, Blank
<1>11. Blank'
  BY <1>2 DEF IdInv, Blank
<1>12. IdsApart'
  BY <1>1, <1>5 DEF IdInv, IdsApart
<1>13. IdsBelow'
  <2>1. SUFFICES ASSUME holes' = {}, roster', NEW m \in Issued
                 PROVE  m.boot <= ran' /\ (m.boot = boot' => m.seq <= seq)
    BY <1>2, <1>5 DEF IdsBelow
  <2>2. holes = {} /\ ~(~roster /\ boot = highest)
    BY <1>1, <2>1
  <2>3. CASE roster
    <3>1. boot' = boot /\ ran = boot
      BY <1>2, <1>3, <1>4, <1>6, <1>8, <2>2, <2>3 DEF IdInv, CountsHold
    <3> QED
      BY <1>2, <2>2, <2>3, <3>1 DEF IdInv, IdsBelow
  <2>4. CASE ~roster
    <3>1. m \in server
      BY <2>4 DEF IdInv, Blank, Issued, Logged
    <3>2. boot' > highest
      BY <1>3, <1>4, <1>8, <2>2, <2>4
    <3>3. m.boot <= highest /\ m.boot \in Nat
      BY <1>3, <3>1, IssuedTypes
    <3>4. m.boot < boot' /\ boot' \in Nat
      BY <1>3, <1>4, <1>8, <3>2, <3>3
    <3> QED
      BY <1>2, <3>3, <3>4
  <2> QED
    BY <2>3, <2>4
<1> QED
  BY <1>9, <1>10, <1>11, <1>12, <1>13 DEF IdInv

(* A boot counts above the copy it found, and finds one unless both are gone. *)
LEMMA BootCountsKeepsIds ==
  ASSUME TypeOK, IdInv, BootCounts, [Next]_vars, ~AppendRecord
  PROVE  IdInv'
<1>1. PICK lost \in {FALSE, NvsMayFail} :
        /\ \E last \in Highest({IF lost THEN 0 ELSE nvsBoot, bootBin.val} \cup LoggedBoots) :
             boot' = last + 1
        /\ holes' = holes \cup (IF lost /\ bootBin.at = "none" THEN {"copies"} ELSE {})
  BY DEF BootCounts
<1>2. PICK last \in Highest({IF lost THEN 0 ELSE nvsBoot, bootBin.val} \cup LoggedBoots) :
        boot' = last + 1
  BY <1>1
<1>3. /\ power' = "counted" /\ nvsBoot' = boot'
      /\ UNCHANGED <<ran, bootBin, roster, wire, accepted, server, cells, pc>>
  BY DEF BootCounts, backend
<1>4. nvsBoot \in Nat /\ bootBin.val \in Nat /\ ran \in Nat
  BY DEF TypeOK, Registers
<1>5. last \in Nat /\ bootBin.val <= last /\ (~lost => nvsBoot <= last)
  BY <1>4, LoggedBootsAreNat, HighestIs
<1>6. boot' > 0 /\ boot' \in Nat
  BY <1>2, <1>5
<1>7. "copies" \notin holes' => boot' > ran
  <2>1. SUFFICES ASSUME "copies" \notin holes' PROVE boot' > ran
    OBVIOUS
  <2>2. "copies" \notin holes /\ ~(lost /\ bootBin.at = "none")
    BY <1>1, <2>1
  <2>3. lost => bootBin.val >= ran
    BY <1>1, <2>2 DEF IdInv, CountsHold
  <2>4. ~lost => nvsBoot >= ran
    BY <2>2 DEF IdInv, CountsHold
  <2> QED
    BY <1>2, <1>4, <1>5, <2>3, <2>4
<1>8. CountsHold'
  <2>1. "copies" \notin holes' => "copies" \notin holes
    BY <1>1
  <2> QED
    BY <1>3, <1>4, <1>6, <1>7, <2>1 DEF IdInv, CountsHold
<1>9. NoHole'
  <2>1. SUFFICES ASSUME ~NvsMayFail, ~MayErase PROVE holes' = {}
    BY DEF NoHole
  <2>2. lost = FALSE
    BY <2>1
  <2>3. holes = {}
    BY <2>1 DEF IdInv, NoHole
  <2> QED
    BY <1>1, <2>2, <2>3
<1>10. Blank'
  BY <1>3 DEF IdInv, Blank
<1>11. Issued' \subseteq Issued
  BY NothingNewIssued
<1>12. IdsApart' /\ IdsBelow'
  BY <1>1, <1>3, <1>11 DEF IdInv, IdsApart, IdsBelow
<1> QED
  BY <1>8, <1>9, <1>10, <1>12 DEF IdInv

(* Tasks run under a count nobody ran under before. *)
LEMMA BootFilesKeepsIds ==
  ASSUME TypeOK, CountsStand, IdInv, BootFiles, [Next]_vars, ~AppendRecord
  PROVE  IdInv'
<1>1. /\ power = "counted" /\ power' = "on" /\ ran' = boot
      /\ bootBin' \in {Finished(boot)} \cup (IF CountMayFail THEN Failed(bootBin, 0) ELSE {})
      /\ UNCHANGED <<boot, seq, nvsBoot, roster, holes, wire, accepted, server, cells, pc>>
  BY DEF BootFiles, backend
<1>2. boot \in Nat /\ ran \in Nat
  BY DEF TypeOK
<1>3. NvsMayFail => bootBin' = Finished(boot)
  BY <1>1 DEF CountsStand
<1>4. CountsHold'
  BY <1>1, <1>2, <1>3 DEF IdInv, CountsHold, Finished
<1>5. Issued' \subseteq Issued
  BY NothingNewIssued
<1>6. NoHole' /\ Blank' /\ IdsApart'
  BY <1>1, <1>5 DEF IdInv, NoHole, Blank, IdsApart
<1>7. IdsBelow'
  <2>1. SUFFICES ASSUME holes = {}, roster, NEW m \in Issued
                 PROVE  m.boot <= boot /\ m.boot # boot
    BY <1>1, <1>5 DEF IdsBelow
  <2>2. m.boot <= ran /\ boot > ran /\ m.boot \in Nat
    BY <1>1, <2>1, IssuedTypes DEF IdInv, IdsBelow, CountsHold
  <2> QED
    BY <1>2, <2>2
<1> QED
  BY <1>4, <1>6, <1>7 DEF IdInv

(* A cut leaves boot.bin what it was, the new count, or gone. *)
LEMMA PowerCutKeepsIds ==
  ASSUME TypeOK, CountsStand, IdInv, PowerCut, [Next]_vars, ~AppendRecord
  PROVE  IdInv'
<1>1. /\ power # "off" /\ power' = "off" /\ pc' = "idle"
      /\ UNCHANGED <<roster, wire, accepted, server, ran, holes>>
  BY DEF PowerCut, Return, backend, ghosts
<1>2. boot \in Nat /\ ran \in Nat /\ nvsBoot \in Nat /\ bootBin \in Registers(Nat)
  BY DEF TypeOK
<1>3. "copies" \notin holes =>
        nvsBoot' >= ran /\ (NvsMayFail => bootBin'.at = "none" \/ bootBin'.val >= ran)
  <2>1. SUFFICES ASSUME "copies" \notin holes
                 PROVE  nvsBoot' >= ran /\ (NvsMayFail => bootBin'.at = "none" \/ bootBin'.val >= ran)
    OBVIOUS
  <2>2. /\ boot >= ran /\ nvsBoot = boot
        /\ NvsMayFail => bootBin.at = "none" \/ bootBin.val >= ran
    BY <1>1, <1>2, <2>1 DEF IdInv, CountsHold, TypeOK
  <2>3. \A v \in Nat : v >= ran => \A r \in Cut(bootBin, v, 0) :
          NvsMayFail => r.at = "none" \/ r.val >= ran
    BY <1>2, <2>2 DEF Cut, Failed, Finished, NoFile
  <2>4. CASE /\ bootBin' \in IF power = "counted" THEN Cut(bootBin, boot, 0) ELSE {bootBin}
             /\ UNCHANGED nvsBoot
    BY <1>2, <2>2, <2>3, <2>4
  <2>5. CASE \E highest \in HighestBoot :
               /\ boot < highest /\ nvsBoot' = highest + 1
               /\ bootBin' \in Cut(bootBin, highest + 1, 0)
    <3>1. PICK highest \in HighestBoot :
            /\ boot < highest /\ nvsBoot' = highest + 1
            /\ bootBin' \in Cut(bootBin, highest + 1, 0)
      BY <2>5
    <3>2. highest \in Nat
      BY DEF HighestBoot, Highest, TypeOK, Message
    <3>3. highest + 1 \in Nat /\ highest + 1 >= ran
      BY <1>2, <2>2, <3>1, <3>2
    <3> QED
      BY <2>3, <3>1, <3>3
  <2> QED
    BY <2>4, <2>5 DEF PowerCut
<1>4. CountsHold'
  BY <1>1, <1>3 DEF CountsHold
<1>5. PICK gone : cells' = [f \in FileIds |-> IF f \in gone THEN <<>> ELSE cells[f]]
  BY DEF PowerCut
<1>6. Blank'
  BY <1>1, <1>5 DEF IdInv, Blank
<1>7. Issued' \subseteq Issued
  BY NothingNewIssued
<1>8. NoHole' /\ IdsApart' /\ IdsBelow'
  BY <1>1, <1>7 DEF IdInv, NoHole, IdsApart, IdsBelow
<1> QED
  BY <1>4, <1>6, <1>8 DEF IdInv

(* erase-flash leaves the server's rows, and a kiosk that knows nobody. *)
LEMMA EraseFlashKeepsIds ==
  ASSUME TypeOK, IInv, IdInv, EraseFlash, [Next]_vars, ~AppendRecord
  PROVE  IdInv'
<1>1. /\ MayErase /\ power = "off" /\ power' = power /\ pc' = pc /\ holes' = holes
      /\ wire' = {} /\ accepted' = {} /\ \A f \in FileIds : cells'[f] = <<>>
      /\ nvsBoot' = 0 /\ bootBin' = NoFile(0) /\ ran' = 0 /\ roster' = FALSE
  BY DEF EraseFlash, ram
<1>2. pc = "idle"
  BY <1>1 DEF IInv, LogInPlace
<1>3. Issued' \subseteq Issued
  BY NothingNewIssued
<1>4. CountsHold' /\ Blank' /\ NoHole'
  BY <1>1, <1>2 DEF CountsHold, Blank, NoHole, NoFile
<1>5. IdsBelow' /\ IdsApart'
  BY <1>1, <1>3 DEF IdInv, IdsBelow, IdsApart
<1> QED
  BY <1>4, <1>5 DEF IdInv

(* Every step keeps the five parts: one lemma for each that moves a count. *)
LEMMA IdNext ==
  ASSUME TypeOK, CountsStand, IInv, IdInv, [Next]_vars
  PROVE  IdInv'
<1>a. CASE AppendRecord BY <1>a, AppendRecordKeepsIds
<1>b. CASE ~AppendRecord
  <2> USE <1>b DEF flash, ram, ghosts, backend
  <2>0. ~roster => /\ wire = {} /\ accepted = {} /\ pc = "idle"
                   /\ \A f \in FileIds : cells[f] = <<>>
                   /\ ~MayErase => server = {}
    BY DEF IdInv, Blank
  <2>2. CASE AppendFails BY <2>2, AppendFailsKeepsIds
  <2>3. CASE ReadNext
    <3>1. roster
      BY <2>0, <2>3 DEF ReadNext, IsNext, IsRecord
    <3> QED
      BY <2>3, <3>1, SameIds DEF ReadNext
  <2>4. CASE Send
    BY <2>4, <2>0, SameIds DEF Send
  <2>5. CASE Acked
    BY <2>5, <2>0, SameIds DEF Acked
  <2>6. CASE GiveUp
    BY <2>6, <2>0, SameIds DEF GiveUp, Return
  <2>7. CASE MoveCursor
    <3>1. roster
      BY <2>0, <2>7 DEF MoveCursor
    <3> QED
      BY <2>7, <3>1, SameIds DEF MoveCursor
  <2>8. CASE Accept
    BY <2>8, <2>0, SameIds DEF Accept, BrokerTakes
  <2>9. CASE Handle
    BY <2>9, <2>0, SameIds DEF Handle, Settle
  <2>10. CASE Collect BY <2>10, CollectKeepsIds
  <2>11. CASE BootCounts BY <2>11, BootCountsKeepsIds
  <2>12. CASE BootFiles BY <2>12, BootFilesKeepsIds
  <2>13. CASE PowerCut BY <2>13, PowerCutKeepsIds
  <2>14. CASE Rot
    <3>1. roster
      BY <2>0, <2>14 DEF Rot, IsRecord, TypeOK
    <3> QED
      BY <2>14, <3>1, SameIds DEF Rot
  <2>15. CASE EraseFlash BY <2>15, EraseFlashKeepsIds
  <2>16. CASE UNCHANGED vars
    BY <2>16, <2>0, SameIds DEF vars
  <2> QED
    BY <1>b, <2>2, <2>3, <2>4, <2>5, <2>6, <2>7, <2>8, <2>9, <2>10, <2>11, <2>12,
       <2>13, <2>14, <2>15, <2>16 DEF Next
<1> QED
  BY <1>a, <1>b

(* A kiosk out of the box has issued nothing. *)
LEMMA IdInit == Init => IdInv /\ PunchesApart
<1> SUFFICES ASSUME Init PROVE IdInv /\ PunchesApart
  OBVIOUS
<1>1. Issued = {}
  BY DEF Init, Issued, Logged
<1> QED
  BY <1>1 DEF Init, IdInv, PunchesApart, CountsHold, Blank, IdsBelow, IdsApart, NoHole, NoFile

(* What the kiosk has written or sent, as OneIdOnePunch counts it, is issued. *)
LEMMA IdsAreIssued == ASSUME TypeOK PROVE Ids \subseteq Issued
<1> SUFFICES ASSUME NEW m \in Ids PROVE m \in Issued
  OBVIOUS
<1>1. CASE m \in wire \cup accepted \cup server
  BY <1>1 DEF TypeOK, Issued
<1>2. CASE m \notin wire \cup accepted \cup server
  <2>1. PICK f \in FileIds :
          m \in {[boot |-> cells[f][i].boot, seq |-> cells[f][i].seq, punch |-> cells[f][i].punch] :
                   i \in 1..Len(cells[f])}
    BY <1>2 DEF Ids
  <2>2. PICK i \in 1..Len(cells[f]) : m = IdOf(cells[f][i])
    BY <2>1 DEF IdOf
  <2>3. cells[f][i] \in Cell
    BY DEF TypeOK
  <2>4. m \in Message
    BY <2>2, <2>3 DEF IdOf, Cell, Message
  <2> QED
    BY <2>2, <2>4 DEF Issued, Logged
<1> QED
  BY <1>1, <1>2

(* The counts, the log and the ids are sound in every reachable state. *)
LEMMA IdInvariant ==
  ASSUME CountsStand
  PROVE  Spec => [](TypeOK /\ IInv /\ IdInv)
<1>1. Init => TypeOK /\ IInv /\ IdInv
  BY TypeInit, InitIInv, IdInit
<1>2. (TypeOK /\ IInv /\ IdInv) /\ [Next]_vars => (TypeOK /\ IInv /\ IdInv)'
  BY TypeNext, NextIInv, IdNext
<1> QED
  BY <1>1, <1>2, PTL DEF Spec

(* A boot runs tasks under an earlier count again only after some boot found   *)
(* both copies gone (sys_storage_init, keep_boot_count, lift_boot_count), as   *)
(* long as the writes of the copies go through.                                *)
THEOREM CountGoesOn ==
  ASSUME CountsStand
  PROVE  Spec => []BootCountsOn
<1>1. TypeOK /\ IInv /\ IdInv => BootCountsOn
  BY DEF IdInv, CountsHold, BootCountsOn
<1> QED
  BY <1>1, IdInvariant, PTL

(* Under the same condition an id repeats through the two holes only.          *)
THEOREM IdsRepeatOnlyThroughHoles ==
  ASSUME CountsStand
  PROVE  Spec => []RepeatsOnlyThroughAHole
<1>1. TypeOK /\ IInv /\ IdInv => RepeatsOnlyThroughAHole
  <2> SUFFICES ASSUME TypeOK, IdInv, holes = {} PROVE OneIdOnePunch
    BY DEF RepeatsOnlyThroughAHole
  <2> QED
    BY IdsAreIssued DEF IdInv, IdsApart, OneIdOnePunch
<1> QED
  BY <1>1, IdInvariant, PTL

(* A kiosk that keeps its NVS and is never erased gives every id once, however *)
(* often power is cut and whichever writes of boot.bin fail.                   *)
THEOREM IdsOnce ==
  ASSUME ~NvsMayFail, ~MayErase
  PROVE  Spec => []OneIdOnePunch
<1>0. CountsStand
  BY DEF CountsStand
<1>1. TypeOK /\ IInv /\ IdInv => OneIdOnePunch
  BY IdsAreIssued DEF IdInv, IdsApart, NoHole, OneIdOnePunch
<1> QED
  BY <1>0, <1>1, IdInvariant, PTL
-----------------------------------------------------------------------------
(* The punches whose record is whole in some file, ahead of the cursor or not. *)
OnFlash ==
  {p \in Nat : \E f \in FileIds : \E i \in 1..Len(cells[f]) :
                 IsRecord(f, i) /\ cells[f][i].punch = p}

(* What a message is made of stays on flash until the broker has the message. *)
WireWritten ==
  \A m \in Message :
    m \in wire \/ (pc # "idle" /\ m = holding) =>
      m.punch \in OnFlash \cup Delivered \cup rotted

(* Whole behind the cursor is delivered, so the cursor may be forgotten. *)
LEMMA QueuedIsOnFlash ==
  ASSUME TypeOK, IInv
  PROVE  Queued \cup Delivered = OnFlash \cup Delivered
<1>1. ASSUME NEW p \in Queued PROVE p \in OnFlash
  <2>1. PICK f \in FileIds : p \in {cells[f][i].punch : i \in Waiting(f)}
    BY <1>1 DEF Queued
  <2>2. PICK i \in Waiting(f) : p = cells[f][i].punch
    BY <2>1
  <2>3. i \in 1..Len(cells[f]) /\ IsRecord(f, i) /\ cells[f][i] \in Cell
    BY <2>2 DEF Waiting, TypeOK
  <2> QED
    BY <2>2, <2>3 DEF OnFlash, Cell
<1>2. ASSUME NEW p \in OnFlash, p \notin Delivered PROVE p \in Queued
  <2>1. PICK f \in FileIds :
          \E i \in 1..Len(cells[f]) : IsRecord(f, i) /\ cells[f][i].punch = p
    BY <1>2 DEF OnFlash
  <2>2. PICK i \in 1..Len(cells[f]) : IsRecord(f, i) /\ cells[f][i].punch = p
    BY <2>1
  <2>3. i \in Waiting(f)
    BY <1>2, <2>2 DEF IInv, BehindTheCursor, Waiting
  <2> QED
    BY <2>2, <2>3 DEF Queued
<1> QED
  BY <1>1, <1>2

(* The books, without the cursor. *)
LEMMA Books ==
  TypeOK /\ IInv =>
    Underway \ rotted = ((OnFlash \cup Delivered) \ (Kept \cup Refused)) \ rotted
  BY QueuedIsOnFlash DEF Underway, Delivered

(* A punch on flash has its message issued. *)
LEMMA OnFlashIsIssued ==
  ASSUME TypeOK, NEW p \in OnFlash
  PROVE  \E m \in Issued : m.punch = p
<1>1. PICK f \in FileIds :
        \E i \in 1..Len(cells[f]) : IsRecord(f, i) /\ cells[f][i].punch = p
  BY DEF OnFlash
<1>2. PICK i \in 1..Len(cells[f]) : IsRecord(f, i) /\ cells[f][i].punch = p
  BY <1>1
<1>3. cells[f][i] \in Cell
  BY DEF TypeOK
<1>4. PICK m : m = IdOf(cells[f][i])
  OBVIOUS
<1>5. m \in Message /\ m.punch = p
  BY <1>2, <1>3, <1>4 DEF IdOf, Cell, Message
<1> QED
  BY <1>4, <1>5 DEF Issued, Logged

(* Dropping what lies below an acknowledged cursor takes nothing off the books. *)
LEMMA DropKeepsTheBooks ==
  ASSUME TypeOK, IInv, NEW below \in Nat,
         below = 0 \/ (pc = "acked" /\ below <= next.file),
         files' = files \ Synced(below),
         cells' = [f \in FileIds |-> IF f \in Synced(below) THEN <<>> ELSE cells[f]],
         UNCHANGED accepted
  PROVE  OnFlash' \cup Delivered' = OnFlash \cup Delivered
<1>1. next.file \in FileIds /\ Delivered' = Delivered
  BY DEF TypeOK, Cursor, Delivered
<1>2. \A f \in Synced(below) : below # 0 /\ f < below
  BY DEF Synced, TypeOK, FileIds
<1>3. \A f \in FileIds : \A i \in 1..Len(cells'[f]) :
        /\ f \notin Synced(below) /\ cells'[f] = cells[f] /\ i \in 1..Len(cells[f])
        /\ IsRecord(f, i)' <=> IsRecord(f, i)
  BY DEF IsRecord, TypeOK
<1>4. OnFlash' \subseteq OnFlash
  BY <1>3 DEF OnFlash
<1>5. ASSUME NEW p \in OnFlash, p \notin Delivered PROVE p \in OnFlash'
  <2>1. PICK f \in FileIds :
          \E i \in 1..Len(cells[f]) : IsRecord(f, i) /\ cells[f][i].punch = p
    BY DEF OnFlash
  <2>2. PICK i \in 1..Len(cells[f]) : IsRecord(f, i) /\ cells[f][i].punch = p
    BY <2>1
  <2>3. f \notin Synced(below)
    <3>1. SUFFICES ASSUME f \in Synced(below) PROVE FALSE
      OBVIOUS
    <3>2. pc = "acked" /\ f < next.file
      BY <1>1, <1>2, <3>1 DEF FileIds
    <3>3. ~Ahead(f, i, next)
      BY <1>1, <3>2 DEF Ahead, FileIds
    <3> QED
      BY <1>5, <2>2, <3>2, <3>3 DEF IInv, BehindTheNext, Acknowledged, Delivered
  <2>4. i \in 1..Len(cells'[f]) /\ cells'[f][i].punch = p /\ IsRecord(f, i)'
    BY <2>2, <2>3, <1>3
  <2> QED
    BY <2>4 DEF OnFlash
<1> QED
  BY <1>1, <1>4, <1>5

(* What the steps do to the whole records and to what the broker has. *)
LEMMA OnFlashSteps ==
  ASSUME TypeOK, IInv, [Next]_vars, ~EraseFlash
  PROVE  \/ OnFlash' \cup Delivered' = OnFlash \cup Delivered /\ (punches' = punches \/ Punching)
         \/ AppendRecord /\ OnFlash' \cup Delivered' = OnFlash \cup Delivered \cup {punches + 1}
         \/ \E m \in wire : BrokerTakes(m)
         \/ Rot
<1> USE DEF flash, ram, ghosts, backend
<1>s. ASSUME UNCHANGED <<files, cells, accepted>>
      PROVE  OnFlash' \cup Delivered' = OnFlash \cup Delivered
  BY <1>s DEF OnFlash, IsRecord, Delivered
<1>1. CASE AppendRecord
  <2>1. PICK f \in FileIds :
          /\ files' = files \cup {f}
          /\ cells' = [cells EXCEPT ![f] = Append(cells[f],
               [boot |-> boot, seq |-> seq', punch |-> punches', whole |-> ~TailLeft(f)])]
    BY <1>1 DEF AppendRecord
  <2>2. PICK new : new = [boot |-> boot, seq |-> seq', punch |-> punches', whole |-> TRUE]
    OBVIOUS
  <2>3. /\ seq' = seq + 1 /\ punches' = punches + 1 /\ UNCHANGED accepted
    BY <1>1 DEF AppendRecord, Punching
  <2>4. new \in Cell /\ new.whole /\ new.punch = punches + 1
    BY <2>2, <2>3 DEF TypeOK, Cell
  <2>5. cells' = [cells EXCEPT ![f] = Append(cells[f], new)]
    BY <2>1, <2>2 DEF TailLeft
  <2>6. /\ cells[f] \in Seq(Cell)
        /\ Len(cells'[f]) = Len(cells[f]) + 1 /\ cells'[f][Len(cells[f]) + 1] = new
        /\ \A i \in 1..Len(cells[f]) : cells'[f][i] = cells[f][i]
        /\ \A g \in FileIds : g # f => cells'[g] = cells[g]
    BY <2>4, <2>5 DEF TypeOK
  <2>7. Delivered' = Delivered
    BY <2>3 DEF Delivered
  <2>8. punches + 1 \in OnFlash'
    <3>1. PICK last : last = Len(cells[f]) + 1
      OBVIOUS
    <3>2. last \in 1..Len(cells'[f]) /\ cells'[f][last] = new
      BY <2>6, <3>1
    <3>3. IsRecord(f, last)'
      BY <2>1, <2>4, <3>2 DEF IsRecord
    <3>4. PICK q : q = punches + 1
      OBVIOUS
    <3>5. q \in Nat /\ cells'[f][last].punch = q
      BY <2>4, <3>2, <3>4 DEF TypeOK
    <3>6. q \in OnFlash'
      BY <3>2, <3>3, <3>5 DEF OnFlash
    <3> QED
      BY <3>4, <3>6
  <2>9. OnFlash \subseteq OnFlash'
    <3> SUFFICES ASSUME NEW p \in OnFlash PROVE p \in OnFlash'
      OBVIOUS
    <3>1. PICK g \in FileIds :
            \E i \in 1..Len(cells[g]) : IsRecord(g, i) /\ cells[g][i].punch = p
      BY DEF OnFlash
    <3>2. PICK i \in 1..Len(cells[g]) : IsRecord(g, i) /\ cells[g][i].punch = p
      BY <3>1
    <3>3. i \in 1..Len(cells'[g]) /\ cells'[g][i] = cells[g][i]
      BY <2>6, <3>2
    <3>4. IsRecord(g, i)'
      BY <2>1, <3>2, <3>3 DEF IsRecord
    <3> QED
      BY <3>2, <3>3, <3>4 DEF OnFlash
  <2>10. ASSUME NEW p \in OnFlash', p # punches + 1 PROVE p \in OnFlash
    <3>1. PICK g \in FileIds :
            \E i \in 1..Len(cells'[g]) : IsRecord(g, i)' /\ cells'[g][i].punch = p
      BY <2>10 DEF OnFlash
    <3>2. PICK i \in 1..Len(cells'[g]) : IsRecord(g, i)' /\ cells'[g][i].punch = p
      BY <3>1
    <3>3. ~(g = f /\ i = Len(cells[f]) + 1)
      BY <2>4, <2>6, <2>10, <3>2
    <3>4. i \in 1..Len(cells[g]) /\ cells'[g][i] = cells[g][i]
      BY <2>6, <3>2, <3>3
    <3>5. cells[g] \in Seq(Cell)
      BY DEF TypeOK
    <3>6. g \in files
      BY <3>4, <3>5 DEF IInv, LogInPlace
    <3>7. IsRecord(g, i)
      BY <3>2, <3>4, <3>6 DEF IsRecord
    <3> QED
      BY <3>2, <3>4, <3>7 DEF OnFlash
  <2> QED
    BY <1>1, <2>7, <2>8, <2>9, <2>10
<1>2. CASE AppendFails
  <2>1. UNCHANGED <<cells, accepted>> /\ files \subseteq files' /\ Punching
    BY <1>2 DEF AppendFails
  <2>2. \A f \in FileIds : \A i \in 1..Len(cells[f]) : IsRecord(f, i)' <=> IsRecord(f, i)
    <3> SUFFICES ASSUME NEW f \in FileIds, NEW i \in 1..Len(cells[f])
                 PROVE  IsRecord(f, i)' <=> IsRecord(f, i)
      OBVIOUS
    <3>1. f \in files /\ f \in files'
      BY <2>1 DEF IInv, LogInPlace, TypeOK
    <3> QED
      BY <2>1, <3>1 DEF IsRecord
  <2> QED
    BY <2>1, <2>2 DEF OnFlash, Delivered
<1>3. CASE ReadNext BY <1>3, <1>s DEF ReadNext
<1>4. CASE Send BY <1>4, <1>s DEF Send
<1>5. CASE Acked BY <1>5, <1>s DEF Acked
<1>6. CASE GiveUp BY <1>6, <1>s DEF GiveUp
<1>7. CASE MoveCursor
  <2>1. PICK below \in Nat :
          /\ below = 0 \/ (pc = "acked" /\ below <= next.file)
          /\ files' = files \ Synced(below)
          /\ cells' = [f \in FileIds |-> IF f \in Synced(below) THEN <<>> ELSE cells[f]]
    <3>1. pc = "acked" /\ next.file \in Nat
      BY <1>7 DEF MoveCursor, TypeOK, Cursor, FileIds
    <3>2. 0 \in Nat /\ next.file <= next.file
      BY <3>1
    <3>3. CASE cursor' = Finished(next) /\ files' = files \ Synced(next.file)
            /\ cells' = [f \in FileIds |-> IF f \in Synced(next.file) THEN <<>> ELSE cells[f]]
      BY <3>1, <3>2, <3>3
    <3>4. CASE UNCHANGED <<files, cells>>
      BY <3>2, <3>4, NothingSynced
    <3> QED
      BY <1>7, <3>3, <3>4 DEF MoveCursor
  <2> QED
    BY <1>7, <2>1, DropKeepsTheBooks DEF MoveCursor
<1>8. CASE Accept BY <1>8 DEF Accept
<1>9. CASE Handle BY <1>9, <1>s DEF Handle, Settle
<1>10. CASE Collect BY <1>10, <1>s DEF Collect
<1>11. CASE BootCounts BY <1>11, <1>s DEF BootCounts
<1>12. CASE BootFiles BY <1>12, <1>s DEF BootFiles
<1>13. CASE PowerCut
  <2>1. PICK below \in IF pc = "acked" /\ cursor' = Finished(next) THEN 0..next.file ELSE {0} :
          /\ files' = files \ Synced(below)
          /\ cells' = [f \in FileIds |-> IF f \in Synced(below) THEN <<>> ELSE cells[f]]
    BY <1>13 DEF PowerCut
  <2>2. below \in Nat /\ (below = 0 \/ (pc = "acked" /\ below <= next.file))
    BY <2>1 DEF TypeOK, Cursor, FileIds
  <2> QED
    BY <1>13, <2>1, <2>2, DropKeepsTheBooks DEF PowerCut
<1>14. CASE Rot BY <1>14
<1>16. CASE UNCHANGED vars BY <1>16, <1>s DEF vars
<1> QED
  BY <1>1, <1>2, <1>3, <1>4, <1>5, <1>6, <1>7, <1>8, <1>9, <1>10, <1>11, <1>12,
     <1>13, <1>14, <1>16 DEF Next

(* A record that rots leaves the whole ones, and no other does. *)
LEMMA RotSteps ==
  ASSUME TypeOK, Rot
  PROVE  \E p \in OnFlash :
           /\ rotted' = rotted \cup {p} /\ Cardinality(rotted) < MaxRot
           /\ OnFlash' \subseteq OnFlash /\ OnFlash \subseteq OnFlash' \cup {p}
           /\ UNCHANGED <<accepted, server, refused, punches, wire, pc, holding>>
<1>1. PICK f \in files, i \in 1..FileCap :
        /\ IsRecord(f, i)
        /\ cells' = [cells EXCEPT ![f] = [cells[f] EXCEPT ![i] = Spoilt(cells[f][i])]]
        /\ rotted' = rotted \cup {cells[f][i].punch}
  BY DEF Rot
<1>2. f \in FileIds /\ i \in 1..Len(cells[f]) /\ cells[f] \in Seq(Cell)
  BY <1>1 DEF TypeOK, IsRecord
<1>3. cells[f][i] \in Cell
  BY <1>2
<1>4. PICK p : p = cells[f][i].punch
  OBVIOUS
<1>5. p \in OnFlash
  BY <1>1, <1>2, <1>3, <1>4 DEF OnFlash, Cell
<1>6. /\ \A g \in FileIds : Len(cells'[g]) = Len(cells[g])
      /\ \A g \in FileIds : \A j \in 1..Len(cells[g]) :
           cells'[g][j] = IF g = f /\ j = i THEN Spoilt(cells[f][i]) ELSE cells[g][j]
  BY <1>1, <1>2 DEF TypeOK
<1>7. Spoilt(cells[f][i]).whole = FALSE
  BY <1>3 DEF Spoilt, Cell
<1>8. UNCHANGED <<files, accepted, server, refused, punches, wire, pc, holding>>
  BY DEF Rot, ram, backend
<1>9. \A g \in FileIds : \A j \in 1..Len(cells[g]) :
        IsRecord(g, j)' <=> IsRecord(g, j) /\ ~(g = f /\ j = i)
  BY <1>6, <1>7, <1>8 DEF IsRecord
<1>10. OnFlash' \subseteq OnFlash
  <2> SUFFICES ASSUME NEW q \in OnFlash' PROVE q \in OnFlash
    OBVIOUS
  <2>1. PICK g \in FileIds :
          \E j \in 1..Len(cells'[g]) : IsRecord(g, j)' /\ cells'[g][j].punch = q
    BY DEF OnFlash
  <2>2. PICK j \in 1..Len(cells[g]) : IsRecord(g, j)' /\ cells'[g][j].punch = q
    BY <1>6, <2>1
  <2>3. IsRecord(g, j) /\ cells[g][j].punch = q
    BY <1>6, <1>9, <2>2
  <2> QED
    BY <2>3 DEF OnFlash
<1>11. OnFlash \subseteq OnFlash' \cup {p}
  <2> SUFFICES ASSUME NEW q \in OnFlash, q # p PROVE q \in OnFlash'
    OBVIOUS
  <2>1. PICK g \in FileIds :
          \E j \in 1..Len(cells[g]) : IsRecord(g, j) /\ cells[g][j].punch = q
    BY DEF OnFlash
  <2>2. PICK j \in 1..Len(cells[g]) : IsRecord(g, j) /\ cells[g][j].punch = q
    BY <2>1
  <2>3. ~(g = f /\ j = i)
    BY <1>4, <2>2
  <2>4. j \in 1..Len(cells'[g]) /\ IsRecord(g, j)' /\ cells'[g][j].punch = q
    BY <1>6, <1>9, <2>2, <2>3
  <2> QED
    BY <2>4 DEF OnFlash
<1> QED
  BY <1>1, <1>4, <1>5, <1>8, <1>10, <1>11 DEF Rot

(* Only the backend's handler and the bench change what the backend answered,  *)
(* and only rot what flash lost.                                               *)
LEMMA BackendSteps ==
  ASSUME [Next]_vars, ~EraseFlash
  PROVE  /\ Handle \/ UNCHANGED <<server, refused>>
         /\ Rot \/ UNCHANGED rotted
<1> USE DEF flash, ram, ghosts, backend
<1>1. \/ AppendRecord \/ AppendFails \/ ReadNext \/ Send \/ Acked \/ GiveUp \/ MoveCursor
      \/ Accept \/ Collect \/ BootCounts \/ BootFiles \/ PowerCut \/ UNCHANGED vars
      => UNCHANGED <<server, refused, rotted>>
  BY DEF AppendRecord, AppendFails, ReadNext, Send, Acked, GiveUp, MoveCursor, Accept, BrokerTakes,
         Collect, BootCounts, BootFiles, PowerCut, vars
<1>2. Handle => UNCHANGED rotted
  BY DEF Handle, Settle
<1>3. Rot => UNCHANGED <<server, refused>>
  BY DEF Rot
<1> QED
  BY <1>1, <1>2, <1>3 DEF Next

(* What is with the link, or in the hands of the drain, came from flash. *)
LEMMA HandedOn ==
  ASSUME TypeOK, [Next]_vars, NEW m \in Message, m \in wire' \/ (pc' # "idle" /\ m = holding')
  PROVE  m \in wire \/ (pc # "idle" /\ m = holding) \/ m.punch \in OnFlash
<1> USE DEF flash, ram, ghosts, backend
<1>1. CASE ReadNext
  <2>1. PICK f \in FileIds, i \in 1..FileCap :
          /\ IsNext(f, i, cursor.val)
          /\ holding' = [boot |-> cells[f][i].boot, seq |-> cells[f][i].seq,
                         punch |-> cells[f][i].punch]
    BY <1>1 DEF ReadNext
  <2>2. i \in 1..Len(cells[f]) /\ IsRecord(f, i)
    BY <2>1 DEF IsNext, IsRecord
  <2>3. cells[f][i] \in Cell
    BY <2>2 DEF TypeOK
  <2>4. holding'.punch = cells[f][i].punch /\ cells[f][i].punch \in Nat
    BY <2>1, <2>3 DEF Cell
  <2>5. cells[f][i].punch \in OnFlash
    BY <2>2, <2>4 DEF OnFlash
  <2>6. UNCHANGED wire
    BY <1>1 DEF ReadNext
  <2> QED
    BY <2>4, <2>5, <2>6
<1>2. CASE Send
  BY <1>2 DEF Send
<1>3. \/ AppendRecord \/ AppendFails \/ Acked \/ GiveUp \/ MoveCursor
      \/ Accept \/ Handle \/ Collect \/ BootCounts \/ BootFiles \/ PowerCut \/ Rot \/ EraseFlash
      \/ UNCHANGED vars
      => wire' \subseteq wire /\ (pc' # "idle" => pc # "idle" /\ holding' = holding)
  BY DEF AppendRecord, AppendFails, Acked, GiveUp, MoveCursor, Return, Accept, BrokerTakes,
         Handle, Settle, Collect, BootCounts, BootFiles, PowerCut, Rot, EraseFlash, vars
<1> QED
  BY <1>1, <1>2, <1>3 DEF Next

(* Whole records go only with their punch delivered or rotted. *)
LEMMA WireWrittenNext ==
  ASSUME TypeOK, IInv, WireWritten, [Next]_vars
  PROVE  WireWritten'
<1>1. CASE EraseFlash
  <2>1. wire' = {} /\ pc' = "idle"
    BY <1>1 DEF EraseFlash, ram, IInv, LogInPlace
  <2> QED
    BY <2>1 DEF WireWritten
<1>2. CASE ~EraseFlash
  <2>1. OnFlash \cup Delivered \cup rotted \subseteq OnFlash' \cup Delivered' \cup rotted'
    <3>1. CASE Rot
      <4>1. Delivered' = Delivered
        BY <3>1, RotSteps DEF Delivered
      <4> QED
        BY <3>1, <4>1, RotSteps
    <3>2. CASE ~Rot
      <4>1. rotted' = rotted
        BY <1>2, <3>2, BackendSteps
      <4>2. ASSUME NEW m \in wire, BrokerTakes(m) PROVE OnFlash' = OnFlash /\ Delivered \subseteq Delivered'
        BY <4>2 DEF BrokerTakes, flash, OnFlash, IsRecord, Delivered
      <4> QED
        BY <1>2, <3>2, <4>1, <4>2, OnFlashSteps
    <3> QED
      BY <3>1, <3>2
  <2> QED
    BY <2>1, HandedOn DEF WireWritten
<1> QED
  BY <1>1, <1>2

(* The backend answers for one punch at a time, and one it has no row of. *)
LEMMA HandleSteps ==
  ASSUME TypeOK, PunchesApart, Handle
  PROVE  \/ Kept' = Kept /\ Refused' = Refused
         \/ \E p \in (1..punches) \ Kept :
              \/ Kept' = Kept \cup {p} /\ Refused' = Refused \ {p}
              \/ Kept' = Kept /\ Refused' = Refused \cup {p}
<1>1. PICK m \in accepted :
        \/ server' = Stored(m) /\ UNCHANGED refused
        \/ ~Known(m) /\ refused' = refused \cup {m} /\ UNCHANGED server
  BY DEF Handle, Settle
<1>2. CASE Known(m)
  <2>1. server' = server /\ refused' = refused
    BY <1>1, <1>2 DEF Stored
  <2> QED
    BY <2>1 DEF Kept, Refused
<1>3. CASE ~Known(m)
  <2>1. m \in Issued /\ server \subseteq Issued
    BY DEF TypeOK, Issued
  <2>2. PICK p : p = m.punch
    OBVIOUS
  <2>3. p \in 1..punches
    BY <2>1, <2>2 DEF PunchesApart
  <2>4. p \notin Kept
    <3> SUFFICES ASSUME NEW r \in server, r.punch = p PROVE FALSE
      BY DEF Kept
    <3>1. r = m
      BY <2>1, <2>2 DEF PunchesApart
    <3> QED
      BY <1>3, <3>1 DEF Known
  <2>5. CASE server' = Stored(m) /\ UNCHANGED refused
    <3>1. server' = server \cup {m}
      BY <1>3, <2>5 DEF Stored
    <3>2. Kept' = Kept \cup {p}
      BY <2>2, <3>1 DEF Kept
    <3>3. Refused' = Refused \ {p}
      BY <2>5, <3>2 DEF Refused
    <3> QED
      BY <2>3, <2>4, <3>2, <3>3
  <2>6. CASE refused' = refused \cup {m} /\ UNCHANGED server
    <3>1. Kept' = Kept
      BY <2>6 DEF Kept
    <3>2. Refused' = Refused \cup {p}
      BY <2>2, <2>4, <2>6, <3>1 DEF Refused
    <3> QED
      BY <2>3, <2>4, <3>1, <3>2
  <2> QED
    BY <1>1, <1>3, <2>5, <2>6
<1> QED
  BY <1>2, <1>3

(* Each step of the log, but erase-flash, is one of the ledger or none of it.  *)
LEMMA LedgerStep ==
  ASSUME TypeOK, TypeOK', IInv, IInv', PunchesApart, WireWritten, [Next]_vars, ~EraseFlash
  PROVE  [Ledger!Next]_(Ledger!ledger)
<1> DEFINE owed == Underway \ rotted
           there == OnFlash \cup Delivered
<1>1. /\ owed = (there \ (Kept \cup Refused)) \ rotted
      /\ owed' = (there' \ (Kept' \cup Refused')) \ rotted'
  <2>1. (TypeOK /\ IInv => owed = (there \ (Kept \cup Refused)) \ rotted)'
    BY Books, PTL
  <2> QED
    BY <2>1, Books
<1> HIDE DEF owed, there
<1>2. CASE Handle
  <2>1. /\ there' = there /\ UNCHANGED <<punches, rotted>>
    BY <1>2 DEF there, Handle, Settle, flash, ghosts, OnFlash, IsRecord, Delivered
  <2>2. CASE Kept' = Kept /\ Refused' = Refused
    <3>1. owed' = owed
      BY <1>1, <2>1, <2>2
    <3> QED
      BY <2>1, <2>2, <3>1 DEF owed, Ledger!ledger
  <2>3. ASSUME NEW p \in (1..punches) \ Kept, Kept' = Kept \cup {p} /\ Refused' = Refused \ {p}
        PROVE  Ledger!Keep
    <3>1. owed' = owed \ {p}
      BY <1>1, <2>1, <2>3
    <3> QED
      BY <2>1, <2>3, <3>1 DEF owed, Ledger!Keep
  <2>4. ASSUME NEW p \in (1..punches) \ Kept, Kept' = Kept /\ Refused' = Refused \cup {p}
        PROVE  Ledger!Refuse
    <3>1. owed' = owed \ {p}
      BY <1>1, <2>1, <2>4
    <3> QED
      BY <2>1, <2>4, <3>1 DEF owed, Ledger!Refuse
  <2> QED
    BY <1>2, <2>2, <2>3, <2>4, HandleSteps DEF Ledger!Next
<1>3. CASE ~Handle
  <2>1. UNCHANGED <<server, refused>>
    BY <1>3, BackendSteps
  <2>2. Kept' = Kept /\ Refused' = Refused
    BY <2>1 DEF Kept, Refused
  <2>3. CASE Rot
    <3>1. PICK p \in OnFlash :
            /\ rotted' = rotted \cup {p} /\ Cardinality(rotted) < MaxRot
            /\ OnFlash' \subseteq OnFlash /\ OnFlash \subseteq OnFlash' \cup {p}
            /\ UNCHANGED <<accepted, punches>>
      BY <2>3, RotSteps
    <3>2. p \in 1..punches
      BY OnFlashIsIssued DEF PunchesApart
    <3>3. owed' = owed \ {p}
      <4>1. Delivered' = Delivered
        BY <3>1 DEF Delivered
      <4>2. there' \subseteq there /\ there \subseteq there' \cup {p}
        BY <3>1, <4>1 DEF there
      <4> QED
        BY <1>1, <2>2, <3>1, <4>2
    <3>4. CASE p \in rotted
      <4>1. rotted' = rotted /\ owed' = owed
        BY <1>1, <3>1, <3>3, <3>4
      <4> QED
        BY <2>2, <3>1, <4>1 DEF owed, Ledger!ledger
    <3>5. CASE p \notin rotted
      <4>0. Ledger!Cardinality(rotted) = Cardinality(rotted)
        BY DEF Ledger!Cardinality, Cardinality
      <4>1. Ledger!Forget
        BY <4>0, <2>2, <3>1, <3>2, <3>3, <3>5 DEF owed, Ledger!Forget
      <4> QED
        BY <4>1 DEF Ledger!Next
    <3> QED
      BY <3>4, <3>5
  <2>4. CASE ~Rot
    <3>1. rotted' = rotted
      BY <2>4, BackendSteps
    <3>2. CASE there' = there /\ punches' = punches
      <4>1. owed' = owed
        BY <1>1, <2>2, <3>1, <3>2
      <4> QED
        BY <2>2, <3>1, <3>2, <4>1 DEF owed, Ledger!ledger
    <3>3. CASE there' \in {there, there \cup {punches'}} /\ Punching
      <4>1. owed' \in {owed, owed \cup {punches'}}
        <5>1. CASE there' = there \/ punches' \in Kept \cup Refused \cup rotted
          BY <1>1, <2>2, <3>1, <3>3, <5>1
        <5>2. CASE there' = there \cup {punches'} /\ punches' \notin Kept \cup Refused \cup rotted
          BY <1>1, <2>2, <3>1, <5>2
        <5> QED
          BY <3>3, <5>1, <5>2
      <4>2. punches < MaxPunches /\ punches' = punches + 1
        BY <3>3 DEF Punching
      <4> QED
        BY <2>2, <3>1, <4>1, <4>2 DEF owed, Ledger!Next, Ledger!Take
    <3>4. ASSUME NEW m \in wire, BrokerTakes(m)
          PROVE  UNCHANGED <<owed, punches>>
      <4>1. OnFlash' = OnFlash /\ Delivered' = Delivered \cup {m.punch} /\ punches' = punches
        BY <3>4 DEF BrokerTakes, flash, ghosts, OnFlash, IsRecord, Delivered
      <4>2. m.punch \in there \cup rotted
        BY DEF WireWritten, TypeOK, there
      <4>3. there' = there \cup {m.punch}
        BY <4>1 DEF there
      <4> QED
        BY <1>1, <2>2, <3>1, <4>1, <4>2, <4>3
    <3>5. AppendRecord => Punching /\ punches' = punches + 1
      BY DEF AppendRecord, Punching
    <3>6. CASE \E m \in wire : BrokerTakes(m)
      BY <2>2, <3>1, <3>4, <3>6 DEF owed, Ledger!ledger
    <3> QED
      BY <2>4, <3>2, <3>3, <3>5, <3>6, OnFlashSteps DEF there
  <2> QED
    BY <2>3, <2>4
<1> QED
  BY <1>2, <1>3

(* Nothing is owed by a kiosk out of the box. *)
LEMMA LedgerInit == Init => Ledger!Init /\ WireWritten
<1> SUFFICES ASSUME Init PROVE Ledger!Init /\ WireWritten
  OBVIOUS
<1>1. Queued = {}
  BY DEF Init, Queued, Waiting, IsRecord
<1> QED
  BY <1>1 DEF Init, Ledger!Init, Underway, Kept, Refused, WireWritten

(* The log of the kiosk, the broker's session and record of the backend do     *)
(* with a punch what the ledger says, as long as nobody erases the flash at    *)
(* the bench: on the books until kept or refused, kept once, and off them      *)
(* earlier only by losing its bytes.                                           *)
THEOREM LogKeepsTheLedger ==
  ASSUME ~MayErase
  PROVE  Spec => LedgerSteps
<1> DEFINE Inv == TypeOK /\ IInv /\ PunchesApart /\ WireWritten
<1>1. Init => Inv /\ Ledger!Init
  BY TypeInit, InitIInv, IdInit, LedgerInit
<1>2. Inv /\ [Next]_vars => Inv'
  BY TypeNext, NextIInv, PunchesApartNext, WireWrittenNext
<1>3. ~EraseFlash
  BY DEF EraseFlash
<1>4. Inv /\ Inv' /\ [Next]_vars => [Ledger!Next]_(Ledger!ledger)
  BY <1>3, LedgerStep
<1> HIDE DEF Inv
<1> QED
  BY <1>1, <1>2, <1>4, PTL DEF Spec, LedgerSteps, Ledger!Spec
=============================================================================
