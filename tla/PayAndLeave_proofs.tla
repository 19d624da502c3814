------------------------ MODULE PayAndLeave_proofs ------------------------
(* Proofs of the properties of LeaveBalance and of Payroll, each for any values of its   *)
(* constants: leave first, then pay.                                                     *)
EXTENDS LeaveBalance, Payroll, FiniteSetTheorems, WellFoundedInduction, TLAPS

(* A filing under way is at a year whose row it has, once ensured, and holds those before. *)
FiledOne(d) ==
  filing[d].next # "none" =>
    /\ filing[d].year \in Years
    /\ filing[d].next \in {"carry", "hold"} => kept[filing[d].year].made \/ holder[filing[d].year] = Files(d)
    /\ \A z \in YearsOf(KeyOf[d]) : filing[d].next = "create" \/ z < filing[d].year => holder[z] = Files(d)
Filed == \A d \in Deliveries : FiledOne(d)

(* Only a waiting request is decided, and its years have their rows. *)
DecidedOne(k) ==
  /\ deciding[k].years \subseteq YearsOf(k)
  /\ deciding[k] # Undecided => request[k] = "PENDING" /\ deciding[k].to # "none"
  /\ request[k] # "none" => \A y \in YearsOf(k) : kept[y].made
Decided == \A k \in Keys : DecidedOne(k)

(* A row nobody holds is the committed one; one nobody made is empty and held by nobody. *)
Committed ==
  \A y \in Years :
    /\ holder[y] = Free => row[y] = kept[y]
    /\ kept[y].made => row[y].made
    /\ ~row[y].made => row[y] = NoBalance /\ holder[y] = Free
    /\ ~kept[y].made => kept[y] = NoBalance

(* What left year 1 came to year 2, in the rows as in the committed ones, and a transaction *)
(* that holds one of the two has not moved it.                                              *)
Moved(r) == r[2].over = r[1].out /\ (~r[1].closed => r[1].out = 0)
Carried ==
  /\ Moved(row) /\ Moved(kept)
  /\ holder[1] # holder[2] =>
       row[1].out = kept[1].out /\ row[1].closed = kept[1].closed /\ row[2].over = kept[2].over

(* Sound rows: nothing overdrawn, nothing carried out below zero. *)
Sound(b) == b.out >= 0 /\ (paid => FreeDays(b) >= 0)
RowsSound == \A y \in Years : Sound(row[y]) /\ Sound(kept[y])

USE LeaveAssumption

(* The transactions, and what a row may hold. *)
Transactions == {Free, Opens} \cup {Files(d) : d \in Deliveries} \cup {Decides(k) : k \in Keys}
RowType ==
  /\ row \in [Years -> Balance] /\ kept \in [Years -> Balance] /\ holder \in [Years -> Transactions]

-----------------------------------------------------------------------------
(* The statements of a transaction. *)

(* The transactions are told apart. *)
LEMMA Apart ==
  /\ \A d \in Deliveries : Files(d) # Free /\ Files(d) # Opens
  /\ \A d, e \in Deliveries : Files(d) = Files(e) => d = e
  /\ \A k \in Keys : Decides(k) # Free /\ \A d \in Deliveries : Decides(k) # Files(d)
  /\ Opens # Free
  BY DEF Files, Free, Opens, Decides

(* The rows: of their type, sound, committed as held, and what was carried moved once. *)
RowsHold == RowType /\ RowsSound /\ Committed /\ Carried

(* What a transaction that goes on, or ends, does to what others hold. *)
GoesOn(who) ==
  /\ UNCHANGED kept
  /\ \A y \in Years : holder'[y] \in {holder[y], who} /\ (holder[y] # Free => holder'[y] = holder[y])
Ends(who) ==
  /\ \A y \in Years : kept[y].made => kept'[y].made
  /\ \A y \in Years : holder[y] # who => holder'[y] = holder[y]

(* A commit makes the rows of its transaction the committed ones. *)
LEMMA KeepRows ==
  ASSUME NEW who \in Transactions, RowsHold, UNCHANGED paid, Keep(who)
  PROVE  RowsHold' /\ Ends(who) /\ \A y \in Years : holder[y] = who => kept'[y] = row[y]
<1> USE DEF RowsHold
<1>1. /\ row' = row /\ who \in Transactions
      /\ kept' = [y \in Years |-> IF holder[y] = who THEN row[y] ELSE kept[y]]
      /\ holder' = [y \in Years |-> IF holder[y] = who THEN Free ELSE holder[y]]
  BY DEF Keep
<1>2. RowType'
  BY <1>1 DEF RowType, Transactions
<1>3. ASSUME NEW y \in Years PROVE Sound(kept[y])' /\ Sound(row[y])'
  <2>1. Sound(row[y]) /\ Sound(kept[y]) /\ row' = row /\ paid' = paid
    BY <1>1 DEF RowsSound
  <2>2. CASE kept'[y] = row[y]
    BY <2>1, <2>2 DEF Sound, FreeDays
  <2>3. CASE kept'[y] = kept[y]
    BY <2>1, <2>3 DEF Sound, FreeDays
  <2> QED
    BY <1>1, <2>2, <2>3
<1>4. Committed' /\ Ends(who)
  BY <1>1 DEF Committed, Ends
<1>5. Carried'
  BY <1>1 DEF Committed, Carried, Moved, Years
<1> QED
  BY <1>1, <1>2, <1>3, <1>4, <1>5 DEF RowsSound

(* A rollback leaves the committed rows as they were. *)
LEMMA RollBackRows ==
  ASSUME NEW who \in Transactions, RowsHold, UNCHANGED paid, RollBack(who)
  PROVE  RowsHold' /\ Ends(who) /\ kept' = kept
<1> USE DEF RowsHold
<1>1. /\ kept' = kept /\ who \in Transactions
      /\ row' = [y \in Years |-> IF holder[y] = who THEN kept[y] ELSE row[y]]
      /\ holder' = [y \in Years |-> IF holder[y] = who THEN Free ELSE holder[y]]
  BY DEF RollBack
<1>2. RowType'
  BY <1>1 DEF RowType, Transactions
<1>3. ASSUME NEW y \in Years PROVE Sound(kept[y])' /\ Sound(row[y])'
  <2>1. Sound(row[y]) /\ Sound(kept[y]) /\ kept' = kept /\ paid' = paid
    BY <1>1 DEF RowsSound
  <2>2. CASE row'[y] = row[y]
    BY <2>1, <2>2 DEF Sound, FreeDays
  <2>3. CASE row'[y] = kept[y]
    BY <2>1, <2>3 DEF Sound, FreeDays
  <2> QED
    BY <1>1, <2>2, <2>3
<1>4. Committed'
  <2> SUFFICES ASSUME NEW y \in Years
               PROVE  /\ holder'[y] = Free => row'[y] = kept'[y]
                      /\ kept'[y].made => row'[y].made
                      /\ ~row'[y].made => row'[y] = NoBalance /\ holder'[y] = Free
                      /\ ~kept'[y].made => kept'[y] = NoBalance
    BY DEF Committed
  <2>1. CASE holder[y] = who /\ kept[y].made
    BY <1>1, <2>1 DEF Committed
  <2>2. CASE holder[y] = who /\ ~kept[y].made
    BY <1>1, <2>2 DEF Committed
  <2>3. CASE holder[y] # who
    BY <1>1, <2>3 DEF Committed
  <2> QED
    BY <2>1, <2>2, <2>3
<1>5. Carried'
  BY <1>1 DEF Committed, Carried, Moved, Years
<1>6. Ends(who)
  BY <1>1 DEF Ends
<1> QED
  BY <1>1, <1>2, <1>3, <1>4, <1>5, <1>6 DEF RowsSound

(* A statement that may write rows writes r. *)
LEMMA WriteRows ==
  ASSUME NEW who \in Transactions, who # Free, NEW years \in SUBSET Years, NEW r \in [Years -> Balance],
         RowsHold, UNCHANGED <<paid, kept>>, row' = r, MayWrite(who, years), Holds(who, years),
         \A y \in Years : Sound(r[y]),
         \A y \in years : r[y].made,
         \A y \in Years \ years : r[y] = row[y],
         \/ years = Years /\ Moved(r)
         \/ r[1].out = row[1].out /\ r[1].closed = row[1].closed /\ r[2].over = row[2].over
  PROVE  RowsHold' /\ GoesOn(who) /\ \A y \in years : holder'[y] = who
<1> USE DEF RowsHold
<1>1. /\ \A y \in years : holder[y] \in {Free, who} /\ holder'[y] = who
      /\ \A y \in Years \ years : holder'[y] = holder[y]
      /\ holder' \in [Years -> Transactions]
  BY DEF Holds, MayWrite, RowType
<1>2. RowType' /\ RowsSound'
  <2>1. \A y \in Years : Sound(row[y])' /\ Sound(kept[y])'
    BY DEF RowsSound, Sound, FreeDays
  <2> QED
    BY <1>1, <2>1 DEF RowType, RowsSound
<1>3. GoesOn(who)
  BY <1>1 DEF GoesOn
<1>4. Committed'
  BY <1>1 DEF Committed
<1>5. Carried'
  <2>1. CASE years = Years /\ Moved(r)
    BY <1>1, <2>1 DEF Carried, Moved, Years
  <2>2. CASE r[1].out = row[1].out /\ r[1].closed = row[1].closed /\ r[2].over = row[2].over
    <3>1. Moved(row') /\ Moved(kept')
      BY <2>2 DEF Carried, Moved
    <3>2. holder'[1] # holder'[2] =>
            row[1].out = kept[1].out /\ row[1].closed = kept[1].closed /\ row[2].over = kept[2].over
      <4>1. CASE holder[1] # holder[2]
        BY <4>1 DEF Carried
      <4>2. CASE holder[1] = holder[2] /\ holder[1] = Free
        BY <4>2 DEF Committed, Years
      <4>3. CASE holder[1] = holder[2] /\ holder[1] # Free
        BY <1>1, <4>3 DEF Years
      <4> QED
        BY <4>1, <4>2, <4>3
    <3> QED
      BY <2>2, <3>1, <3>2 DEF Carried
  <2> QED
    BY <2>1, <2>2
<1> QED
  BY <1>1, <1>2, <1>3, <1>4, <1>5

(* A step that touches no row keeps them. *)
LEMMA SameRows ==
  ASSUME NEW who, RowsHold, UNCHANGED <<paid, row, kept, holder>> PROVE RowsHold' /\ GoesOn(who) /\ Ends(who)
<1>1. \A y \in Years : Sound(row[y])' /\ Sound(kept[y])'
  BY DEF RowsHold, RowsSound, Sound, FreeDays
<1> QED
  BY <1>1 DEF RowsHold, RowType, RowsSound, Committed, Carried, Moved, GoesOn, Ends

(* A row just made has nothing held or taken and can be written. *)
LEMMA MadeSound ==
  /\ Made \in Balance /\ Sound(Made) /\ Made.made
  /\ Made.out = NoBalance.out /\ Made.closed = NoBalance.closed /\ Made.over = NoBalance.over
<1>1. NoBalance \in Balance
  BY DEF NoBalance, Balance
<1>2. /\ Made.over = NoBalance.over /\ Made.taken = NoBalance.taken /\ Made.pending = NoBalance.pending
      /\ Made.out = NoBalance.out /\ Made.closed = NoBalance.closed /\ Made.made /\ Made \in Balance
  BY <1>1 DEF Made, Balance
<1>3. NoBalance.over = 0 /\ NoBalance.taken = 0 /\ NoBalance.pending = 0 /\ NoBalance.out = 0
  BY DEF NoBalance
<1> QED
  BY <1>2, <1>3 DEF Sound, FreeDays

(* rowsFor leaves a row that is committed or the transaction's own. *)
LEMMA InsertRows ==
  ASSUME NEW who \in Transactions, who # Free, NEW y \in Years, RowsHold, UNCHANGED <<paid, kept>>, Insert(who, y)
  PROVE  RowsHold' /\ GoesOn(who) /\ (kept[y].made \/ holder'[y] = who)
<1>1. CASE row[y].made
  <2>1. UNCHANGED <<row, holder>> /\ (kept[y].made \/ holder[y] = who)
    BY <1>1 DEF Insert, InsertWaits
  <2> QED
    BY <2>1, SameRows
<1>2. CASE ~row[y].made
  <2> DEFINE r == [row EXCEPT ![y] = Made]
  <2>1. row' = r /\ Holds(who, {y}) /\ row[y] = NoBalance /\ MayWrite(who, {y})
    BY <1>2 DEF Insert, RowsHold, Committed, MayWrite
  <2>2. row \in [Years -> Balance]
    BY DEF RowsHold, RowType
  <2>3. /\ r \in [Years -> Balance] /\ r[y].made
        /\ \A z \in Years \ {y} : r[z] = row[z]
        /\ r[1].out = row[1].out /\ r[1].closed = row[1].closed /\ r[2].over = row[2].over
    BY <2>1, <2>2, MadeSound DEF Years
  <2>4. \A z \in Years : Sound(r[z])
    BY <2>2, MadeSound DEF RowsHold, RowsSound
  <2> HIDE DEF r
  <2> QED
    BY <2>1, <2>3, <2>4, WriteRows
<1> QED
  BY <1>1, <1>2

(* No more is carried out of a year than is left of it. *)
LEMMA CarriedBounds ==
  ASSUME NEW b \in Balance
  PROVE  CarriedOut(b) \in Nat /\ (CarriedOut(b) = 0 \/ CarriedOut(b) <= Entitled + b.over - b.taken - b.pending)
  BY DEF CarriedOut, Balance

(* Carrying moves the days from one row to the other in one transaction. *)
LEMMA CarryRows ==
  ASSUME NEW who \in Transactions, who # Free, RowsHold, UNCHANGED <<paid, kept>>, CarryInto(who)
  PROVE  RowsHold' /\ GoesOn(who)
<1>1. CASE UNCHANGED <<row, holder>>
  BY <1>1, SameRows
<1>2. CASE ~UNCHANGED <<row, holder>>
  <2> DEFINE one == [row[1] EXCEPT !.out = CarriedOut(row[1]), !.closed = TRUE]
             two == [row[2] EXCEPT !.over = @ + CarriedOut(row[1])]
             r == [y \in Years |-> IF y = 1 THEN one ELSE two]
  <2>1. row' = r /\ Holds(who, Years) /\ MayWrite(who, Years) /\ row[2].made
        /\ ClosesOnce(IF holder[1] = who THEN row[1] ELSE kept[1])
    BY <1>2 DEF CarryInto
  <2>2. /\ row[1] \in Balance /\ row[2] \in Balance /\ Sound(row[1]) /\ Sound(row[2])
        /\ CarriedOut(row[1]) \in Nat
        /\ CarriedOut(row[1]) = 0 \/ CarriedOut(row[1]) <= Entitled + row[1].over - row[1].taken - row[1].pending
    BY CarriedBounds DEF RowsHold, RowType, RowsSound, Years
  <2>3. row[1].made /\ ~row[1].closed
    BY <2>1 DEF ClosesOnce, MayWrite, RowsHold, Committed, Years
  <2>4. row[2].over = 0
    BY <2>3 DEF RowsHold, Carried, Moved
  <2>5. one \in Balance /\ two \in Balance /\ one.out = CarriedOut(row[1]) /\ two.over = CarriedOut(row[1])
        /\ one.made /\ two.made /\ one.closed
    <3>1. CarriedOut(row[1]) \in Int /\ row[2].over + CarriedOut(row[1]) = CarriedOut(row[1])
      BY <2>2, <2>4
    <3> QED
      BY <2>1, <2>2, <2>3, <3>1 DEF Balance
  <2>6. Sound(one) /\ Sound(two)
    BY <2>2 DEF Balance, Sound, FreeDays
  <2>7. r \in [Years -> Balance] /\ r[1] = one /\ r[2] = two
    BY <2>5 DEF Years
  <2>8. /\ \A y \in Years : Sound(r[y])
        /\ \A y \in Years : r[y].made
        /\ Moved(r)
    BY <2>5, <2>6, <2>7 DEF Years, Moved
  <2> HIDE DEF r
  <2> QED
    BY <2>1, <2>7, <2>8, WriteRows
<1> QED
  BY <1>1, <1>2

-----------------------------------------------------------------------------
(* The steps. *)

RestType ==
  /\ thisYear \in Years /\ paid \in BOOLEAN
  /\ request \in [Keys -> {"none", "PENDING", "APPROVED", "REJECTED", "CANCELLED"}]
  /\ filing \in [Deliveries -> [year : 0 .. 2, next : {"none", "ensure", "carry", "hold", "create"}]]
  /\ deciding \in [Keys -> [to : {"none", "APPROVED", "REJECTED", "CANCELLED"}, years : SUBSET Years]]
  /\ opening \in {"none", "carry", "end"}

IInv == RowsHold /\ RestType /\ Filed /\ Decided

(* The type invariant is that of the rows and that of the rest. *)
LEMMA TypeParts == LeaveTypeOK <=> RowType /\ RestType
  BY DEF LeaveTypeOK, RowType, RestType, Transactions

(* Filings, decisions and the year's job are transactions. *)
LEMMA Callers ==
  /\ \A d \in Deliveries : Files(d) \in Transactions /\ KeyOf[d] \in Keys
  /\ \A k \in Keys : Decides(k) \in Transactions /\ YearsOf(k) \subseteq Years
  /\ Opens \in Transactions
  BY DEF Transactions, YearsOf

(* The first of some years is one of them. *)
LEMMA First == ASSUME NEW years \in SUBSET Years, years # {} PROVE FirstOf(years) \in years
  BY DEF FirstOf, Years

(* A filing or a decision somebody else's step leaves alone stays as it was. *)
LEMMA FiledStays ==
  ASSUME RestType, Filed, NEW d \in Deliveries, NEW who, GoesOn(who) \/ (Ends(who) /\ who # Files(d)),
         filing'[d] = filing[d]
  PROVE  FiledOne(d)'
<1>1. \A z \in Years : /\ holder[z] = Files(d) => holder'[z] = Files(d)
                       /\ kept[z].made => kept'[z].made
  BY Apart DEF GoesOn, Ends
<1>2. YearsOf(KeyOf[d]) \subseteq Years /\ FiledOne(d)
  BY Callers DEF Filed
<1> QED
  BY <1>1, <1>2 DEF FiledOne

(* A decision somebody else's step leaves alone stays as it was. *)
LEMMA DecidedStays ==
  ASSUME RestType, Decided, NEW k \in Keys, NEW who, GoesOn(who) \/ Ends(who),
         request'[k] = request[k], deciding'[k] = deciding[k]
  PROVE  DecidedOne(k)'
<1>1. \A z \in Years : kept[z].made => kept'[z].made
  BY DEF GoesOn, Ends
<1>2. YearsOf(k) \subseteq Years /\ DecidedOne(k)
  BY Callers DEF Decided
<1> QED
  BY <1>1, <1>2 DEF DecidedOne

(* A step of a filing that leaves the requests alone. *)
LEMMA FilingStep ==
  ASSUME IInv, NEW d \in Deliveries, NEW f \in [year : 0 .. 2, next : {"none", "ensure", "carry", "hold", "create"}],
         filing' = [filing EXCEPT ![d] = f], UNCHANGED <<thisYear, paid, request, deciding, opening>>,
         RowsHold', GoesOn(Files(d)) \/ Ends(Files(d)), FiledOne(d)'
  PROVE  IInv'
<1> USE DEF IInv
<1>1. RestType'
  BY DEF RestType
<1>2. Filed'
  <2> SUFFICES ASSUME NEW e \in Deliveries, e # d PROVE FiledOne(e)'
    BY DEF Filed
  <2>1. Files(d) # Files(e)
    BY Apart
  <2>2. filing'[e] = filing[e]
    BY DEF RestType
  <2> QED
    BY <2>1, <2>2, FiledStays
<1>3. Decided'
  BY DecidedStays DEF Decided
<1> QED
  BY <1>1, <1>2, <1>3

(* A step of a decision, or of the New Year job. *)
LEMMA OtherStep ==
  ASSUME IInv, NEW who, \A d \in Deliveries : who # Files(d), RowsHold', GoesOn(who) \/ Ends(who),
         UNCHANGED filing, RestType', Decided'
  PROVE  IInv'
<1>1. Filed'
  BY FiledStays DEF IInv, Filed
<1> QED
  BY <1>1 DEF IInv

(* Every statement of a filing keeps the invariant. *)
LEMMA NextFiling ==
  ASSUME IInv, NEW d \in Deliveries, File(d) PROVE IInv'
<1> USE DEF IInv
<1>0. /\ Files(d) \in Transactions /\ Files(d) # Free /\ KeyOf[d] \in Keys
      /\ YearsOf(KeyOf[d]) \subseteq Years
      /\ filing[d] \in [year : 0 .. 2, next : {"none", "ensure", "carry", "hold", "create"}]
      /\ FiledOne(d)
  BY Callers, Apart DEF RestType, Filed
<1>1. CASE BeginFiling(d)
  <2>1. filing' = [filing EXCEPT ![d] = Begun(KeyOf[d])] /\ UNCHANGED <<thisYear, paid, row, kept, holder, request, deciding, opening>>
    BY <1>1 DEF BeginFiling
  <2>2. Begun(KeyOf[d]) \in [year : 0 .. 2, next : {"none", "ensure", "carry", "hold", "create"}]
    BY DEF Begun, FirstOf
  <2>3. filing'[d] = [year |-> FirstOf(YearsOf(KeyOf[d])), next |-> "ensure"]
    BY <2>1 DEF Begun, RestType
  <2>4. FiledOne(d)'
    BY <1>0, <2>3 DEF FiledOne, FirstOf, Years
  <2> QED
    BY <2>1, <2>2, <2>4, SameRows, FilingStep
<1>2. CASE Ensure(d)
  <2> DEFINE y == filing[d].year
             f == [filing[d] EXCEPT !.next = IF ~row[y].made /\ y = 2 /\ y <= thisYear THEN "carry" ELSE "hold"]
  <2>1. /\ filing[d].next = "ensure" /\ Insert(Files(d), y)
        /\ filing' = [filing EXCEPT ![d] = f] /\ UNCHANGED <<thisYear, paid, kept, request, deciding, opening>>
    BY <1>2 DEF Ensure, RestType
  <2>2. y \in Years
    BY <1>0, <2>1 DEF FiledOne
  <2>3. RowsHold' /\ GoesOn(Files(d)) /\ (kept[y].made \/ holder'[y] = Files(d)) /\ kept' = kept
    BY <1>0, <2>1, <2>2, InsertRows
  <2>4. f \in [year : 0 .. 2, next : {"none", "ensure", "carry", "hold", "create"}]
        /\ f.year = y /\ f.next \in {"carry", "hold"}
    BY <1>0
  <2>5. filing'[d] = f
    BY <2>1 DEF RestType
  <2>6. FiledOne(d)'
    BY <1>0, <2>1, <2>2, <2>3, <2>4, <2>5 DEF FiledOne, GoesOn
  <2> HIDE DEF f
  <2> QED
    BY <2>1, <2>3, <2>4, <2>6, FilingStep
<1>3. CASE CarryOne(d)
  <2> DEFINE f == [filing[d] EXCEPT !.next = "hold"]
  <2>1. /\ filing[d].next = "carry" /\ CarryInto(Files(d))
        /\ filing' = [filing EXCEPT ![d] = f] /\ UNCHANGED <<thisYear, paid, kept, request, deciding, opening>>
    BY <1>3 DEF CarryOne, RestType
  <2>2. RowsHold' /\ GoesOn(Files(d))
    BY <1>0, <2>1, CarryRows
  <2>3. f \in [year : 0 .. 2, next : {"none", "ensure", "carry", "hold", "create"}]
        /\ f.year = filing[d].year /\ f.next = "hold" /\ filing'[d] = f
    BY <1>0, <2>1 DEF RestType
  <2>4. FiledOne(d)'
    BY <1>0, <2>1, <2>2, <2>3 DEF FiledOne, GoesOn
  <2> HIDE DEF f
  <2> QED
    BY <2>1, <2>2, <2>3, <2>4, FilingStep
<1>4. CASE Hold(d)
  <2> DEFINE y == filing[d].year
             days == Parts[KeyOf[d]][y]
             rest == {z \in YearsOf(KeyOf[d]) : z > y}
             f == IF rest = {} THEN [year |-> y, next |-> "create"]
                  ELSE [year |-> FirstOf(rest), next |-> "ensure"]
             r == [row EXCEPT ![y].pending = @ + days]
  <2>1. /\ filing[d].next = "hold" /\ MayWrite(Files(d), {y})
        /\ UNCHANGED <<thisYear, paid, request, deciding, opening>>
    BY <1>4 DEF Hold
  <2>2. y \in Years /\ (kept[y].made \/ holder[y] = Files(d)) /\ days \in Nat
        /\ \A z \in YearsOf(KeyOf[d]) : z < y => holder[z] = Files(d)
    BY <1>0, <2>1 DEF FiledOne
  <2>3. CASE Fits(row[y], days)
    <3>1. row' = r /\ Holds(Files(d), {y}) /\ filing' = [filing EXCEPT ![d] = f] /\ UNCHANGED kept
      BY <1>4, <2>3 DEF Hold
    <3>2. row[y] \in Balance /\ Sound(row[y]) /\ row[y].made
      BY <1>0, <2>2 DEF RowsHold, RowType, RowsSound, Committed
    <3>3. /\ r \in [Years -> Balance] /\ r[y].made
          /\ r[y].out = row[y].out /\ r[y].over = row[y].over /\ r[y].taken = row[y].taken
          /\ r[y].closed = row[y].closed /\ r[y].pending = row[y].pending + days
          /\ \A z \in Years \ {y} : r[z] = row[z]
      <4>1. row \in [Years -> Balance] /\ row[y].pending + days \in Int
        BY <2>2, <3>2 DEF RowsHold, RowType, Balance
      <4>2. r[y] = [row[y] EXCEPT !.pending = row[y].pending + days] /\ \A z \in Years \ {y} : r[z] = row[z]
        BY <2>2, <4>1
      <4>3. r[y] \in Balance
        BY <3>2, <4>1, <4>2 DEF Balance
      <4>4. r \in [Years -> Balance]
        BY <2>2, <4>1, <4>3
      <4> HIDE DEF r, days
      <4> QED
        BY <3>2, <4>1, <4>2, <4>4 DEF Balance
    <3>4. Sound(r[y])
      <4>1. /\ row[y].out \in Int /\ row[y].over \in Int /\ row[y].taken \in Int
            /\ row[y].pending \in Int /\ Entitled \in Int
        BY <3>2 DEF Balance
      <4>2. FreeDays(r[y]) = FreeDays(row[y]) - days
        <5> HIDE DEF r, days
        <5> QED
          BY <2>2, <3>3, <4>1 DEF FreeDays
      <4>3. FreeDays(row[y]) \in Int
        BY <4>1 DEF FreeDays
      <4>4. paid => FreeDays(r[y]) >= 0
        <5> HIDE DEF r, days
        <5> QED
          BY <2>2, <2>3, <4>2, <4>3 DEF Fits
      <4>5. r[y].out >= 0
        BY <3>2, <3>3 DEF Sound
      <4> QED
        BY <4>4, <4>5 DEF Sound
    <3>5. \A z \in Years : Sound(r[z])
      BY <3>3, <3>4 DEF RowsHold, RowsSound
    <3>6. r[1].out = row[1].out /\ r[1].closed = row[1].closed /\ r[2].over = row[2].over
      BY <2>2, <3>3 DEF Years
    <3>7. RowsHold' /\ GoesOn(Files(d)) /\ holder'[y] = Files(d)
      <4> HIDE DEF r
      <4> QED
        BY <1>0, <2>1, <2>2, <3>1, <3>3, <3>5, <3>6, WriteRows
    <3>8. /\ f \in [year : 0 .. 2, next : {"none", "ensure", "carry", "hold", "create"}]
          /\ f.next \in {"create", "ensure"} /\ f.year \in Years
          /\ \A z \in YearsOf(KeyOf[d]) : f.next = "create" \/ z < f.year => z <= y
      <4>1. CASE rest = {}
        BY <1>0, <2>2, <4>1 DEF Years
      <4>2. CASE rest # {}
        BY <1>0, <2>2, <4>2 DEF Years, FirstOf
      <4> QED
        BY <4>1, <4>2
    <3>9. filing'[d] = f
      BY <3>1 DEF RestType
    <3> HIDE DEF f
    <3>10. FiledOne(d)'
      <4> SUFFICES ASSUME NEW z \in YearsOf(KeyOf[d]), f.next = "create" \/ z < f.year
                   PROVE  holder'[z] = Files(d)
        BY <3>8, <3>9 DEF FiledOne
      <4>1. z \in Years /\ z <= y
        BY <1>0, <3>8
      <4>2. z = y \/ (z < y /\ holder[z] = Files(d))
        BY <2>2, <4>1 DEF Years
      <4> QED
        BY <1>0, <3>7, <4>1, <4>2 DEF GoesOn
    <3> QED
      BY <2>1, <3>1, <3>7, <3>8, <3>10, FilingStep
  <2>4. CASE ~Fits(row[y], days)
    <3>1. RollBack(Files(d)) /\ filing' = [filing EXCEPT ![d] = Resting]
      BY <1>4, <2>4 DEF Hold
    <3>2. Resting \in [year : 0 .. 2, next : {"none", "ensure", "carry", "hold", "create"}]
      BY DEF Resting
    <3>3. FiledOne(d)'
      BY <3>1 DEF FiledOne, Resting, RestType
    <3> QED
      BY <1>0, <2>1, <3>1, <3>2, <3>3, RollBackRows, FilingStep
  <2> QED
    BY <2>3, <2>4
<1>5. CASE FilingFails(d)
  <2>1. RollBack(Files(d)) /\ filing' = [filing EXCEPT ![d] = Resting] /\ UNCHANGED <<thisYear, paid, request, deciding, opening>>
    BY <1>5 DEF FilingFails
  <2>2. Resting \in [year : 0 .. 2, next : {"none", "ensure", "carry", "hold", "create"}]
    BY DEF Resting
  <2>3. FiledOne(d)'
    BY <2>1 DEF FiledOne, Resting, RestType
  <2> QED
    BY <1>0, <2>1, <2>2, <2>3, RollBackRows, FilingStep
<1>6. CASE CreateRequest(d)
  <2> DEFINE k == KeyOf[d]
  <2>1. /\ filing[d].next = "create" /\ filing' = [filing EXCEPT ![d] = Resting]
        /\ UNCHANGED <<thisYear, paid, deciding, opening>>
    BY <1>6 DEF CreateRequest
  <2>2. Resting \in [year : 0 .. 2, next : {"none", "ensure", "carry", "hold", "create"}]
    BY DEF Resting
  <2>3. FiledOne(d)'
    BY <2>1 DEF FiledOne, Resting, RestType
  <2>4. CASE request[k] # "none"
    <3>1. RollBack(Files(d)) /\ UNCHANGED request
      BY <1>6, <2>4 DEF CreateRequest
    <3> QED
      BY <1>0, <2>1, <2>2, <2>3, <3>1, RollBackRows, FilingStep
  <2>5. CASE request[k] = "none"
    <3>1. Keep(Files(d)) /\ request' = [request EXCEPT ![k] = "PENDING"]
      BY <1>6, <2>5 DEF CreateRequest
    <3>2. RowsHold' /\ Ends(Files(d)) /\ \A y \in Years : holder[y] = Files(d) => kept'[y] = row[y]
      BY <1>0, <2>1, <3>1, KeepRows
    <3>3. RestType'
      BY <1>0, <2>1, <2>2, <3>1 DEF RestType
    <3>4. Filed'
      <4> SUFFICES ASSUME NEW e \in Deliveries, e # d PROVE FiledOne(e)'
        BY <2>3 DEF Filed
      <4>1. Files(d) # Files(e) /\ filing'[e] = filing[e]
        BY <2>1, Apart DEF RestType
      <4> QED
        BY <3>2, <4>1, FiledStays
    <3>5. DecidedOne(k)'
      <4>1. \A y \in YearsOf(k) : kept'[y].made
        <5> SUFFICES ASSUME NEW y \in YearsOf(k) PROVE kept'[y].made
          OBVIOUS
        <5>1. y \in Years /\ holder[y] = Files(d)
          BY <1>0, <2>1 DEF FiledOne
        <5>2. row[y].made
          BY <1>0, <5>1 DEF RowsHold, Committed
        <5> QED
          BY <3>2, <5>1, <5>2
      <4>2. deciding' = deciding /\ deciding[k] = Undecided /\ deciding[k].years \subseteq YearsOf(k)
        BY <1>0, <2>1, <2>5 DEF Decided, DecidedOne
      <4> QED
        BY <4>1, <4>2 DEF DecidedOne
    <3>6. Decided'
      <4> SUFFICES ASSUME NEW l \in Keys, l # k PROVE DecidedOne(l)'
        BY <3>5 DEF Decided
      <4>1. request'[l] = request[l] /\ deciding'[l] = deciding[l]
        BY <2>1, <3>1 DEF RestType
      <4> QED
        BY <3>2, <4>1, DecidedStays
    <3> QED
      BY <3>2, <3>3, <3>4, <3>6
  <2> QED
    BY <2>4, <2>5
<1> QED
  BY <1>1, <1>2, <1>3, <1>4, <1>5, <1>6 DEF File

(* Every statement of a decision keeps it. *)
LEMMA NextDecision ==
  ASSUME IInv, NEW k \in Keys, Decide(k) PROVE IInv'
<1> USE DEF IInv
<1>0. /\ Decides(k) \in Transactions /\ Decides(k) # Free /\ \A d \in Deliveries : Decides(k) # Files(d)
      /\ YearsOf(k) \subseteq Years /\ DecidedOne(k)
      /\ deciding[k] \in [to : {"none", "APPROVED", "REJECTED", "CANCELLED"}, years : SUBSET Years]
      /\ deciding \in [Keys -> [to : {"none", "APPROVED", "REJECTED", "CANCELLED"}, years : SUBSET Years]]
      /\ request \in [Keys -> {"none", "PENDING", "APPROVED", "REJECTED", "CANCELLED"}]
  BY Callers, Apart DEF Decided, RestType
<1>1. ASSUME NEW to \in {"APPROVED", "REJECTED", "CANCELLED"}, ClaimRequest(k, to) PROVE IInv'
  <2>1. /\ request[k] = "PENDING" /\ deciding' = [deciding EXCEPT ![k] = [to |-> to, years |-> YearsOf(k)]]
        /\ UNCHANGED <<thisYear, paid, row, kept, holder, request, filing, opening>>
    BY <1>1 DEF ClaimRequest, MayClaim
  <2>2. RowsHold' /\ GoesOn(Decides(k))
    BY <2>1, SameRows
  <2>3. RestType'
    BY <1>0, <2>1 DEF RestType
  <2>4. DecidedOne(k)'
    BY <1>0, <2>1 DEF DecidedOne
  <2>5. Decided'
    BY <1>0, <2>1, <2>2, <2>4, DecidedStays DEF Decided
  <2> QED
    BY <1>0, <2>1, <2>2, <2>3, <2>5, OtherStep
<1>2. CASE Settle(k)
  <2> DEFINE y == FirstOf(deciding[k].years)
             days == Parts[k][y]
             b == [row[y] EXCEPT !.pending = @ - days,
                                 !.taken = IF deciding[k].to = "APPROVED" THEN @ + days ELSE @]
             r == [row EXCEPT ![y] = b]
  <2>1. /\ deciding[k].years # {} /\ MayWrite(Decides(k), {y}) /\ Holds(Decides(k), {y})
        /\ deciding' = [deciding EXCEPT ![k].years = @ \ {y}]
        /\ UNCHANGED <<thisYear, paid, kept, request, filing, opening>>
    BY <1>2 DEF Settle
  <2>2. row' = [row EXCEPT ![y].pending = @ - days,
                           ![y].taken = IF deciding[k].to = "APPROVED" THEN @ + days ELSE @]
    BY <1>2 DEF Settle
  <2>3. y \in Years /\ y \in YearsOf(k) /\ days \in Nat
    BY <1>0, <2>1, First DEF DecidedOne
  <2>4. deciding[k] # Undecided /\ request[k] = "PENDING" /\ deciding[k].to # "none"
    BY <1>0, <2>1 DEF DecidedOne, Undecided
  <2>5. row \in [Years -> Balance] /\ row[y] \in Balance /\ Sound(row[y]) /\ row[y].made
    BY <1>0, <2>3, <2>4 DEF DecidedOne, RowsHold, RowType, RowsSound, Committed
  <2>6. row[y].pending - days \in Int /\ row[y].taken + days \in Int /\ row[y].taken \in Int /\ row[y].pending \in Int
    BY <2>3, <2>5 DEF Balance
  <2>7. row' = r
    BY <2>2, <2>3, <2>5 DEF Balance
  <2>8. /\ b \in Balance /\ b.made /\ b.out = row[y].out /\ b.closed = row[y].closed /\ b.over = row[y].over
        /\ b.pending = row[y].pending - days
        /\ b.taken = IF deciding[k].to = "APPROVED" THEN row[y].taken + days ELSE row[y].taken
    <3> HIDE DEF days, y
    <3> QED
      BY <2>5, <2>6 DEF Balance
  <2>9. Sound(b)
    <3> HIDE DEF days, y, b
    <3> QED
      BY <2>3, <2>5, <2>6, <2>8 DEF Sound, FreeDays, Balance
  <2>10. /\ r \in [Years -> Balance] /\ r[y] = b /\ \A z \in Years \ {y} : r[z] = row[z]
    <3> HIDE DEF b, y
    <3> QED
      BY <2>3, <2>5, <2>8
  <2>11. /\ \A z \in Years : Sound(r[z])
         /\ r[1].out = row[1].out /\ r[1].closed = row[1].closed /\ r[2].over = row[2].over
    <3> HIDE DEF b, y, r
    <3> QED
      BY <2>3, <2>8, <2>9, <2>10 DEF Years, RowsHold, RowsSound
  <2>12. RowsHold' /\ GoesOn(Decides(k))
    <3>1. r[y].made /\ {y} \in SUBSET Years /\ UNCHANGED <<paid, kept>>
      BY <2>1, <2>3, <2>8, <2>10
    <3> HIDE DEF r, b, y
    <3>2. MayWrite(Decides(k), {y}) /\ Holds(Decides(k), {y}) /\ RowsHold
      BY <2>1
    <3>3. (\A z \in {y} : r[z].made) /\ (\A z \in Years \ {y} : r[z] = row[z])
      BY <2>10, <3>1
    <3> PICK one \in SUBSET Years : one = {y}
      BY <3>1
    <3>4. /\ MayWrite(Decides(k), one) /\ Holds(Decides(k), one)
          /\ \A z \in one : r[z].made
          /\ \A z \in Years \ one : r[z] = row[z]
      BY <3>2, <3>3
    <3>5. row' = r /\ r \in [Years -> Balance] /\ Decides(k) \in Transactions /\ Decides(k) # Free
      BY <1>0, <2>7, <2>10
    <3>6. /\ \A z \in Years : Sound(r[z])
          /\ r[1].out = row[1].out /\ r[1].closed = row[1].closed /\ r[2].over = row[2].over
      BY <2>11
    <3>7. RowsHold' /\ GoesOn(Decides(k)) /\ \A z \in one : holder'[z] = Decides(k)
      BY <3>1, <3>2, <3>4, <3>5, <3>6, WriteRows
    <3> QED
      BY <3>7
  <2>13. /\ deciding'[k].years \subseteq deciding[k].years /\ deciding'[k].to = deciding[k].to
         /\ deciding' \in [Keys -> [to : {"none", "APPROVED", "REJECTED", "CANCELLED"}, years : SUBSET Years]]
         /\ \A l \in Keys : l # k => deciding'[l] = deciding[l]
    <3> HIDE DEF y
    <3> QED
      BY <1>0, <2>1
  <2>14. RestType'
    BY <2>1, <2>13 DEF RestType
  <2>15. DecidedOne(k)'
    BY <1>0, <2>1, <2>4, <2>12, <2>13 DEF DecidedOne, GoesOn
  <2>16. Decided'
    BY <2>1, <2>12, <2>13, <2>15, DecidedStays DEF Decided
  <2> QED
    BY <1>0, <2>1, <2>12, <2>14, <2>16, OtherStep
<1>3. ASSUME deciding' = [deciding EXCEPT ![k] = Undecided], RowsHold', Ends(Decides(k)),
             request[k] # "none" \/ request' = request,
             request' \in [Keys -> {"none", "PENDING", "APPROVED", "REJECTED", "CANCELLED"}],
             \A l \in Keys : l # k => request'[l] = request[l],
             UNCHANGED <<thisYear, paid, filing, opening>>
      PROVE  IInv'
  <2>1. RestType'
    BY <1>0, <1>3 DEF RestType, Undecided
  <2>2. DecidedOne(k)'
    BY <1>0, <1>3 DEF DecidedOne, Ends, Undecided
  <2>3. Decided'
    BY <1>0, <1>3, <2>2, DecidedStays DEF Decided
  <2> QED
    BY <1>0, <1>3, <2>1, <2>3, OtherStep
<1>4. CASE EndDecision(k)
  <2>1. /\ deciding[k] # Undecided /\ Keep(Decides(k)) /\ request' = [request EXCEPT ![k] = deciding[k].to]
        /\ deciding' = [deciding EXCEPT ![k] = Undecided] /\ UNCHANGED <<thisYear, paid, filing, opening>>
    BY <1>4 DEF EndDecision
  <2>2. request[k] # "none" /\ deciding[k].to \in {"APPROVED", "REJECTED", "CANCELLED"}
    BY <1>0, <2>1 DEF DecidedOne
  <2> QED
    BY <1>0, <1>3, <2>1, <2>2, KeepRows
<1>5. CASE DecisionFails(k)
  <2>1. /\ RollBack(Decides(k)) /\ deciding' = [deciding EXCEPT ![k] = Undecided]
        /\ UNCHANGED <<thisYear, paid, request, filing, opening>>
    BY <1>5 DEF DecisionFails
  <2> QED
    BY <1>0, <1>3, <2>1, RollBackRows
<1> QED
  BY <1>1, <1>2, <1>4, <1>5 DEF Decide

(* Every statement of the year's job keeps it. *)
LEMMA NextOpen == ASSUME IInv, Open PROVE IInv'
<1> USE DEF IInv
<1>0. Opens \in Transactions /\ Opens # Free /\ \A d \in Deliveries : Opens # Files(d)
  BY Callers, Apart
<1>1. ASSUME RowsHold', GoesOn(Opens) \/ Ends(Opens), UNCHANGED <<paid, request, filing, deciding>>,
             thisYear' \in Years, opening' \in {"none", "carry", "end"}
      PROVE  IInv'
  <2>1. RestType'
    BY <1>1 DEF RestType
  <2>2. Decided'
    BY <1>1, DecidedStays DEF Decided
  <2> QED
    BY <1>0, <1>1, <2>1, <2>2, OtherStep
<1>2. CASE NewYear
  BY <1>1, <1>2, SameRows DEF NewYear, RestType, Years
<1>3. CASE OpenRows
  BY <1>0, <1>1, <1>3, InsertRows DEF OpenRows, RestType, Years
<1>4. CASE OpenCarry
  BY <1>0, <1>1, <1>4, CarryRows DEF OpenCarry, RestType
<1>5. CASE OpenEnds
  BY <1>0, <1>1, <1>5, KeepRows DEF OpenEnds, RestType
<1>6. CASE OpenFails
  BY <1>0, <1>1, <1>6, RollBackRows DEF OpenFails, RestType
<1> QED
  BY <1>2, <1>3, <1>4, <1>5, <1>6 DEF Open

(* No requests, and rows just made. *)
LEMMA InitIInv == LeaveInit => IInv
<1> SUFFICES ASSUME LeaveInit PROVE IInv
  OBVIOUS
<1>1. NoBalance \in Balance /\ ~NoBalance.made /\ Sound(NoBalance)
      /\ NoBalance.out = 0 /\ NoBalance.over = 0
  BY DEF NoBalance, Balance, Sound, FreeDays
<1>2. /\ row \in [Years -> {NoBalance, Made}] /\ row[2] = NoBalance /\ kept = row
      /\ \A y \in Years : holder[y] = Free
      /\ holder \in [Years -> Transactions]
  BY DEF LeaveInit, Years, Transactions
<1>3. RowType
  BY <1>1, <1>2, MadeSound DEF RowType
<1>4. RowsSound
  BY <1>1, <1>2, MadeSound DEF RowsSound
<1>5. Committed
  BY <1>1, <1>2, MadeSound DEF Committed
<1>6. Carried
  BY <1>1, <1>2, MadeSound DEF Carried, Moved, Years
<1>7. RestType /\ Filed /\ Decided
  BY DEF LeaveInit, RestType, Filed, FiledOne, Decided, DecidedOne, Resting, Undecided, Years
<1> QED
  BY <1>3, <1>4, <1>5, <1>6, <1>7 DEF IInv, RowsHold

(* So it holds of every reachable state. *)
LEMMA Inductive == LeaveSpec => []IInv
<1>1. IInv /\ [LeaveNext]_leaveVars => IInv'
  <2> SUFFICES ASSUME IInv, [LeaveNext]_leaveVars PROVE IInv'
    OBVIOUS
  <2>1. CASE UNCHANGED leaveVars
    <3>1. RowsHold'
      BY <2>1, SameRows DEF IInv, leaveVars
    <3> QED
      BY <2>1, <3>1 DEF IInv, leaveVars, RestType, Filed, FiledOne, Decided, DecidedOne
  <2> QED
    BY <2>1, NextFiling, NextDecision, NextOpen DEF LeaveNext
<1> QED
  BY <1>1, InitIInv, PTL DEF LeaveSpec

(* Rows, filings and decisions keep their type, whatever ends in the middle. *)
THEOREM LeaveTypeCorrect == LeaveSpec => []LeaveTypeOK
<1>1. IInv => LeaveTypeOK
  BY TypeParts DEF IInv, RowsHold
<1> QED
  BY <1>1, Inductive, PTL

(* However filings, decisions and the New Year interleave, no more days of a paid type are *)
(* booked than there are (hold, settle, carryInto).                                        *)
THEOREM NobodyOverdraws == LeaveSpec => []NeverOverdrawn
<1>1. IInv => NeverOverdrawn
  BY DEF IInv, RowsHold, RowsSound, Sound, NeverOverdrawn
<1> QED
  BY <1>1, Inductive, PTL

(* What leaves the ended year arrives in the next one, once, whoever makes its row. *)
THEOREM CarriesOnce == LeaveSpec => []CarriedOnce
<1>1. IInv => CarriedOnce
  BY DEF IInv, RowsHold, RowsSound, Sound, Carried, Moved, CarriedOnce, RowType, Balance, Years
<1> QED
  BY <1>1, Inductive, PTL

-----------------------------------------------------------------------------
(* The days of some requests: DaysIn sums over a set, and a recursive definition says what  *)
(* it is for the sets of finitely many requests. Nothing here needs Keys to be finite.      *)

(* A set with 0 that goes on from each number to the next has them all. *)
LEMMA Upwards ==
  ASSUME NEW T, 0 \in T, \A n \in Nat : n \in T => n + 1 \in T
  PROVE  Nat \subseteq T
<1>1. SUFFICES ASSUME Nat \ T # {} PROVE FALSE
  OBVIOUS
<1>2. \E n \in Nat \ T : \A m \in Nat \ T : <<m, n>> \notin OpToRel(<, Nat)
  BY <1>1, NatLessThanWellFounded, WFMin, Zenon
<1>3. PICK n \in Nat \ T : \A m \in Nat \ T : <<m, n>> \notin OpToRel(<, Nat)
  BY <1>2, Zenon
<1>4. ASSUME NEW m \in Nat \ T PROVE n <= m
  <2>1. <<m, n>> \in Nat \X Nat
    BY Zenon
  <2>2. <<m, n>> \notin {pair_ \in Nat \X Nat : pair_[1] < pair_[2]}
    BY <1>3, Zenon DEF OpToRel
  <2> QED
    BY <2>1, <2>2
<1>5. n # 0
  OBVIOUS
<1>6. n - 1 \in Nat /\ n - 1 \in T
  BY <1>4, <1>5
<1> QED
  BY <1>6

\* What the sum over a set of requests of their days in year y is made of: those of one
\* of them, and the sum over the others.
Pick(s) == CHOOSE x \in s : TRUE
Sums(f, y, s) == f[s] = IF s = {} THEN 0 ELSE Parts[Pick(s)][y] + f[s \ {Pick(s)}]

(* The request it is made of is one of them. *)
LEMMA Picked == ASSUME NEW s, s # {} PROVE Pick(s) \in s
  BY DEF Pick

(* One set of requests less one of them. *)
LEMMA OneLess ==
  ASSUME NEW S, IsFiniteSet(S), NEW s \in SUBSET S, NEW x \in s
  PROVE  s \ {x} \in SUBSET S /\ Cardinality(s) \in Nat /\ Cardinality(s) # 0
         /\ Cardinality(s \ {x}) = Cardinality(s) - 1
  <1>1. IsFiniteSet(s)
    BY FS_Subset
  <1> QED
    BY <1>1, FS_RemoveElement, FS_CardinalityType, FS_EmptySet

(* Sums over the sets of some requests exist. *)
LEMMA SumsExist ==
  ASSUME NEW y \in Years, NEW S \in SUBSET Keys, IsFiniteSet(S)
  PROVE  \E f \in [SUBSET S -> Nat] : \A s \in SUBSET S : Sums(f, y, s)
<1> DEFINE T == {n \in Nat : \E f \in [SUBSET S -> Nat] :
                                 \A s \in SUBSET S : Cardinality(s) <= n => Sums(f, y, s)}
<1>0. ASSUME NEW s \in SUBSET S PROVE IsFiniteSet(s) /\ Cardinality(s) \in Nat /\ (Cardinality(s) = 0 <=> s = {})
  BY FS_Subset, FS_CardinalityType, FS_EmptySet
<1>d. ASSUME NEW x \in S PROVE Parts[x][y] \in Nat
  OBVIOUS
<1>1. 0 \in T
  <2> DEFINE f == [s \in SUBSET S |-> 0]
  <2>1. f \in [SUBSET S -> Nat]
    OBVIOUS
  <2>2. \A s \in SUBSET S : Cardinality(s) <= 0 => Sums(f, y, s)
    BY <1>0 DEF Sums
  <2> QED
    BY <2>1, <2>2
<1>2. ASSUME NEW n \in Nat, n \in T PROVE n + 1 \in T
  <2>1. PICK g \in [SUBSET S -> Nat] : \A s \in SUBSET S : Cardinality(s) <= n => Sums(g, y, s)
    BY <1>2
  <2> DEFINE f == [s \in SUBSET S |-> IF s = {} THEN 0 ELSE Parts[Pick(s)][y] + g[s \ {Pick(s)}]]
  <2>2. ASSUME NEW s \in SUBSET S PROVE f[s] \in Nat
    <3>1. CASE s # {}
      <4>1. Pick(s) \in S /\ s \ {Pick(s)} \in SUBSET S
        BY <3>1, Picked
      <4>2. Parts[Pick(s)][y] \in Nat /\ g[s \ {Pick(s)}] \in Nat
        BY <1>d, <4>1
      <4> QED
        BY <3>1, <4>2
    <3> QED
      BY <3>1
  <2>3. ASSUME NEW s \in SUBSET S, Cardinality(s) <= n PROVE f[s] = g[s]
    BY <2>1, <2>3 DEF Sums
  <2>4. ASSUME NEW s \in SUBSET S, Cardinality(s) <= n + 1 PROVE Sums(f, y, s)
    <3>1. CASE s # {}
      <4>1. Pick(s) \in s
        BY <3>1, Picked
      <4>2. s \ {Pick(s)} \in SUBSET S /\ Cardinality(s \ {Pick(s)}) <= n
        BY <2>4, <4>1, OneLess
      <4>3. f[s \ {Pick(s)}] = g[s \ {Pick(s)}]
        BY <2>3, <4>2
      <4> QED
        BY <4>3 DEF Sums
    <3>2. CASE s = {}
      BY <3>2 DEF Sums
    <3> QED
      BY <3>1, <3>2
  <2>5. f \in [SUBSET S -> Nat]
    BY <2>2
  <2> HIDE DEF f
  <2>6. \E h \in [SUBSET S -> Nat] : \A s \in SUBSET S : Cardinality(s) <= n + 1 => Sums(h, y, s)
    BY <2>4, <2>5
  <2> QED
    BY <2>6
<1>3. Cardinality(S) \in T
  <2> HIDE DEF T
  <2> QED
    BY <1>0, <1>1, <1>2, Upwards
<1>4. \A s \in SUBSET S : Cardinality(s) <= Cardinality(S)
  BY FS_Subset
<1> QED
  BY <1>3, <1>4

(* There is only one such sum. *)
LEMMA SumsAgree ==
  ASSUME NEW y \in Years, NEW S \in SUBSET Keys, IsFiniteSet(S),
         NEW f, \A s \in SUBSET S : Sums(f, y, s), NEW g, \A s \in SUBSET S : Sums(g, y, s)
  PROVE  \A s \in SUBSET S : f[s] = g[s]
<1> DEFINE T == {n \in Nat : \A s \in SUBSET S : Cardinality(s) <= n => f[s] = g[s]}
<1>0. ASSUME NEW s \in SUBSET S PROVE IsFiniteSet(s) /\ Cardinality(s) \in Nat /\ (Cardinality(s) = 0 <=> s = {})
  BY FS_Subset, FS_CardinalityType, FS_EmptySet
<1>1. 0 \in T
  <2> SUFFICES ASSUME NEW s \in SUBSET S, Cardinality(s) <= 0 PROVE f[s] = g[s]
    OBVIOUS
  <2>1. s = {}
    BY <1>0
  <2>2. Sums(f, y, s) /\ Sums(g, y, s)
    OBVIOUS
  <2> QED
    BY <2>1, <2>2 DEF Sums
<1>2. ASSUME NEW n \in Nat, n \in T PROVE n + 1 \in T
  <2> SUFFICES ASSUME NEW s \in SUBSET S, Cardinality(s) <= n + 1 PROVE f[s] = g[s]
    OBVIOUS
  <2>1. CASE s = {}
    BY <2>1 DEF Sums
  <2>2. CASE s # {}
    <3>1. Pick(s) \in s
      BY <2>2, Picked
    <3>2. s \ {Pick(s)} \in SUBSET S /\ Cardinality(s \ {Pick(s)}) <= n
      BY <3>1, OneLess
    <3>3. f[s \ {Pick(s)}] = g[s \ {Pick(s)}]
      BY <1>2, <3>2
    <3> QED
      BY <2>2, <3>3 DEF Sums
  <2> QED
    BY <2>1, <2>2
<1>3. ASSUME NEW n \in Nat PROVE n \in T
  <2> HIDE DEF T
  <2> QED
    BY <1>1, <1>2, Upwards
<1> QED
  BY <1>0, <1>3

\* The days in year y of a set of requests.
DaysOf(S, y) == MapThenSumSet(LAMBDA k : Parts[k][y], S)

(* Any sums over the sets of S say what its days are. *)
LEMMA DaysOfSums ==
  ASSUME NEW y \in Years, NEW S \in SUBSET Keys, IsFiniteSet(S),
         NEW g \in [SUBSET S -> Nat], \A s \in SUBSET S : Sums(g, y, s)
  PROVE  DaysOf(S, y) = g[S]
<1> DEFINE G(f) == [s \in SUBSET S |-> IF s = {} THEN 0
                                       ELSE Parts[CHOOSE x \in s : TRUE][y] + f[s \ {CHOOSE x \in s : TRUE}]]
           F == CHOOSE f : f = G(f)
<1>1. g = G(g)
  BY DEF Sums, Pick
<1>2. F = G(F)
  <2> HIDE DEF G
  <2> QED
    BY <1>1
<1>3. DaysOf(S, y) = F[S]
  BY DEF DaysOf, MapThenSumSet, MapThenFoldSet
<1> HIDE DEF F
<1>4. \A s \in SUBSET S : Sums(F, y, s)
  BY <1>2 DEF Sums, Pick
<1> QED
  BY <1>3, <1>4, SumsAgree

\* Sums over all the sets of some requests.
SumUp(g, y, S) ==
  /\ y \in Years /\ S \in SUBSET Keys /\ IsFiniteSet(S) /\ g \in [SUBSET S -> Nat]
  /\ \A s \in SUBSET S : Sums(g, y, s)

\* The sum over some requests is the days of one of them and the sum over the others.
SplitsOff(g, y, r, k) ==
  g[r] = Parts[k][y] + g[r \ {k}] /\ Parts[k][y] \in Nat /\ g[r \ {k}] \in Nat

(* A sum may take any of its requests first. *)
LEMMA AnyFirst ==
  ASSUME NEW y, NEW S, NEW g, SumUp(g, y, S), NEW r, NEW k, r \in SUBSET S, k \in r
  PROVE  SplitsOff(g, y, r, k)
<1>s. /\ y \in Years /\ S \in SUBSET Keys /\ IsFiniteSet(S) /\ g \in [SUBSET S -> Nat]
      /\ \A s \in SUBSET S : Sums(g, y, s)
  BY DEF SumUp
<1> USE <1>s
<1> DEFINE T == {n \in Nat : \A s \in SUBSET S : Cardinality(s) <= n =>
                                 \A x \in s : g[s] = Parts[x][y] + g[s \ {x}]}
<1>0. ASSUME NEW s \in SUBSET S PROVE Cardinality(s) \in Nat /\ (Cardinality(s) = 0 <=> s = {})
  BY FS_Subset, FS_CardinalityType, FS_EmptySet
<1>d. ASSUME NEW x \in S PROVE Parts[x][y] \in Nat
  OBVIOUS
<1>1. 0 \in T
  BY <1>0
<1>2. ASSUME NEW n \in Nat, n \in T PROVE n + 1 \in T
  <2> SUFFICES ASSUME NEW s \in SUBSET S, Cardinality(s) <= n + 1, NEW x \in s
               PROVE  g[s] = Parts[x][y] + g[s \ {x}]
    OBVIOUS
  <2> DEFINE c == Pick(s)
  <2>1. c \in s /\ g[s] = Parts[c][y] + g[s \ {c}]
    BY Picked DEF Sums
  <2> HIDE DEF c
  <2>2. CASE x = c
    BY <2>1, <2>2
  <2>3. CASE x # c
    <3>0. ASSUME NEW z \in s PROVE s \ {z} \in SUBSET S /\ Cardinality(s \ {z}) <= n
      BY OneLess
    <3>1. /\ s \ {c} \in SUBSET S /\ Cardinality(s \ {c}) <= n /\ x \in s \ {c}
          /\ s \ {x} \in SUBSET S /\ Cardinality(s \ {x}) <= n /\ c \in s \ {x}
      BY <3>0, <2>1, <2>3
    <3>2. g[s \ {c}] = Parts[x][y] + g[(s \ {c}) \ {x}]
      BY <1>2, <3>1
    <3>3. g[s \ {x}] = Parts[c][y] + g[(s \ {x}) \ {c}]
      BY <1>2, <3>1
    <3>4. (s \ {c}) \ {x} = (s \ {x}) \ {c} /\ (s \ {x}) \ {c} \in SUBSET S
      OBVIOUS
    <3>5. Parts[x][y] \in Nat /\ Parts[c][y] \in Nat /\ g[(s \ {x}) \ {c}] \in Nat
      BY <1>d, <2>1, <3>4
    <3>6. PICK m \in Nat, a \in Nat, b \in Nat :
            m = g[(s \ {x}) \ {c}] /\ a = Parts[x][y] /\ b = Parts[c][y]
      BY <3>5
    <3>7. g[s \ {c}] = a + m /\ g[s \ {x}] = b + m
      BY <3>2, <3>3, <3>4, <3>6
    <3>8. g[s] = b + (a + m) /\ a + g[s \ {x}] = a + (b + m)
      BY <2>1, <3>6, <3>7
    <3> QED
      BY <3>6, <3>8
  <2> QED
    BY <2>2, <2>3
<1>3. ASSUME NEW n \in Nat PROVE n \in T
  <2> HIDE DEF T
  <2> QED
    BY <1>1, <1>2, Upwards
<1>4. ASSUME NEW s \in SUBSET S, NEW x \in s PROVE g[s] = Parts[x][y] + g[s \ {x}]
  <2>1. Cardinality(s) \in T
    BY <1>0, <1>3
  <2> QED
    BY <2>1, <1>0
<1>5. Parts[k][y] \in Nat /\ r \ {k} \in SUBSET S /\ g[r \ {k}] \in Nat
  BY <1>d
<1> QED
  BY <1>4, <1>5 DEF SplitsOff

(* The days of some requests are a number, and one more request adds its own. *)
LEMMA DaysOfOneMore ==
  ASSUME NEW y \in Years, NEW S \in SUBSET Keys, IsFiniteSet(S), NEW k \in Keys \ S
  PROVE  DaysOf(S, y) \in Nat /\ DaysOf(S \cup {k}, y) = DaysOf(S, y) + Parts[k][y]
<1> DEFINE U == S \cup {k}
<1>1. U \in SUBSET Keys /\ IsFiniteSet(U) /\ U \ {k} = S /\ k \in U
  BY FS_AddElement
<1> HIDE DEF U
<1>2. PICK g \in [SUBSET U -> Nat] : \A s \in SUBSET U : Sums(g, y, s)
  BY <1>1, SumsExist
<1>3. DaysOf(U, y) = g[U]
  BY <1>1, <1>2, DaysOfSums
<1>4. g[U] = Parts[k][y] + g[S] /\ g[S] \in Nat
  <2>1. U \in SUBSET U /\ S \in SUBSET U
    BY <1>1
  <2>2. SumUp(g, y, U)
    BY <1>1, <1>2 DEF SumUp
  <2>3. k \in U
    BY <1>1
  <2>4. SplitsOff(g, y, U, k)
    BY <2>1, <2>2, <2>3, AnyFirst, Zenon
  <2> QED
    BY <1>1, <2>4 DEF SplitsOff
<1>5. DaysOf(S, y) = g[S]
  <2> DEFINE h == [s \in SUBSET S |-> g[s]]
  <2>1. h \in [SUBSET S -> Nat]
    BY <1>1
  <2>2. ASSUME NEW s \in SUBSET S PROVE Sums(h, y, s)
    <3>1. Sums(g, y, s) /\ h[s] = g[s] /\ (s # {} => h[s \ {Pick(s)}] = g[s \ {Pick(s)}])
      BY <1>1, <1>2
    <3> HIDE DEF h
    <3> QED
      BY <3>1 DEF Sums
  <2>3. h[S] = g[S]
    OBVIOUS
  <2> HIDE DEF h
  <2> QED
    BY <2>1, <2>2, <2>3, DaysOfSums
<1>6. Parts[k][y] \in Nat
  OBVIOUS
<1>7. DaysOf(U, y) = DaysOf(S, y) + Parts[k][y]
  BY <1>3, <1>4, <1>5, <1>6
<1> QED
  BY <1>4, <1>5, <1>7 DEF U

(* No requests, no days. *)
LEMMA DaysOfNone == ASSUME NEW y \in Years PROVE DaysOf({}, y) = 0
<1>1. IsFiniteSet({}) /\ {} \in SUBSET Keys
  BY FS_EmptySet
<1>2. PICK g \in [SUBSET {} -> Nat] : \A s \in SUBSET {} : Sums(g, y, s)
  BY <1>1, SumsExist
<1>3. DaysOf({}, y) = g[{}]
  BY <1>1, <1>2, DaysOfSums
<1>4. Sums(g, y, {})
  BY <1>2
<1> QED
  BY <1>3, <1>4 DEF Sums

\* The requests in a state.
In(state) == {k \in Keys : request[k] = state}

(* The days of the requests in a state, as DaysIn has them. *)
LEMMA DaysInAre == ASSUME NEW state, NEW y PROVE DaysIn(state, y) = DaysOf(In(state), y)
  BY DEF DaysIn, DaysOf, In

-----------------------------------------------------------------------------
(* What each open transaction has done to the rows it holds, and what that comes to. *)

\* A row is p days on hold and t days taken ahead of the committed one.
Ahead(y, p, t) == row[y].pending = kept[y].pending + p /\ row[y].taken = kept[y].taken + t

\* The days a filing has on hold in a year, those a decision takes of it.
HeldDays(d, y) == IF filing[d].next = "create" \/ y < filing[d].year THEN Parts[KeyOf[d]][y] ELSE 0
SettledIn(k, y) == deciding[k] # Undecided /\ y \in YearsOf(k) \ deciding[k].years
TakenDays(k, y) == IF deciding[k].to = "APPROVED" THEN Parts[k][y] ELSE 0

(* A row that is held is ahead by what its transaction has done to it so far. *)
FilingBooks(d, y) == holder[y] = Files(d) => Ahead(y, HeldDays(d, y), 0)
DecisionBooks(k, y) ==
  /\ holder[y] = Decides(k) <=> SettledIn(k, y)
  /\ SettledIn(k, y) => Ahead(y, -Parts[k][y], TakenDays(k, y))
JobBooks(y) == holder[y] = Opens => Ahead(y, 0, 0)
Booked ==
  /\ \A d \in Deliveries : \A y \in Years : FilingBooks(d, y)
  /\ \A k \in Keys : \A y \in Years : DecisionBooks(k, y)
  /\ \A y \in Years : JobBooks(y)

(* The committed rows add up, over finitely many requests. *)
AddUp ==
  /\ IsFiniteSet({k \in Keys : request[k] # "none"})
  /\ \A y \in Years : kept[y].pending = DaysIn("PENDING", y) /\ kept[y].taken = DaysIn("APPROVED", y)

\* What a transaction's step does to the rows of others: nothing.
Leaves(who) ==
  \A y \in Years :
    /\ holder'[y] \in {holder[y], who, Free}
    /\ holder[y] \notin {Free, who} => row'[y] = row[y] /\ kept'[y] = kept[y] /\ holder'[y] = holder[y]

\* A step that changes no day of a row.
NoDays ==
  \A y \in Years : row'[y].pending = row[y].pending /\ row'[y].taken = row[y].taken /\ kept'[y] = kept[y]

(* The year's job goes on as it was when another's step leaves its rows. *)
LEMMA JobStays ==
  ASSUME NEW who, who # Opens, Leaves(who), NEW y \in Years, JobBooks(y) PROVE JobBooks(y)'
  BY Apart DEF Leaves, JobBooks, Ahead

(* So does a filing. *)
LEMMA FilingStays ==
  ASSUME NEW who, NEW d \in Deliveries, who # Files(d), Leaves(who), filing'[d] = filing[d],
         NEW y \in Years, FilingBooks(d, y)
  PROVE  FilingBooks(d, y)'
<1>1. HeldDays(d, y)' = HeldDays(d, y)
  BY DEF HeldDays
<1>2. holder'[y] = Files(d) => holder[y] = Files(d) /\ row'[y] = row[y] /\ kept'[y] = kept[y]
  BY Apart DEF Leaves
<1> QED
  BY <1>1, <1>2 DEF FilingBooks, Ahead

(* And a decision. *)
LEMMA DecisionStays ==
  ASSUME NEW who, NEW k \in Keys, who # Decides(k), Leaves(who), deciding'[k] = deciding[k],
         NEW y \in Years, DecisionBooks(k, y)
  PROVE  DecisionBooks(k, y)'
<1>1. SettledIn(k, y)' = SettledIn(k, y) /\ TakenDays(k, y)' = TakenDays(k, y)
  BY DEF SettledIn, TakenDays
<1>2. holder'[y] = Decides(k) <=> holder[y] = Decides(k)
  BY Apart DEF Leaves
<1>3. holder[y] = Decides(k) => row'[y] = row[y] /\ kept'[y] = kept[y]
  BY Apart DEF Leaves
<1> QED
  BY <1>1, <1>2, <1>3 DEF DecisionBooks, Ahead

(* A row nobody holds is not ahead. *)
LEMMA FreeRow ==
  ASSUME RowsHold, NEW y \in Years, holder[y] = Free PROVE Ahead(y, 0, 0)
  BY DEF RowsHold, Committed, RowType, Balance, Ahead

(* The job's steps change no days. *)
LEMMA JobStep ==
  ASSUME RowsHold, Booked, Leaves(Opens), NoDays \/ (\A y \in Years : holder'[y] # Opens),
         UNCHANGED <<filing, deciding>>
  PROVE  Booked'
<1>1. ASSUME NEW y \in Years PROVE JobBooks(y)'
  <2>1. CASE holder'[y] # Opens
    BY <2>1 DEF JobBooks
  <2>2. CASE NoDays /\ holder'[y] = Opens
    <3>1. Ahead(y, 0, 0)
      BY <2>2, FreeRow DEF Leaves, Booked, JobBooks
    <3> QED
      BY <2>2, <3>1 DEF NoDays, Ahead, JobBooks
  <2> QED
    BY <2>1, <2>2
<1>2. \A d \in Deliveries : \A y \in Years : FilingBooks(d, y)'
  BY Apart, FilingStays DEF Booked
<1>3. \A k \in Keys : \A y \in Years : DecisionBooks(k, y)'
  <2>1. \A k \in Keys : Decides(k) # Opens
    BY DEF Decides, Opens
  <2> QED
    BY <2>1, DecisionStays DEF Booked
<1> QED
  BY <1>1, <1>2, <1>3 DEF Booked

(* A filing's steps change its own days. *)
LEMMA FilingStepBooks ==
  ASSUME Booked, NEW d \in Deliveries, Leaves(Files(d)), UNCHANGED deciding,
         \A e \in Deliveries : e # d => filing'[e] = filing[e],
         \A y \in Years : FilingBooks(d, y)'
  PROVE  Booked'
<1>1. ASSUME NEW e \in Deliveries, NEW y \in Years PROVE FilingBooks(e, y)'
  <2>1. CASE e # d
    BY <2>1, Apart, FilingStays DEF Booked
  <2> QED
    BY <2>1
<1>2. \A k \in Keys : \A y \in Years : DecisionBooks(k, y)'
  BY Apart, DecisionStays DEF Booked
<1>3. \A y \in Years : JobBooks(y)'
  BY Apart, JobStays DEF Booked
<1> QED
  BY <1>1, <1>2, <1>3 DEF Booked

(* A decision's steps change its own. *)
LEMMA DecisionStepBooks ==
  ASSUME Booked, NEW k \in Keys, Leaves(Decides(k)), UNCHANGED filing,
         \A l \in Keys : l # k => deciding'[l] = deciding[l],
         \A y \in Years : DecisionBooks(k, y)'
  PROVE  Booked'
<1>0. Decides(k) # Opens /\ \A l \in Keys : l # k => Decides(l) # Decides(k)
  BY DEF Decides, Opens
<1>1. ASSUME NEW l \in Keys, NEW y \in Years PROVE DecisionBooks(l, y)'
  <2>1. CASE l # k
    BY <2>1, <1>0, DecisionStays DEF Booked
  <2> QED
    BY <2>1
<1>2. \A d \in Deliveries : \A y \in Years : FilingBooks(d, y)'
  BY Apart, FilingStays DEF Booked
<1>3. \A y \in Years : JobBooks(y)'
  BY <1>0, JobStays DEF Booked
<1> QED
  BY <1>1, <1>2, <1>3 DEF Booked

(* A commit and a rollback leave the rows of others. *)
LEMMA EndLeaves ==
  ASSUME NEW who \in Transactions, RowsHold, Keep(who) \/ RollBack(who)
  PROVE  Leaves(who) /\ (who # Free => \A y \in Years : holder'[y] # who)
<1>1. CASE Keep(who)
  <2>1. /\ row' = row
        /\ kept' = [y \in Years |-> IF holder[y] = who THEN row[y] ELSE kept[y]]
        /\ holder' = [y \in Years |-> IF holder[y] = who THEN Free ELSE holder[y]]
    BY <1>1 DEF Keep
  <2> QED
    BY <2>1 DEF Leaves
<1>2. CASE RollBack(who)
  <2>1. /\ kept' = kept
        /\ row' = [y \in Years |-> IF holder[y] = who THEN kept[y] ELSE row[y]]
        /\ holder' = [y \in Years |-> IF holder[y] = who THEN Free ELSE holder[y]]
    BY <1>2 DEF RollBack
  <2> QED
    BY <2>1 DEF Leaves
<1> QED
  BY <1>1, <1>2

(* A row just made has no days, as it had before. *)
LEMMA InsertBooks ==
  ASSUME NEW who \in Transactions, NEW y \in Years, RowsHold, UNCHANGED kept, Insert(who, y)
  PROVE  Leaves(who) /\ NoDays
<1>1. CASE row[y].made
  <2>1. row' = row /\ holder' = holder
    BY <1>1 DEF Insert
  <2> QED
    BY <2>1 DEF Leaves, NoDays
<1>2. CASE ~row[y].made
  <2>1. row' = [row EXCEPT ![y] = Made] /\ Holds(who, {y}) /\ row[y] = NoBalance /\ holder[y] = Free
    BY <1>2 DEF Insert, RowsHold, Committed
  <2>2. Made.pending = NoBalance.pending /\ Made.taken = NoBalance.taken
    BY DEF Made, NoBalance
  <2>3. row'[y] = Made /\ \A z \in Years : z # y => row'[z] = row[z]
    BY <2>1 DEF RowsHold, RowType
  <2>4. holder'[y] = who /\ \A z \in Years : z # y => holder'[z] = holder[z]
    BY <2>1 DEF Holds
  <2> QED
    BY <2>1, <2>2, <2>3, <2>4 DEF Leaves, NoDays
<1> QED
  BY <1>1, <1>2

(* A row carried from, or into, keeps its days. *)
LEMMA CarryBooks ==
  ASSUME NEW who \in Transactions, RowsHold, UNCHANGED kept, CarryInto(who)
  PROVE  Leaves(who) /\ NoDays
<1>1. CASE UNCHANGED <<row, holder>>
  BY <1>1 DEF Leaves, NoDays
<1>2. CASE ~UNCHANGED <<row, holder>>
  <2> DEFINE one == [row[1] EXCEPT !.out = CarriedOut(row[1]), !.closed = TRUE]
             two == [row[2] EXCEPT !.over = @ + CarriedOut(row[1])]
  <2>1. row' = [y \in Years |-> IF y = 1 THEN one ELSE two] /\ Holds(who, Years) /\ MayWrite(who, Years)
    BY <1>2 DEF CarryInto
  <2>2. row[1] \in Balance /\ row[2] \in Balance
    BY DEF RowsHold, RowType, Years
  <2>3. /\ one.pending = row[1].pending /\ one.taken = row[1].taken
        /\ two.pending = row[2].pending /\ two.taken = row[2].taken
    BY <2>2 DEF Balance
  <2>4. row'[1] = one /\ row'[2] = two
    BY <2>1 DEF Years
  <2>5. \A y \in Years : holder'[y] = who /\ holder[y] \in {Free, who}
    BY <2>1 DEF Holds, MayWrite
  <2> HIDE DEF one, two
  <2> QED
    BY <2>3, <2>4, <2>5 DEF Leaves, NoDays, Years
<1> QED
  BY <1>1, <1>2

(* What a filing has on hold it holds the row for. *)
LEMMA HoldsWhatItHeld ==
  ASSUME IInv, NEW d \in Deliveries, NEW y \in Years, filing[d].next # "none", holder[y] # Files(d)
  PROVE  HeldDays(d, y) = 0
<1>1. FiledOne(d) /\ KeyOf[d] \in Keys
  BY Callers DEF IInv, Filed
<1>2. CASE filing[d].next = "create" \/ y < filing[d].year
  <2>1. y \notin YearsOf(KeyOf[d])
    BY <1>1, <1>2 DEF FiledOne
  <2>2. Parts[KeyOf[d]][y] \in Nat
    BY <1>1
  <2> QED
    BY <2>1, <2>2 DEF YearsOf, HeldDays
<1> QED
  BY <1>2 DEF HeldDays

(* Making a row or carrying into it keeps what the filing has on hold. *)
LEMMA FilingGoesOn ==
  ASSUME IInv, Booked, NEW d \in Deliveries, filing[d].next # "none", NoDays, Leaves(Files(d)),
         \A y \in Years : HeldDays(d, y)' = HeldDays(d, y)
  PROVE  \A y \in Years : FilingBooks(d, y)'
<1> SUFFICES ASSUME NEW y \in Years, holder'[y] = Files(d)
             PROVE  Ahead(y, HeldDays(d, y), 0)'
  BY DEF FilingBooks
<1>1. HeldDays(d, y)' = HeldDays(d, y)
  OBVIOUS
<1>2. Ahead(y, HeldDays(d, y), 0)
  <2>1. CASE holder[y] = Files(d)
    BY <2>1 DEF Booked, FilingBooks
  <2>2. CASE holder[y] = Free
    <3>1. HeldDays(d, y) = 0
      BY <2>2, Apart, HoldsWhatItHeld
    <3> QED
      BY <2>2, <3>1, FreeRow DEF IInv
  <2>3. CASE holder[y] # Files(d) /\ holder[y] # Free
    BY <2>3 DEF Leaves
  <2> QED
    BY <2>1, <2>2, <2>3
<1> QED
  BY <1>1, <1>2 DEF Ahead, NoDays

(* Every statement of a filing books its days. *)
LEMMA FilingBooksDays ==
  ASSUME IInv, Booked, NEW d \in Deliveries, File(d) PROVE Booked'
<1>0. /\ Files(d) \in Transactions /\ Files(d) # Free /\ KeyOf[d] \in Keys
      /\ YearsOf(KeyOf[d]) \subseteq Years /\ RowsHold /\ FiledOne(d)
      /\ filing \in [Deliveries -> [year : 0 .. 2, next : {"none", "ensure", "carry", "hold", "create"}]]
      /\ \A y \in Years : Parts[KeyOf[d]][y] \in Nat
  BY Callers, Apart DEF IInv, RestType, Filed
<1>1. ASSUME NEW f, filing' = [filing EXCEPT ![d] = f]
      PROVE  filing'[d] = f /\ \A e \in Deliveries : e # d => filing'[e] = filing[e]
  BY <1>0, <1>1
<1>2. ASSUME Keep(Files(d)) \/ RollBack(Files(d)), filing' = [filing EXCEPT ![d] = Resting], UNCHANGED deciding
      PROVE  Booked'
  <2>1. Leaves(Files(d)) /\ \A y \in Years : holder'[y] # Files(d)
    BY <1>0, <1>2, EndLeaves
  <2>2. \A y \in Years : FilingBooks(d, y)'
    BY <2>1 DEF FilingBooks
  <2> QED
    BY <1>1, <1>2, <2>1, <2>2, FilingStepBooks
<1>3. CASE BeginFiling(d)
  <2>1. /\ filing[d] = Resting /\ filing' = [filing EXCEPT ![d] = Begun(KeyOf[d])]
        /\ UNCHANGED <<row, kept, holder, deciding>>
    BY <1>3 DEF BeginFiling
  <2>2. HeldDays(d, 1) = 0 /\ HeldDays(d, 2) = 0
    BY <2>1 DEF HeldDays, Resting
  <2>3. filing'[d].next = "ensure" /\ filing'[d].year = FirstOf(YearsOf(KeyOf[d]))
    BY <1>1, <2>1 DEF Begun
  <2>4. \A y \in Years : HeldDays(d, y)' = 0
    BY <1>0, <2>3 DEF HeldDays, FirstOf, YearsOf, Years
  <2>5. \A y \in Years : FilingBooks(d, y)'
    BY <2>1, <2>2, <2>4 DEF Years, Booked, FilingBooks, Ahead
  <2>6. Leaves(Files(d))
    BY <2>1 DEF Leaves
  <2> QED
    BY <1>1, <2>1, <2>5, <2>6, FilingStepBooks
<1>4. CASE Ensure(d)
  <2> DEFINE y == filing[d].year
             f == [filing[d] EXCEPT !.next = IF ~row[y].made /\ y = 2 /\ y <= thisYear THEN "carry" ELSE "hold"]
  <2>1. /\ filing[d].next = "ensure" /\ Insert(Files(d), y)
        /\ filing' = [filing EXCEPT ![d] = f] /\ UNCHANGED <<kept, deciding>>
    BY <1>0, <1>4 DEF Ensure
  <2>2. y \in Years
    BY <1>0, <2>1 DEF FiledOne
  <2>3. filing'[d].next # "create" /\ filing'[d].year = y
    BY <1>0, <1>1, <2>1
  <2>4. \A z \in Years : HeldDays(d, z)' = HeldDays(d, z)
    BY <2>1, <2>3 DEF HeldDays
  <2>5. Leaves(Files(d)) /\ NoDays
    BY <1>0, <2>1, <2>2, InsertBooks
  <2>6. \A z \in Years : FilingBooks(d, z)'
    BY <2>1, <2>4, <2>5, FilingGoesOn
  <2> QED
    BY <1>1, <2>1, <2>5, <2>6, FilingStepBooks
<1>5. CASE CarryOne(d)
  <2>1. /\ filing[d].next = "carry" /\ CarryInto(Files(d))
        /\ filing' = [filing EXCEPT ![d] = [filing[d] EXCEPT !.next = "hold"]] /\ UNCHANGED <<kept, deciding>>
    BY <1>0, <1>5 DEF CarryOne
  <2>2. filing'[d].next # "create" /\ filing'[d].year = filing[d].year
    BY <1>0, <1>1, <2>1
  <2>3. \A z \in Years : HeldDays(d, z)' = HeldDays(d, z)
    BY <2>1, <2>2 DEF HeldDays
  <2>4. Leaves(Files(d)) /\ NoDays
    BY <1>0, <2>1, CarryBooks
  <2>5. \A z \in Years : FilingBooks(d, z)'
    BY <2>1, <2>3, <2>4, FilingGoesOn
  <2> QED
    BY <1>1, <2>1, <2>4, <2>5, FilingStepBooks
<1>6. CASE Hold(d)
  <2> DEFINE y == filing[d].year
             days == Parts[KeyOf[d]][y]
             rest == {z \in YearsOf(KeyOf[d]) : z > y}
             f == IF rest = {} THEN [year |-> y, next |-> "create"]
                  ELSE [year |-> FirstOf(rest), next |-> "ensure"]
  <2>1. filing[d].next = "hold" /\ MayWrite(Files(d), {y}) /\ UNCHANGED deciding
    BY <1>6 DEF Hold
  <2>2. y \in Years /\ days \in Nat
    BY <1>0, <2>1 DEF FiledOne
  <2>3. CASE Fits(row[y], days)
    <3>1. /\ row' = [row EXCEPT ![y].pending = @ + days]
          /\ Holds(Files(d), {y}) /\ filing' = [filing EXCEPT ![d] = f] /\ UNCHANGED kept
      BY <1>6, <2>3 DEF Hold
    <3>2. row \in [Years -> Balance] /\ kept \in [Years -> Balance]
      BY <1>0 DEF RowsHold, RowType
    <3>3. /\ row'[y].pending = row[y].pending + days /\ row'[y].taken = row[y].taken
          /\ \A z \in Years : z # y => row'[z] = row[z]
      <4> HIDE DEF days, y
      <4> QED
        BY <2>2, <3>1, <3>2 DEF Balance
    <3>4. /\ holder[y] \in {Free, Files(d)} /\ holder'[y] = Files(d)
          /\ \A z \in Years : z # y => holder'[z] = holder[z]
      BY <2>1, <2>2, <3>1 DEF Holds, MayWrite
    <3>5. Leaves(Files(d))
      <4> HIDE DEF y
      <4> QED
        BY <3>1, <3>3, <3>4 DEF Leaves
    <3>6. HeldDays(d, y) = 0 /\ Ahead(y, 0, 0)
      <4>1. HeldDays(d, y) = 0
        BY <2>1, <2>2 DEF HeldDays, Years
      <4> HIDE DEF y
      <4>2. CASE holder[y] = Free
        BY <1>0, <2>2, <4>1, <4>2, FreeRow
      <4>3. CASE holder[y] = Files(d)
        BY <2>2, <4>1, <4>3 DEF Booked, FilingBooks
      <4> QED
        BY <3>4, <4>1, <4>2, <4>3
    <3>7. \A z \in Years : HeldDays(d, z)' = IF z = y THEN days ELSE HeldDays(d, z)
      <4>1. filing'[d] = f
        BY <1>1, <3>1
      <4>2. PICK part \in [Years -> Nat] : part = Parts[KeyOf[d]]
        BY <1>0
      <4>3. /\ \A z \in Years : HeldDays(d, z) = IF z < y THEN part[z] ELSE 0
            /\ \A z \in Years : HeldDays(d, z)' = IF f.next = "create" \/ z < f.year THEN part[z] ELSE 0
        <5> HIDE DEF f
        <5> QED
          BY <2>1, <4>1, <4>2 DEF HeldDays
      <4>4. CASE rest = {}
        <5>1. f = [year |-> y, next |-> "create"] /\ \A z \in Years : z > y => part[z] = 0
          BY <4>2, <4>4 DEF YearsOf
        <5>2. \A z \in Years : HeldDays(d, z)' = part[z]
          BY <4>3, <5>1
        <5>3. \A z \in Years : z # y => HeldDays(d, z) = part[z]
          BY <2>2, <4>3, <5>1 DEF Years
        <5> QED
          BY <2>2, <4>2, <5>2, <5>3
      <4>5. CASE rest # {}
        <5>1. f = [year |-> 2, next |-> "ensure"] /\ y = 1
          BY <1>0, <2>2, <4>5 DEF Years, FirstOf
        <5>2. days = part[1]
          BY <4>2, <5>1
        <5>3. HeldDays(d, 1)' = part[1] /\ HeldDays(d, 2)' = 0 /\ HeldDays(d, 2) = 0
          <6>1. f.next = "ensure" /\ f.year = 2
            BY <5>1
          <6> HIDE DEF f
          <6> QED
            BY <4>3, <5>1, <6>1 DEF Years
        <5> HIDE DEF days
        <5> QED
          BY <5>1, <5>2, <5>3 DEF Years
      <4> QED
        BY <4>4, <4>5
    <3>8. \A z \in Years : FilingBooks(d, z)'
      <4> HIDE DEF y, days
      <4> SUFFICES ASSUME NEW z \in Years PROVE FilingBooks(d, z)'
        OBVIOUS
      <4>1. CASE z = y
        <5>1. row[y].pending \in Int /\ row[y].taken \in Int /\ kept[y].pending \in Int /\ kept[y].taken \in Int
          BY <2>2, <3>2 DEF Balance
        <5>2. row[y].pending = kept[y].pending /\ row[y].taken = kept[y].taken
          BY <3>6, <5>1 DEF Ahead
        <5>3. row'[y].pending = kept'[y].pending + days /\ row'[y].taken = kept'[y].taken + 0
          BY <2>2, <3>1, <3>3, <5>1, <5>2
        <5> QED
          BY <3>7, <4>1, <5>3 DEF FilingBooks, Ahead
      <4>2. CASE z # y
        <5>1. FilingBooks(d, z) /\ holder'[z] = holder[z] /\ row'[z] = row[z] /\ kept'[z] = kept[z]
              /\ HeldDays(d, z)' = HeldDays(d, z)
          BY <3>1, <3>3, <3>4, <3>7, <4>2 DEF Booked
        <5> QED
          BY <5>1 DEF FilingBooks, Ahead
      <4> QED
        BY <4>1, <4>2
    <3> HIDE DEF f
    <3> QED
      BY <1>1, <2>1, <3>1, <3>5, <3>8, FilingStepBooks
  <2>4. CASE ~Fits(row[y], days)
    <3>1. RollBack(Files(d)) /\ filing' = [filing EXCEPT ![d] = Resting]
      BY <1>6, <2>4 DEF Hold
    <3> QED
      BY <1>2, <2>1, <3>1
  <2> QED
    BY <2>3, <2>4
<1>7. CASE CreateRequest(d)
  BY <1>2, <1>7 DEF CreateRequest
<1>8. CASE FilingFails(d)
  BY <1>2, <1>8 DEF FilingFails
<1> QED
  BY <1>3, <1>4, <1>5, <1>6, <1>7, <1>8 DEF File

(* Every statement of a decision books its days. *)
LEMMA DecisionBooksDays ==
  ASSUME IInv, Booked, NEW k \in Keys, Decide(k) PROVE Booked'
<1>0. /\ Decides(k) \in Transactions /\ Decides(k) # Free /\ YearsOf(k) \subseteq Years /\ RowsHold /\ DecidedOne(k)
      /\ deciding \in [Keys -> [to : {"none", "APPROVED", "REJECTED", "CANCELLED"}, years : SUBSET Years]]
      /\ \A y \in Years : Parts[k][y] \in Nat
      /\ \A y \in Years : DecisionBooks(k, y)
  BY Callers, Apart DEF IInv, RestType, Decided, Booked
<1>1. ASSUME NEW c, deciding' = [deciding EXCEPT ![k] = c]
      PROVE  deciding'[k] = c /\ \A l \in Keys : l # k => deciding'[l] = deciding[l]
  BY <1>0, <1>1
<1>2. ASSUME Keep(Decides(k)) \/ RollBack(Decides(k)), deciding' = [deciding EXCEPT ![k] = Undecided],
             UNCHANGED filing
      PROVE  Booked'
  <2>1. Leaves(Decides(k)) /\ \A y \in Years : holder'[y] # Decides(k)
    BY <1>0, <1>2, EndLeaves
  <2>2. deciding'[k] = Undecided
    BY <1>1, <1>2
  <2>3. \A y \in Years : DecisionBooks(k, y)'
    BY <2>1, <2>2 DEF DecisionBooks, SettledIn
  <2> QED
    BY <1>1, <1>2, <2>1, <2>3, DecisionStepBooks
<1>3. ASSUME NEW to \in {"APPROVED", "REJECTED", "CANCELLED"}, ClaimRequest(k, to) PROVE Booked'
  <2>1. /\ deciding[k] = Undecided /\ deciding' = [deciding EXCEPT ![k] = [to |-> to, years |-> YearsOf(k)]]
        /\ UNCHANGED <<row, kept, holder, filing>>
    BY <1>3 DEF ClaimRequest, MayClaim
  <2>2. deciding'[k].years = YearsOf(k)
    BY <1>1, <2>1
  <2>3. \A y \in Years : ~SettledIn(k, y) /\ ~SettledIn(k, y)'
    BY <2>1, <2>2 DEF SettledIn
  <2>4. \A y \in Years : DecisionBooks(k, y)'
    BY <1>0, <2>1, <2>3 DEF DecisionBooks
  <2>5. Leaves(Decides(k))
    BY <2>1 DEF Leaves
  <2> QED
    BY <1>1, <2>1, <2>4, <2>5, DecisionStepBooks
<1>4. CASE Settle(k)
  <2>1. PICK y \in Years : y = FirstOf(deciding[k].years) /\ y \in YearsOf(k) /\ y \in deciding[k].years
    BY <1>0, <1>4, First DEF Settle, DecidedOne
  <2>2. PICK days \in Nat : days = Parts[k][y]
    BY <1>0
  <2>3. /\ MayWrite(Decides(k), {y}) /\ Holds(Decides(k), {y})
        /\ deciding' = [deciding EXCEPT ![k].years = @ \ {y}]
        /\ UNCHANGED <<kept, filing>>
        /\ row' = [row EXCEPT ![y].pending = @ - days,
                              ![y].taken = IF deciding[k].to = "APPROVED" THEN @ + days ELSE @]
    BY <1>4, <2>1, <2>2 DEF Settle
  <2>4. deciding[k] # Undecided /\ ~SettledIn(k, y)
    BY <2>1 DEF SettledIn, Undecided
  <2>5. holder[y] = Free /\ holder'[y] = Decides(k) /\ \A z \in Years : z # y => holder'[z] = holder[z]
    BY <1>0, <2>3, <2>4 DEF Holds, MayWrite, DecisionBooks
  <2>6. row \in [Years -> Balance] /\ kept \in [Years -> Balance] /\ row[y] = kept[y]
    BY <1>0, <2>5 DEF RowsHold, RowType, Committed
  <2>7. row[y].pending \in Int /\ row[y].taken \in Int
    BY <2>6 DEF Balance
  <2>8. /\ row'[y].pending = row[y].pending - days
        /\ row'[y].taken = IF deciding[k].to = "APPROVED" THEN row[y].taken + days ELSE row[y].taken
        /\ \A z \in Years : z # y => row'[z] = row[z]
    BY <2>3, <2>6 DEF Balance
  <2>9. /\ deciding'[k].years = deciding[k].years \ {y} /\ deciding'[k].to = deciding[k].to
        /\ deciding'[k] # Undecided
        /\ \A l \in Keys : l # k => deciding'[l] = deciding[l]
    <3>1. deciding[k].to # "none"
      BY <1>0, <2>4 DEF DecidedOne
    <3>2. deciding'[k] = [deciding[k] EXCEPT !.years = deciding[k].years \ {y}]
          /\ \A l \in Keys : l # k => deciding'[l] = deciding[l]
      BY <1>0, <2>3
    <3>3. deciding'[k].years = deciding[k].years \ {y} /\ deciding'[k].to = deciding[k].to
      BY <1>0, <3>2
    <3>4. deciding'[k] # Undecided
      BY <3>1, <3>3 DEF Undecided
    <3> QED
      BY <3>2, <3>3, <3>4
  <2>10. DecisionBooks(k, y)'
    <3>1. SettledIn(k, y)'
      BY <2>1, <2>9 DEF SettledIn
    <3>2. Parts[k][y] = days /\ TakenDays(k, y)' = IF deciding[k].to = "APPROVED" THEN days ELSE 0
      BY <2>2, <2>9 DEF TakenDays
    <3>3. row'[y].pending = kept'[y].pending + (-days)
      BY <2>3, <2>6, <2>7, <2>8
    <3>4. row'[y].taken = kept'[y].taken + (IF deciding[k].to = "APPROVED" THEN days ELSE 0)
      BY <2>3, <2>6, <2>7, <2>8
    <3>5. Ahead(y, -Parts[k][y], TakenDays(k, y))'
      BY <3>2, <3>3, <3>4 DEF Ahead
    <3> QED
      BY <2>5, <3>1, <3>5 DEF DecisionBooks
  <2>11. ASSUME NEW z \in Years, z # y PROVE DecisionBooks(k, z)'
    <3>1. SettledIn(k, z)' = SettledIn(k, z) /\ TakenDays(k, z)' = TakenDays(k, z)
      BY <2>4, <2>9, <2>11 DEF SettledIn, TakenDays
    <3>2. holder'[z] = holder[z] /\ row'[z] = row[z] /\ kept' = kept /\ DecisionBooks(k, z)
      BY <1>0, <2>3, <2>5, <2>8, <2>11
    <3> QED
      BY <3>1, <3>2 DEF DecisionBooks, Ahead
  <2>12. Leaves(Decides(k))
    BY <2>3, <2>5, <2>8 DEF Leaves
  <2> QED
    BY <2>3, <2>9, <2>10, <2>11, <2>12, DecisionStepBooks
<1>5. CASE EndDecision(k)
  BY <1>2, <1>5 DEF EndDecision
<1>6. CASE DecisionFails(k)
  BY <1>2, <1>6 DEF DecisionFails
<1> QED
  BY <1>3, <1>4, <1>5, <1>6 DEF Decide

(* Every statement of the year's job. *)
LEMMA OpenBooksDays ==
  ASSUME IInv, Booked, Open PROVE Booked'
<1>0. Opens \in Transactions /\ Opens # Free /\ RowsHold
  BY Callers, Apart DEF IInv
<1>1. CASE NewYear
  <2>1. UNCHANGED <<row, kept, holder, filing, deciding>>
    BY <1>1 DEF NewYear
  <2>2. Leaves(Opens) /\ NoDays
    BY <2>1 DEF Leaves, NoDays
  <2> QED
    BY <1>0, <2>1, <2>2, JobStep
<1>2. CASE OpenRows
  BY <1>0, <1>2, InsertBooks, JobStep DEF OpenRows, Years
<1>3. CASE OpenCarry
  BY <1>0, <1>3, CarryBooks, JobStep DEF OpenCarry
<1>4. CASE OpenEnds \/ OpenFails
  <2>1. (Keep(Opens) \/ RollBack(Opens)) /\ UNCHANGED <<filing, deciding>>
    BY <1>4 DEF OpenEnds, OpenFails
  <2>2. Leaves(Opens) /\ \A y \in Years : holder'[y] # Opens
    BY <1>0, <2>1, EndLeaves
  <2> QED
    BY <1>0, <2>1, <2>2, JobStep
<1> QED
  BY <1>1, <1>2, <1>3, <1>4 DEF Open

\* The states of a request.
ReqStates == {"none", "PENDING", "APPROVED", "REJECTED", "CANCELLED"}

(* The requests there are in a state are finitely many. *)
LEMMA InFinite ==
  ASSUME IsFiniteSet({k \in Keys : request[k] # "none"}), NEW state, state # "none"
  PROVE  In(state) \in SUBSET Keys /\ IsFiniteSet(In(state))
<1>1. In(state) \subseteq {k \in Keys : request[k] # "none"}
  BY DEF In
<1> QED
  BY <1>1, FS_Subset DEF In

(* The days of the requests in a state, before and after a step. *)
LEMMA DaysInNext ==
  ASSUME NEW state, NEW y PROVE DaysIn(state, y)' = DaysOf(In(state)', y)
  BY DEF DaysIn, DaysOf, In, MapThenSumSet, MapThenFoldSet

(* A request that comes to a state brings its days. *)
LEMMA DaysGained ==
  ASSUME IsFiniteSet({k \in Keys : request[k] # "none"}), request \in [Keys -> ReqStates],
         NEW state \in ReqStates, state # "none", NEW k \in Keys, request[k] # state,
         request' = [request EXCEPT ![k] = state], NEW y \in Years
  PROVE  DaysIn(state, y) \in Nat /\ DaysIn(state, y)' = DaysIn(state, y) + Parts[k][y]
<1>1. In(state)' = In(state) \cup {k} /\ k \in Keys \ In(state)
  BY DEF In
<1>2. DaysIn(state, y)' = DaysOf(In(state)', y) /\ DaysIn(state, y) = DaysOf(In(state), y)
  BY DaysInAre, DaysInNext
<1>3. DaysOf(In(state), y) \in Nat /\ DaysOf(In(state) \cup {k}, y) = DaysOf(In(state), y) + Parts[k][y]
  BY <1>1, InFinite, DaysOfOneMore
<1> QED
  BY <1>1, <1>2, <1>3

(* A request that leaves a state takes its days along. *)
LEMMA DaysLost ==
  ASSUME IsFiniteSet({k \in Keys : request[k] # "none"}), request \in [Keys -> ReqStates],
         NEW state \in ReqStates, state # "none", NEW k \in Keys, request[k] = state,
         NEW other \in ReqStates, other # state,
         request' = [request EXCEPT ![k] = other], NEW y \in Years
  PROVE  DaysIn(state, y)' \in Nat /\ DaysIn(state, y) = DaysIn(state, y)' + Parts[k][y]
<1> DEFINE S == In(state)'
<1>1. In(state) = S \cup {k} /\ k \in Keys \ S /\ S \subseteq In(state)
  BY DEF In
<1>2. DaysIn(state, y)' = DaysOf(S, y) /\ DaysIn(state, y) = DaysOf(In(state), y)
  BY DaysInAre, DaysInNext
<1>3. S \in SUBSET Keys /\ IsFiniteSet(S)
  BY <1>1, InFinite, FS_Subset
<1> HIDE DEF S
<1>4. DaysOf(S, y) \in Nat /\ DaysOf(S \cup {k}, y) = DaysOf(S, y) + Parts[k][y]
  BY <1>1, <1>3, DaysOfOneMore
<1> QED
  BY <1>1, <1>2, <1>4

(* Requests that come and go between other states change nothing. *)
LEMMA DaysElsewhere ==
  ASSUME request \in [Keys -> ReqStates], NEW state, NEW k \in Keys, request[k] # state,
         NEW other \in ReqStates, other # state,
         request' = [request EXCEPT ![k] = other], NEW y
  PROVE  DaysIn(state, y)' = DaysIn(state, y)
<1>1. In(state)' = In(state)
  BY DEF In
<1> QED
  BY <1>1, DaysInAre, DaysInNext

(* The requests stay finitely many when one of them changes. *)
LEMMA StillFinite ==
  ASSUME IsFiniteSet({k \in Keys : request[k] # "none"}), request \in [Keys -> ReqStates], NEW k \in Keys,
         NEW other \in ReqStates, request' = [request EXCEPT ![k] = other]
  PROVE  IsFiniteSet({l \in Keys : request'[l] # "none"})
<1>1. {l \in Keys : request'[l] # "none"} \subseteq {l \in Keys : request[l] # "none"} \cup {k}
  OBVIOUS
<1>2. IsFiniteSet({l \in Keys : request[l] # "none"} \cup {k})
  BY FS_AddElement
<1> QED
  BY <1>1, <1>2, FS_Subset

(* What adds up goes on adding up while no committed day and no request changes. *)
LEMMA StillAddsUp ==
  ASSUME AddUp, UNCHANGED request,
         \A y \in Years : kept'[y].pending = kept[y].pending /\ kept'[y].taken = kept[y].taken
  PROVE  AddUp'
<1>1. \A y \in Years : DaysIn("PENDING", y)' = DaysIn("PENDING", y) /\ DaysIn("APPROVED", y)' = DaysIn("APPROVED", y)
  <2>1. ASSUME NEW state PROVE In(state)' = In(state)
    BY DEF In
  <2> QED
    BY <2>1, DaysInAre, DaysInNext
<1> QED
  BY <1>1 DEF AddUp

(* A request that is filed brings the days its transaction has on hold. *)
LEMMA FiledAddsUp ==
  ASSUME IInv, Booked, AddUp, NEW d \in Deliveries, CreateRequest(d), request[KeyOf[d]] = "none" PROVE AddUp'
<1> DEFINE k == KeyOf[d]
<1>1. /\ filing[d].next = "create" /\ Keep(Files(d)) /\ request' = [request EXCEPT ![k] = "PENDING"]
  BY DEF CreateRequest
<1>2. k \in Keys /\ request \in [Keys -> ReqStates] /\ RowsHold
  BY Callers DEF IInv, RestType, ReqStates
<1>3. kept' = [y \in Years |-> IF holder[y] = Files(d) THEN row[y] ELSE kept[y]]
  BY <1>1 DEF Keep
<1> HIDE DEF k
<1>4. ASSUME NEW y \in Years
      PROVE  kept'[y].pending = kept[y].pending + Parts[k][y] /\ kept'[y].taken = kept[y].taken
  <2>1. HeldDays(d, y) = Parts[k][y]
    BY <1>1 DEF HeldDays, k
  <2>2. kept[y].pending \in Int /\ kept[y].taken \in Int
    BY <1>2 DEF RowsHold, RowType, Balance
  <2>3. CASE holder[y] = Files(d)
    <3>1. Ahead(y, HeldDays(d, y), 0)
      BY <2>3 DEF Booked, FilingBooks
    <3> QED
      BY <1>3, <2>1, <2>2, <2>3, <3>1 DEF Ahead
  <2>4. CASE holder[y] # Files(d)
    <3>1. HeldDays(d, y) = 0
      BY <1>1, <2>4, HoldsWhatItHeld
    <3> QED
      BY <1>3, <2>1, <2>2, <2>4, <3>1
  <2> QED
    BY <2>3, <2>4
<1>5. ASSUME NEW y \in Years
      PROVE  kept'[y].pending = DaysIn("PENDING", y)' /\ kept'[y].taken = DaysIn("APPROVED", y)'
  <2>1. DaysIn("PENDING", y)' = DaysIn("PENDING", y) + Parts[k][y]
    BY <1>1, <1>2, DaysGained DEF AddUp, k, ReqStates
  <2>2. DaysIn("APPROVED", y)' = DaysIn("APPROVED", y)
    BY <1>1, <1>2, DaysElsewhere DEF k, ReqStates
  <2> QED
    BY <1>4, <2>1, <2>2 DEF AddUp
<1>6. IsFiniteSet({l \in Keys : request'[l] # "none"})
  BY <1>1, <1>2, StillFinite DEF AddUp, ReqStates
<1> QED
  BY <1>5, <1>6 DEF AddUp

(* A request that is decided takes its days off hold, and counts them when it is approved. *)
LEMMA DecidedAddsUp ==
  ASSUME IInv, Booked, AddUp, NEW k \in Keys, EndDecision(k) PROVE AddUp'
<1>1. /\ deciding[k] # Undecided /\ deciding[k].years = {} /\ Keep(Decides(k))
      /\ request' = [request EXCEPT ![k] = deciding[k].to]
  BY DEF EndDecision
<1>2. /\ request \in [Keys -> ReqStates] /\ RowsHold /\ request[k] = "PENDING"
      /\ deciding[k].to \in {"APPROVED", "REJECTED", "CANCELLED"}
  BY <1>1 DEF IInv, RestType, Decided, DecidedOne, ReqStates
<1>3. kept' = [y \in Years |-> IF holder[y] = Decides(k) THEN row[y] ELSE kept[y]]
  BY <1>1 DEF Keep
<1>4. ASSUME NEW y \in Years
      PROVE  /\ kept'[y].pending = kept[y].pending - Parts[k][y]
             /\ kept'[y].taken = kept[y].taken + TakenDays(k, y)
  <2>1. PICK days \in Nat : days = Parts[k][y]
    OBVIOUS
  <2>2. kept[y].pending \in Int /\ kept[y].taken \in Int
    BY <1>2 DEF RowsHold, RowType, Balance
  <2>3. DecisionBooks(k, y)
    BY DEF Booked
  <2>4. CASE y \in YearsOf(k)
    <3>1. SettledIn(k, y)
      BY <1>1, <2>4 DEF SettledIn
    <3>2. holder[y] = Decides(k) /\ Ahead(y, -Parts[k][y], TakenDays(k, y))
      BY <2>3, <3>1 DEF DecisionBooks
    <3>3. kept'[y] = row[y]
      BY <1>3, <3>2
    <3> QED
      BY <2>1, <2>2, <3>2, <3>3 DEF Ahead
  <2>5. CASE y \notin YearsOf(k)
    <3>1. ~SettledIn(k, y) /\ days = 0
      BY <2>1, <2>5 DEF SettledIn, YearsOf
    <3>2. kept'[y] = kept[y] /\ TakenDays(k, y) = 0
      BY <1>3, <2>1, <2>3, <3>1 DEF DecisionBooks, TakenDays
    <3> QED
      BY <2>1, <2>2, <3>1, <3>2
  <2> QED
    BY <2>4, <2>5
<1>5. ASSUME NEW y \in Years
      PROVE  kept'[y].pending = DaysIn("PENDING", y)' /\ kept'[y].taken = DaysIn("APPROVED", y)'
  <2>1. DaysIn("PENDING", y)' \in Nat /\ DaysIn("PENDING", y) = DaysIn("PENDING", y)' + Parts[k][y]
    BY <1>1, <1>2, DaysLost DEF AddUp, ReqStates
  <2>2. kept'[y].pending = DaysIn("PENDING", y)'
    BY <1>4, <2>1 DEF AddUp
  <2>3. kept[y].taken = DaysIn("APPROVED", y) /\ kept[y].taken \in Int
    BY <1>2 DEF AddUp, RowsHold, RowType, Balance
  <2>4. CASE deciding[k].to = "APPROVED"
    <3>1. DaysIn("APPROVED", y)' = DaysIn("APPROVED", y) + Parts[k][y]
      BY <1>1, <1>2, <2>4, DaysGained DEF AddUp, ReqStates
    <3> QED
      BY <1>4, <2>2, <2>3, <2>4, <3>1 DEF TakenDays
  <2>5. CASE deciding[k].to # "APPROVED"
    <3>1. DaysIn("APPROVED", y)' = DaysIn("APPROVED", y)
      BY <1>1, <1>2, <2>5, DaysElsewhere DEF ReqStates
    <3> QED
      BY <1>4, <2>2, <2>3, <2>5, <3>1 DEF TakenDays
  <2> QED
    BY <2>4, <2>5
<1>6. IsFiniteSet({l \in Keys : request'[l] # "none"})
  BY <1>1, <1>2, StillFinite DEF AddUp, ReqStates
<1> QED
  BY <1>5, <1>6 DEF AddUp

(* The days add up after every step. *)
LEMMA NextAddsUp ==
  ASSUME IInv, Booked, AddUp, LeaveNext PROVE AddUp'
<1>1. ASSUME UNCHANGED <<kept, request>> PROVE AddUp'
  BY <1>1, StillAddsUp
<1>2. ASSUME NEW d \in Deliveries, File(d) PROVE AddUp'
  <2>1. CASE BeginFiling(d) \/ Ensure(d) \/ CarryOne(d) \/ Hold(d) \/ FilingFails(d)
    BY <1>1, <2>1 DEF BeginFiling, Ensure, CarryOne, Hold, FilingFails, RollBack
  <2>2. CASE CreateRequest(d)
    BY <1>1, <2>2, FiledAddsUp DEF CreateRequest, RollBack
  <2> QED
    BY <1>2, <2>1, <2>2 DEF File
<1>3. ASSUME NEW k \in Keys, Decide(k) PROVE AddUp'
  <2>1. CASE EndDecision(k)
    BY <2>1, DecidedAddsUp
  <2>2. CASE ~EndDecision(k)
    BY <1>1, <1>3, <2>2 DEF Decide, ClaimRequest, Settle, DecisionFails, RollBack
  <2> QED
    BY <2>1, <2>2
<1>4. CASE Open
  <2>1. CASE OpenEnds
    <3>1. /\ UNCHANGED request
          /\ kept' = [y \in Years |-> IF holder[y] = Opens THEN row[y] ELSE kept[y]]
      BY <2>1 DEF OpenEnds, Keep
    <3>2. ASSUME NEW y \in Years PROVE kept'[y].pending = kept[y].pending /\ kept'[y].taken = kept[y].taken
      <4>1. kept[y].pending \in Int /\ kept[y].taken \in Int
        BY DEF IInv, RowsHold, RowType, Balance
      <4>2. CASE holder[y] = Opens
        BY <3>1, <4>1, <4>2 DEF Booked, JobBooks, Ahead
      <4>3. CASE holder[y] # Opens
        BY <3>1, <4>3
      <4> QED
        BY <4>2, <4>3
    <3> QED
      BY <3>1, <3>2, StillAddsUp
  <2>2. CASE ~OpenEnds
    BY <1>1, <1>4, <2>2 DEF Open, NewYear, OpenRows, OpenCarry, OpenFails, RollBack
  <2> QED
    BY <2>1, <2>2
<1> QED
  BY <1>2, <1>3, <1>4 DEF LeaveNext

(* No request and no transaction yet: nothing is booked, and nothing to add up. *)
LEMMA InitBooked == LeaveInit => Booked /\ AddUp
<1> SUFFICES ASSUME LeaveInit PROVE Booked /\ AddUp
  OBVIOUS
<1>1. /\ kept = row /\ \A y \in Years : holder[y] = Free /\ row[y] \in {NoBalance, Made}
      /\ \A k \in Keys : request[k] = "none" /\ deciding[k] = Undecided
  BY DEF LeaveInit, Years
<1>2. Booked
  BY <1>1, Apart DEF Booked, FilingBooks, DecisionBooks, JobBooks, SettledIn
<1>3. {k \in Keys : request[k] # "none"} = {} /\ IsFiniteSet({k \in Keys : request[k] # "none"})
  <2>1. {k \in Keys : request[k] # "none"} = {}
    BY <1>1
  <2> QED
    BY <2>1, FS_EmptySet
<1>4. ASSUME NEW y \in Years, NEW state, state # "none" PROVE DaysIn(state, y) = 0
  <2>1. In(state) = {}
    BY <1>1, <1>4 DEF In
  <2> QED
    BY <2>1, DaysInAre, DaysOfNone
<1>5. \A y \in Years : kept[y].pending = 0 /\ kept[y].taken = 0
  BY <1>1 DEF NoBalance, Made
<1>6. AddUp
  BY <1>3, <1>4, <1>5 DEF AddUp
<1> QED
  BY <1>2, <1>6

(* Whatever was filed, decided, cancelled or rolled back between, the committed balance of a *)
(* year holds the days of the requests that wait and counts those of the approved ones, each *)
(* once, and what left the ended year is what the next one got (hold, settle, carryInto).    *)
THEOREM DaysAreBooked == LeaveSpec => []DaysAddUp
<1>1. IInv /\ Booked /\ AddUp /\ [LeaveNext]_leaveVars => (Booked /\ AddUp)'
  <2> SUFFICES ASSUME IInv, Booked, AddUp, [LeaveNext]_leaveVars PROVE (Booked /\ AddUp)'
    OBVIOUS
  <2>1. CASE UNCHANGED leaveVars
    <3>1. AddUp'
      BY <2>1, StillAddsUp DEF leaveVars
    <3>2. Leaves(Opens) /\ NoDays /\ UNCHANGED <<filing, deciding>>
      BY <2>1 DEF leaveVars, Leaves, NoDays
    <3> QED
      BY <3>1, <3>2, JobStep DEF IInv
  <2>2. CASE LeaveNext
    BY <2>2, NextAddsUp, FilingBooksDays, DecisionBooksDays, OpenBooksDays DEF LeaveNext
  <2> QED
    BY <2>1, <2>2
<1>2. LeaveSpec => [](Booked /\ AddUp)
  BY <1>1, InitBooked, Inductive, PTL DEF LeaveSpec
<1>3. IInv /\ Booked /\ AddUp => DaysAddUp
  BY DEF IInv, RowsHold, RowType, Balance, Carried, Moved, CarriedOnce, AddUp, DaysAddUp, Years, RowsSound, Sound
<1> QED
  BY <1>2, <1>3, Inductive, PTL

HIDE LeaveAssumption
-----------------------------------------------------------------------------
(* The runs of a kind, the run in the worker's hands, an order that has not happened. *)
RegularRuns == {r \in Runs : KindOf(r) = "REGULAR"}
Works(r) == ~Idle /\ job.run = r
Clear(hole) == hole \notin payHoles

(* One employee's payslip, an id of one, and the job in the worker's hands. *)
Ids == Nat \X Nat
Slips == [state : {"none", "DRAFT", "ISSUED"}, no : Nat, deducts : SUBSET Advances, base : SUBSET Ids]
Jobs == [run : Nat, at : {"idle", "read", "priced", "written"}, advances : SUBSET Advances,
         covers : BOOLEAN, base : SUBSET Ids]

Dues == [state : {"APPROVED", "PAID", "SETTLED"}, slip : Ids]
Stages == {"none", "DRAFT", "RUNNING", "DONE", "FAILED", "DISCARDED"}

(* What the variables hold. *)
Types ==
  /\ plan \in Plans
  /\ period \in [Periods -> {"none", "OPEN", "LOCKED"}]
  /\ locking \in [Periods -> SUBSET Nat]
  /\ run \in [Runs -> Stages]
  /\ slip \in [Runs -> Slips] /\ computed \in [Runs -> Nat] /\ finished \in [Runs -> Nat]
  /\ advance \in [Advances -> Dues]
  /\ queue \in [Runs -> Nat] /\ job \in Jobs
  /\ failing \subseteq Runs /\ refused \subseteq Runs
  /\ payHoles \subseteq PayHoles

(* What holds whatever happens. *)
Numbered ==
  /\ \A r \in Runs : slip[r].no <= computed[r] /\ (Held(r) => slip[r].no > 0)
  /\ \A r \in Runs : ~Held(r) => slip[r] = NoSlip
  /\ \A r \in RegularRuns : slip[r].base = {} /\ (run[r] = "DONE" => HasFinished(r))
  /\ \A r \in Runs \ RegularRuns : slip[r].deducts = {}
  /\ \A r, o \in Runs : HasFinished(r) /\ finished[r] = finished[o] => r = o
JobShape ==
  /\ Idle => job = NoRun
  /\ ~Idle => job.run \in Runs
  /\ ~Idle /\ job.run \in RegularRuns => job.base = {}
  /\ ~Idle /\ job.run \notin RegularRuns => job.advances = {} /\ ~job.covers
  /\ \A r \in Runs : queue[r] > 0 \/ Works(r) \/ r \in failing \/ r \in refused => run[r] # "none"
Locks ==
  /\ \A p \in Periods : Locked(p) => period[p] = "OPEN" /\ locking[p] \subseteq RunsOf(p)
  /\ \A p \in Periods : \A r, o \in locking[p] \cap RegularRuns : r = o
  /\ \A r \in Issued : period[PeriodOf(r)] = "LOCKED"
  /\ \A r \in Runs : run[r] # "none" => period[PeriodOf(r)] # "none"

(* A run under way is in one place, in a period that is open and not being locked, alone. *)
OneJob ==
  \A r \in Runs :
    /\ queue[r] <= 1
    /\ queue[r] > 0 => ~Works(r) /\ r \notin failing /\ r \notin refused
    /\ Works(r) => r \notin failing /\ r \notin refused
    /\ r \in failing => r \notin refused
    /\ queue[r] > 0 \/ Works(r) \/ r \in failing \/ r \in refused => run[r] = "RUNNING"
Running ==
  \A r \in Runs : run[r] = "RUNNING" =>
    /\ period[PeriodOf(r)] = "OPEN" /\ ~Locked(PeriodOf(r))
    /\ \A o \in RunsOf(PeriodOf(r)) : run[o] = "RUNNING" => o = r
Seats ==
  /\ \A r \in Runs : Held(r) => run[r] \notin {"none", "DISCARDED"}
  /\ \A p \in Periods : Locked(p) => \A r \in locking[p] : Held(r) /\ run[r] = "DONE"
  /\ job.at = "written" => (Held(job.run) <=> job.run \notin RegularRuns \/ job.covers)
Sequential == OneJob /\ Running /\ Seats

(* One month, one regular payslip. *)
Months ==
  /\ \A p, q \in Periods : Locked(p) /\ Locked(q) /\ Calendar[p].month = Calendar[q].month => p = q
  /\ \A p \in Periods : Locked(p) =>
       \A r \in locking[p] \cap RegularRuns, o \in Issued \cap RegularRuns :
         Calendar[PeriodOf(o)].month # Calendar[p].month
  /\ OneSlipAMonth

(* A bonus stands on what the lock would issue, or a run under it is being taken again. *)
Retakes(p) == \E o \in RunsOf(p) \cap RegularRuns : run[o] = "RUNNING" /\ HasFinished(o)
Bonuses(p) == {o \in RunsOf(p) \ RegularRuns : Held(o)}
Base(p) == {IdOf(b) : b \in LastFinished(p) \cup Bonuses(p)}
DoneStands ==
  \A r \in Runs \ RegularRuns : run[r] = "DONE" =>
    Retakes(PeriodOf(r)) \/ slip[r].base \subseteq Base(PeriodOf(r))
JobStands == ~Idle => job.base \subseteq Base(PeriodOf(job.run))
LockStands ==
  \A p \in Periods : Locked(p) => \A r \in locking[p] : slip[r].base \subseteq {IdOf(b) : b \in locking[p]}
Standing == DoneStands /\ JobStands /\ LockStands /\ BonusStandsOnIssued

(* Where an advance points. *)
Pointing ==
  \A a \in Advances :
    /\ advance[a].state = "APPROVED" => advance[a].slip = Nowhere
    /\ advance[a].slip # Nowhere =>
         \E r \in RegularRuns : /\ advance[a].slip[1] = r /\ HasFinished(r)
                            /\ advance[a].slip[2] \in 1 .. computed[r]
    /\ \A r \in Runs : Held(r) /\ advance[a].slip = IdOf(r) => a \in slip[r].deducts
Written ==
  /\ job.at = "priced" => ~Held(job.run)
  /\ job.at = "written" /\ Held(job.run) => slip[job.run].deducts = job.advances /\ slip[job.run].base = job.base

CarriedBy(r) == \A a \in slip[r].deducts : advance[a].state = "PAID" /\ advance[a].slip = IdOf(r)
OpenDrafts == {r \in RegularRuns : Held(r) /\ period[PeriodOf(r)] = "OPEN"}
OneCovers ==
  /\ \A r, o \in OpenDrafts : PeriodOf(r) = PeriodOf(o)
  /\ job.at \in {"priced", "written"} /\ job.covers =>
       /\ \A o \in OpenDrafts : PeriodOf(o) = PeriodOf(job.run)
       /\ \A a \in job.advances : advance[a].state = "PAID"
LastCarries == \A p \in Periods : period[p] = "OPEN" /\ ~Retakes(p) => \A r \in LastFinished(p) : CarriedBy(r)
LockCarries == \A p \in Periods : Locked(p) => \A r \in locking[p] \cap RegularRuns : CarriedBy(r)
Deducted == OneCovers /\ LastCarries /\ LockCarries /\ ComesBackOnce

(* The orders each part of the invariant does not survive. *)
MonthHoles == {"overlapped", "redelivered"}
StandHoles == {"relost", "undercut", "retaken", "elsewhere", "redelivered"}
DeductHoles == {"relost", "crossed", "redelivered"}
PayInv ==
  /\ Types /\ Numbered /\ JobShape /\ Locks /\ Pointing /\ Written
  /\ Clear("redelivered") => Sequential
  /\ payHoles \cap MonthHoles = {} => Months
  /\ payHoles \cap StandHoles = {} => Standing
  /\ payHoles \cap DeductHoles = {} => Deducted

-----------------------------------------------------------------------------
(* What the plan says of a run does not change. *)
LEMMA PlanSays ==
  ASSUME Types
  PROVE  /\ 0 \notin Runs /\ Runs \subseteq Nat
         /\ \A r \in Runs : PeriodOf(r) \in Periods /\ KindOf(r) \in {"REGULAR", "BONUS"}
         /\ plan.faults \in Nat
  <1>. PICK one \in Plans : one = plan
    BY DEF Types
  <1>. PICK s : s = one.runs  OBVIOUS
  <1>1. s \in Seq([period : Periods, kind : {"REGULAR", "BONUS"}]) /\ one.faults \in Nat
    BY PayrollAssumption
  <1>2. DOMAIN s = 1 .. Len(s) /\ Len(s) \in Nat
    BY <1>1
  <1>3. PICK T : T = [period : Periods, kind : {"REGULAR", "BONUS"}]
    OBVIOUS
  <1>4. s \in Seq(T)
    BY <1>1, <1>3
  <1>5. \A i \in 1 .. Len(s) : s[i] \in T
    BY <1>4
  <1>. QED
    BY <1>1, <1>2, <1>3, <1>5 DEF Runs, PeriodOf, KindOf

(* The rows an operation writes. *)
LEMMA PayRows ==
  /\ NoSlip \in Slips /\ Nowhere \in Ids /\ NoRun \in Jobs
  /\ \A x \in Slips : [x EXCEPT !.state = "ISSUED"] \in Slips
  /\ \A a \in Dues : [a EXCEPT !.state = "PAID"] \in Dues /\ [a EXCEPT !.state = "SETTLED"] \in Dues
  /\ \A a \in Dues, i \in Ids : [a EXCEPT !.slip = i] \in Dues
  <1>1. NoSlip \in Slips /\ Nowhere \in Ids
    BY DEF NoSlip, Slips, Nowhere, Ids
  <1>2. NoRun \in Jobs
    BY DEF NoRun, Jobs
  <1>3. \A x \in Slips : [x EXCEPT !.state = "ISSUED"] \in Slips
    BY DEF Slips
  <1>4. \A a \in Dues : [a EXCEPT !.state = "PAID"] \in Dues /\ [a EXCEPT !.state = "SETTLED"] \in Dues
    BY DEF Dues
  <1>5. \A a \in Dues, i \in Ids : [a EXCEPT !.slip = i] \in Dues
    BY DEF Dues
  <1>. QED
    BY <1>1, <1>2, <1>3, <1>4, <1>5

(* The plan of a behaviour does not change, and what has happened stays on record. *)
LEMMA Growing == ASSUME PayNext PROVE plan' = plan /\ payHoles \subseteq payHoles'
  BY DEF PayNext, Worker, Desk, CreatePeriod, Lock, CommitLock, CreateRun, Execute, ExecuteRefused,
         Claim, Discard, Reload, MarkAdvancePaid, MoveHome, TakeJob, FailRun, RefusedFails,
         BeginRegular, BeginBonus, WriteSlip, FinishRegular, FinishBonus, AttemptFalls, Redeliver

(* The variables keep their types. *)
LEMMA TypesStep ==
  ASSUME Types, JobShape, PayNext
  PROVE  Types'
  <1>. PICK R : R = Runs  OBVIOUS
  <1>. plan' = plan /\ Runs' = R
    BY Growing DEF Runs
  <1>a. R \subseteq Nat
    BY PlanSays
  <1>. USE DEF Types, jobs, payBudget
  <1>1. ASSUME NEW p \in Periods, CreatePeriod(p) \/ Lock(p) \/ CommitLock(p)
        PROVE  Types'
    <2>1. period' \in [Periods -> {"none", "OPEN", "LOCKED"}]
      BY <1>1 DEF CreatePeriod, Lock, CommitLock
    <2>2. ChosenSlips(p) \subseteq R
      BY DEF ChosenSlips, LastFinished, Done, RunsOf
    <2>3. locking' \in [Periods -> SUBSET Nat]
      <3>. PICK c : c = ChosenSlips(p)  OBVIOUS
      <3>. QED  BY <1>1, <1>a, <2>2 DEF CreatePeriod, Lock, CommitLock, NotLocking
    <2>4. slip' \in [R -> Slips]
      BY <1>1, PayRows DEF CreatePeriod, Lock, CommitLock
    <2>5. advance' \in [Advances -> Dues]
      <3>. SUFFICES ASSUME CommitLock(p), NEW a \in Advances PROVE advance'[a] \in Dues
        BY <1>1 DEF CreatePeriod, Lock, CommitLock
      <3>. PICK settled \in Dues : settled = [advance[a] EXCEPT !.state = "SETTLED"]
        BY PayRows
      <3>. QED
        BY DEF CommitLock
    <2>6. payHoles' \subseteq PayHoles
      BY <1>1 DEF CreatePeriod, Lock, CommitLock, PayHoles
    <2>. QED
      BY <1>1, <2>1, <2>3, <2>4, <2>5, <2>6 DEF CreatePeriod, Lock, CommitLock
  <1>2. ASSUME NEW r \in Runs, CreateRun(r) \/ FailRun(r) \/ RefusedFails(r)
        PROVE  Types'
    BY <1>2 DEF CreateRun, FailRun, RefusedFails, PayHoles, Stages
  <1>3. ASSUME NEW r \in Runs, Execute(r) \/ ExecuteRefused(r)
        PROVE  Types'
    <2>1. run' \in [Runs -> Stages]
      BY <1>3 DEF Execute, ExecuteRefused, Claim, Stages
    <2>2. queue' \in [Runs -> Nat]
      BY <1>3 DEF Execute, ExecuteRefused, Claim
    <2>3. refused' \subseteq Runs /\ payHoles' \subseteq PayHoles
      BY <1>3 DEF Execute, ExecuteRefused, Claim, PayHoles
    <2>. QED
      BY <1>3, <2>1, <2>2, <2>3 DEF Execute, ExecuteRefused, Claim
  <1>4. ASSUME NEW r \in Runs, Discard(r) \/ Reload(r)
        PROVE  Types'
    <2>1. run' \in [Runs -> Stages]
      BY <1>4 DEF Discard, Reload, BackToDraft, Stages
    <2>2. slip' \in [R -> Slips]
      BY <1>4, PayRows DEF Discard, Reload, DropSlips
    <2>3. advance' \in [Advances -> Dues]
      <3>. SUFFICES ASSUME NEW a \in Advances PROVE advance'[a] \in Dues
        BY <1>4 DEF Discard, Reload, DropSlips
      <3>. PICK free \in Dues : free = [advance[a] EXCEPT !.slip = Nowhere]
        BY PayRows
      <3>. QED
        BY <1>4 DEF Discard, Reload, DropSlips
    <2>4. \A gone : Cuts(gone) \subseteq PayHoles
      BY DEF Cuts, PayHoles
    <2>5. payHoles' \subseteq PayHoles
      BY <1>4, <2>4 DEF Discard, Reload
    <2>. QED
      BY <1>4, <2>1, <2>2, <2>3, <2>5 DEF Discard, Reload
  <1>5. CASE (\E a \in Advances : MarkAdvancePaid(a)) \/ MoveHome
    <2>1. ASSUME NEW a \in Advances, MarkAdvancePaid(a)
          PROVE  advance' \in [Advances -> Dues]
      <3>. PICK given \in Dues : given = [advance[a] EXCEPT !.state = "PAID"]
        BY PayRows
      <3>. QED
        BY <2>1 DEF MarkAdvancePaid
    <2>. QED
      BY <1>5, <2>1 DEF MarkAdvancePaid, MoveHome
  <1>6. CASE (\E r \in Runs : TakeJob(r)) \/ BeginRegular
    <2>1. run' \in [Runs -> Stages]
      BY <1>6 DEF TakeJob, BeginRegular, Stages
    <2>2. queue' \in [Runs -> Nat]
      <3>1. ASSUME NEW r \in Runs, TakeJob(r)
            PROVE  queue' \in [Runs -> Nat]
        <4>. PICK n : n = queue[r] - 1  OBVIOUS
        <4>1. n \in Nat
          BY <3>1 DEF TakeJob
        <4>2. queue' = [queue EXCEPT ![r] = n]
          BY <3>1 DEF TakeJob
        <4>. QED
          BY <4>1, <4>2
      <3>. QED
        BY <1>6, <3>1 DEF BeginRegular
    <2>3. job' \in Jobs
      <3>1. ASSUME NEW r \in Runs PROVE [NoRun EXCEPT !.run = r, !.at = "read"] \in Jobs
        BY <1>a DEF NoRun, Jobs
      <3>2. CASE BeginRegular
        <4>. PICK read : read = {a \in Advances : advance[a].state = "PAID"}  OBVIOUS
        <4>. PICK covers \in BOOLEAN : covers = (Calendar[PeriodOf(job.run)].entity = plan.homes[home])
          OBVIOUS
        <4>1. [job EXCEPT !.at = "priced", !.covers = covers, !.advances = read] \in Jobs
          BY DEF Jobs
        <4>2. job' = [job EXCEPT !.at = "priced", !.covers = covers, !.advances = read]
          BY <3>2 DEF BeginRegular
        <4>. QED
          BY <4>1, <4>2
      <3>. QED
        BY <1>6, <3>1, <3>2, PayRows DEF TakeJob
    <2>4. slip' \in [Runs -> Slips]
      BY <1>6, PayRows DEF TakeJob, BeginRegular
    <2>5. payHoles' \subseteq PayHoles
      BY <1>6 DEF TakeJob, BeginRegular, PayHoles
    <2>. QED
      BY <1>6, <2>1, <2>2, <2>3, <2>4, <2>5 DEF TakeJob, BeginRegular
  <1>7. CASE WriteSlip \/ FinishBonus
    <2>1. job' \in Jobs
      <3>1. [job EXCEPT !.at = "written"] \in Jobs
        BY DEF Jobs
      <3>. QED
        BY <1>7, <3>1, PayRows DEF WriteSlip, FinishBonus
    <2>2. slip' \in [Runs -> Slips]
      <3>1. CASE WriteSlip
        <4>1. job.run \in Runs
          BY <3>1 DEF JobShape, WriteSlip, Idle
        <4>2. job.advances \subseteq Advances /\ job.base \subseteq Ids
          BY DEF Jobs
        <4>. PICK written : written = [state |-> "DRAFT", no |-> computed[job.run] + 1, deducts |-> job.advances, base |-> job.base]
          OBVIOUS
        <4>3. written \in Slips
          BY <4>1, <4>2 DEF Slips
        <4>. QED
          BY <3>1, <4>1, <4>3 DEF WriteSlip
      <3>. QED
        BY <1>7, <3>1 DEF FinishBonus
    <2>3. computed' \in [Runs -> Nat]
      BY <1>7 DEF WriteSlip, FinishBonus
    <2>4. run' \in [Runs -> Stages]
      BY <1>7 DEF WriteSlip, FinishBonus, Stages
    <2>. QED
      BY <1>7, <2>1, <2>2, <2>3, <2>4 DEF WriteSlip, FinishBonus
  <1>8. CASE AttemptFalls \/ Redeliver
    <2>1. job' \in Jobs
      BY <1>8, PayRows DEF AttemptFalls, Redeliver
    <2>2. job.run \in Runs
      BY <1>8 DEF AttemptFalls, Redeliver, JobShape
    <2>3. queue' \in [Runs -> Nat]
      BY <1>8, <2>2 DEF AttemptFalls, Redeliver
    <2>4. failing' \subseteq Runs /\ payHoles' \subseteq PayHoles
      BY <1>8, <2>2 DEF AttemptFalls, Redeliver, PayHoles
    <2>. QED
      BY <1>8, <2>1, <2>3, <2>4 DEF AttemptFalls, Redeliver
  <1>9. CASE FinishRegular
    <2>1. job' \in Jobs /\ job.run \in Runs
      BY <1>9, PayRows DEF FinishRegular, JobShape, Idle
    <2>2. run' \in [Runs -> Stages]
      BY <1>9, <2>1 DEF FinishRegular, BackToDraft, Stages
    <2>3. slip' \in [Runs -> Slips]
      BY <1>9, PayRows DEF FinishRegular
    <2>4. advance' \in [Advances -> Dues]
      <3>. PICK id : id = IdOf(job.run)  OBVIOUS
      <3>1. id \in Ids
        BY <2>1, <1>a DEF IdOf, Slips, Ids
      <3>. QED
        BY <1>9, <3>1, PayRows DEF FinishRegular, MarkCarried
    <2>5. finished' \in [Runs -> Nat]
      BY <1>9 DEF FinishRegular, FinishesNow
    <2>6. payHoles' \subseteq PayHoles
      BY <1>9 DEF FinishRegular, PayHoles
    <2>. QED
      BY <1>9, <2>1, <2>2, <2>3, <2>4, <2>5, <2>6 DEF FinishRegular
  <1>10. CASE BeginBonus
    <2>1. job.run \in Runs
      BY <1>10 DEF BeginBonus, JobShape, Idle
    <2>2. TaxBases(job.run) \subseteq Ids
      <3>1. \A r \in R : IdOf(r) \in Ids
        BY <1>a DEF IdOf, Slips, Ids
      <3>. QED
        BY <3>1 DEF TaxBases, LastFinished, Done, RunsOf
    <2>3. job' \in Jobs
      <3>. PICK b : b = TaxBases(job.run)  OBVIOUS
      <3>1. [job EXCEPT !.at = "priced", !.base = b] \in Jobs
        BY <2>2 DEF Jobs
      <3>2. job' \in {NoRun, [job EXCEPT !.at = "priced", !.base = b]}
        BY <1>10 DEF BeginBonus
      <3>. QED  BY <3>1, <3>2, PayRows
    <2>4. slip' \in [Runs -> Slips] /\ failing' \subseteq Runs
      BY <1>10, <2>1, PayRows DEF BeginBonus
    <2>5. payHoles' \subseteq PayHoles
      BY <1>10 DEF BeginBonus, Cuts, PayHoles
    <2>. QED
      BY <1>10, <2>1, <2>3, <2>4, <2>5 DEF BeginBonus
  <1>. QED
    BY <1>1, <1>2, <1>3, <1>4, <1>5, <1>6, <1>7, <1>8, <1>9, <1>10 DEF PayNext, Worker, Desk

(* What the longer operations leave, run by run. *)

(* The runs that lose their payslip when r is discarded or its rows are read again. *)
GoesWith(r, gone) ==
  /\ r \in gone /\ gone \subseteq RunsOf(PeriodOf(r))
  /\ period[PeriodOf(r)] = "OPEN" /\ ~Locked(PeriodOf(r))
  /\ run[r] \in {"DRAFT", "DONE", "FAILED"} /\ \A o \in gone \ {r} : run[o] = "DONE"
  /\ r \in RegularRuns /\ run[r] = "DONE" => \A o \in RunsOf(PeriodOf(r)) : run[o] = "DONE" => o \in gone
  /\ r \notin RegularRuns \/ run[r] # "DONE" => gone = {r}
  /\ \A o \in Runs : slip'[o] = IF o \in gone THEN NoSlip ELSE slip[o]
  /\ run'[r] \in {"DRAFT", "DISCARDED"}
  /\ \A o \in Runs \ {r} : run'[o] = IF o \in gone THEN "DRAFT" ELSE run[o]
  /\ \A a \in Advances : advance'[a] =
       IF advance[a].state = "PAID" /\ \E o \in gone : Held(o) /\ advance[a].slip = IdOf(o)
       THEN [state |-> "PAID", slip |-> Nowhere] ELSE advance[a]
  /\ payHoles' = payHoles \cup Cuts(gone)
  /\ UNCHANGED <<plan, period, locking, computed, finished, queue, job, failing, refused>>

(* A discard and a reload take payslips away and leave every other payslip and advance alone. *)
LEMMA Going ==
  ASSUME Types, NEW r \in Runs, Discard(r) \/ Reload(r)
  PROVE  \E gone \in SUBSET Runs : GoesWith(r, gone)
  <1>1. \A a \in Advances : advance[a].state = "PAID" =>
           [advance[a] EXCEPT !.slip = Nowhere] = [state |-> "PAID", slip |-> Nowhere]
    BY DEF Types, Dues
  <1>2. run \in [Runs -> Stages]
    BY DEF Types
  <1>. USE DEF jobs, payBudget, DropSlips, BackToDraft, RegularRuns, RunsOf, KindOf
  <1>3. CASE Discard(r)
    <2>. PICK stale : stale = IF KindOf(r) = "REGULAR" /\ run[r] = "DONE"
                             THEN {o \in RunsOf(PeriodOf(r)) \ {r} : run[o] = "DONE"} ELSE {}
      OBVIOUS
    <2>. PICK gone : gone = stale \cup {r}
      OBVIOUS
    <2>1. DropSlips(gone) /\ payHoles' = payHoles \cup Cuts(gone) /\ run' = [BackToDraft(run, stale) EXCEPT ![r] = "DISCARDED"]
      BY <1>3 DEF Discard
    <2>2. r \in gone /\ gone \subseteq RunsOf(PeriodOf(r)) /\ r \notin stale /\ \A o \in gone \ {r} : run[o] = "DONE"
      OBVIOUS
    <2>3. /\ r \in RegularRuns /\ run[r] = "DONE" => \A o \in RunsOf(PeriodOf(r)) : run[o] = "DONE" => o \in gone
          /\ r \notin RegularRuns \/ run[r] # "DONE" => gone = {r}
      OBVIOUS
    <2>4. run'[r] = "DISCARDED" /\ \A o \in Runs \ {r} : run'[o] = IF o \in gone THEN "DRAFT" ELSE run[o]
      BY <2>1
    <2>5. \A o \in Runs : slip'[o] = IF o \in gone THEN NoSlip ELSE slip[o]
      BY <2>1
    <2>6. \A a \in Advances : advance'[a] =
             IF advance[a].state = "PAID" /\ \E o \in gone : Held(o) /\ advance[a].slip = IdOf(o)
             THEN [state |-> "PAID", slip |-> Nowhere] ELSE advance[a]
      BY <1>1, <2>1
    <2>7. GoesWith(r, gone)
      BY <1>3, <2>1, <2>2, <2>3, <2>4, <2>5, <2>6 DEF GoesWith, Discard
    <2>. QED
      BY <2>2, <2>7
  <1>4. CASE Reload(r)
    <2>1. DropSlips({r}) /\ payHoles' = payHoles \cup Cuts({r}) /\ run' = [run EXCEPT ![r] = "DRAFT"]
      BY <1>4 DEF Reload
    <2>2. \A a \in Advances : advance'[a] =
             IF advance[a].state = "PAID" /\ \E o \in {r} : Held(o) /\ advance[a].slip = IdOf(o)
             THEN [state |-> "PAID", slip |-> Nowhere] ELSE advance[a]
      BY <1>1, <2>1
    <2>3. GoesWith(r, {r})
      BY <1>2, <1>4, <2>1, <2>2 DEF GoesWith, Reload
    <2>. QED
      BY <2>3
  <1>. QED
    BY <1>3, <1>4

(* What FinishRegular writes, row by row. *)
LEMMA Finishing ==
  ASSUME Types, JobShape, FinishRegular
  PROVE  /\ job.at = "written" /\ job.run \in RegularRuns /\ job' = NoRun
         /\ \A r \in Runs : finished'[r] = IF r = job.run THEN 1
                                          ELSE IF finished[r] > 0 THEN finished[r] + 1 ELSE 0
         /\ run'[job.run] = "DONE"
         /\ \A r \in Runs \ {job.run} :
               run'[r] = IF r \in Done(PeriodOf(job.run), "BONUS") THEN "DRAFT" ELSE run[r]
         /\ \A r \in Runs : slip'[r] = IF r \in Done(PeriodOf(job.run), "BONUS") THEN NoSlip ELSE slip[r]
         /\ \A a \in Advances : advance'[a] =
               IF a \in job.advances /\ advance[a].state = "PAID" /\ Held(job.run)
               THEN [state |-> "PAID", slip |-> IdOf(job.run)] ELSE advance[a]
         /\ HasFinished(job.run) /\ ~Held(job.run) => "relost" \in payHoles'
         /\ UNCHANGED <<plan, period, locking, computed, queue, failing, refused>>
  <1>. job.at = "written" /\ job.run \in RegularRuns /\ job.run \in Runs /\ job' = NoRun
    BY DEF FinishRegular, JobShape, Idle, RegularRuns
  <1>. PICK stale : stale = Done(PeriodOf(job.run), "BONUS")  OBVIOUS
  <1>1. \A r \in Runs : finished'[r] = IF r = job.run THEN 1 ELSE IF finished[r] > 0 THEN finished[r] + 1 ELSE 0
    BY DEF FinishRegular, FinishesNow, HasFinished
  <1>2. run'[job.run] = "DONE" /\ \A r \in Runs \ {job.run} : run'[r] = IF r \in stale THEN "DRAFT" ELSE run[r]
    BY DEF FinishRegular, StaleOver, BackToDraft
  <1>3. \A r \in Runs : slip'[r] = IF r \in stale THEN NoSlip ELSE slip[r]
    BY DEF FinishRegular, StaleOver
  <1>4. \A a \in Advances : advance'[a] =
           IF a \in job.advances /\ advance[a].state = "PAID" /\ Held(job.run)
           THEN [state |-> "PAID", slip |-> IdOf(job.run)] ELSE advance[a]
    <2>. PICK id : id = IdOf(job.run)  OBVIOUS
    <2>1. \A a \in Advances : advance[a].state = "PAID" => [advance[a] EXCEPT !.slip = id] = [state |-> "PAID", slip |-> id]
      BY DEF Types, Dues
    <2>. QED
      BY <2>1 DEF FinishRegular, MarkCarried
  <1>5. HasFinished(job.run) /\ ~Held(job.run) => "relost" \in payHoles'
    BY DEF FinishRegular
  <1>6. UNCHANGED <<plan, period, locking, computed, queue, failing, refused>>
    BY DEF FinishRegular
  <1>. QED
    BY <1>1, <1>2, <1>3, <1>4, <1>5, <1>6

(* What BeginBonus writes, row by row. *)
LEMMA Pricing ==
  ASSUME Types, JobShape, BeginBonus
  PROVE  /\ job.at = "read" /\ job.run \in Runs \ RegularRuns
         /\ \/ /\ job' = NoRun /\ failing' = failing \cup {job.run}
               /\ UNCHANGED <<slip, payHoles>>
            \/ /\ job'.run = job.run /\ job'.at = "priced" /\ job'.advances = {} /\ ~job'.covers
               /\ job'.base = TaxBases(job.run) /\ LastFinished(PeriodOf(job.run)) # {}
               /\ \A r \in Runs : slip'[r] = IF r = job.run THEN NoSlip ELSE slip[r]
               /\ payHoles' = payHoles \cup Cuts({job.run}) /\ UNCHANGED failing
         /\ UNCHANGED <<plan, period, locking, run, computed, finished, advance, queue, refused>>
  <1>. job.at = "read" /\ job.run \in Runs \ RegularRuns /\ job.advances = {} /\ job.covers = FALSE
    BY DEF BeginBonus, JobShape, Idle, RegularRuns, Types, Jobs
  <1>. PICK b : b = TaxBases(job.run)  OBVIOUS
  <1>. PICK priced : priced = [job EXCEPT !.at = "priced", !.base = b]  OBVIOUS
  <1>1. priced.run = job.run /\ priced.at = "priced" /\ priced.advances = {} /\ priced.covers = FALSE /\ priced.base = b
    BY DEF Types, Jobs
  <1>2. slip \in [Runs -> Slips]
    BY DEF Types
  <1>. QED
    BY <1>1, <1>2 DEF BeginBonus

(* What BeginRegular writes, row by row. *)
LEMMA Beginning ==
  ASSUME Types, JobShape, BeginRegular
  PROVE  /\ job.at = "read" /\ job.run \in RegularRuns
         /\ job'.run = job.run /\ job'.at = "priced" /\ job'.base = {}
         /\ job'.advances = {a \in Advances : advance[a].state = "PAID"}
         /\ job'.covers /\ Crosses(job.run) => "crossed" \in payHoles'
         /\ \A r \in Runs : run'[r] = IF r = job.run THEN "RUNNING" ELSE run[r]
         /\ \A r \in Runs : slip'[r] = IF r = job.run THEN NoSlip ELSE slip[r]
         /\ UNCHANGED <<plan, period, locking, computed, finished, advance, queue, failing, refused>>
  <1>. job.at = "read" /\ job.run \in RegularRuns /\ job.run \in Runs /\ job.base = {}
    BY DEF BeginRegular, JobShape, Idle, RegularRuns
  <1>. PICK read : read = {a \in Advances : advance[a].state = "PAID"}  OBVIOUS
  <1>. PICK covers : covers = (Calendar[PeriodOf(job.run)].entity = plan.homes[home])  OBVIOUS
  <1>1. job' = [job EXCEPT !.at = "priced", !.covers = covers, !.advances = read]
    BY DEF BeginRegular
  <1>2. job'.run = job.run /\ job'.at = "priced" /\ job'.base = {} /\ job'.advances = read /\ job'.covers = covers
    BY <1>1 DEF Types, Jobs
  <1>3. covers /\ Crosses(job.run) => "crossed" \in payHoles'
    BY DEF BeginRegular
  <1>4. /\ \A r \in Runs : run'[r] = IF r = job.run THEN "RUNNING" ELSE run[r]
        /\ \A r \in Runs : slip'[r] = IF r = job.run THEN NoSlip ELSE slip[r]
    BY DEF BeginRegular, Types
  <1>5. UNCHANGED <<plan, period, locking, computed, finished, advance, queue, failing, refused>>
    BY DEF BeginRegular
  <1>. QED
    BY <1>2, <1>3, <1>4, <1>5

(* What WriteSlip writes, row by row. *)
LEMMA Writing ==
  ASSUME Types, JobShape, WriteSlip
  PROVE  /\ job.at = "priced" /\ job.run \in Runs
         /\ job'.run = job.run /\ job'.at = "written" /\ job'.advances = job.advances
         /\ job'.covers = job.covers /\ job'.base = job.base
         /\ \A r \in Runs : r # job.run => slip'[r] = slip[r] /\ computed'[r] = computed[r]
         /\ IF job.run \notin RegularRuns \/ job.covers
            THEN /\ slip'[job.run] = [state |-> "DRAFT", no |-> computed[job.run] + 1,
                                      deducts |-> job.advances, base |-> job.base]
                 /\ computed'[job.run] = computed[job.run] + 1
            ELSE UNCHANGED <<slip, computed>>
         /\ UNCHANGED <<plan, period, locking, run, finished, advance, queue, failing, refused, payHoles>>
  <1>. job.at = "priced" /\ job.run \in Runs
    BY DEF WriteSlip, JobShape, Idle
  <1>1. (KindOf(job.run) = "BONUS" \/ job.covers) <=> (job.run \notin RegularRuns \/ job.covers)
    BY PlanSays DEF RegularRuns
  <1>. PICK written : written = [state |-> "DRAFT", no |-> computed[job.run] + 1,
                                deducts |-> job.advances, base |-> job.base]
    OBVIOUS
  <1>2. IF job.run \notin RegularRuns \/ job.covers
        THEN slip' = [slip EXCEPT ![job.run] = written] /\ computed' = [computed EXCEPT ![job.run] = @ + 1]
        ELSE UNCHANGED <<slip, computed>>
    BY <1>1 DEF WriteSlip
  <1>3. job' = [job EXCEPT !.at = "written"]
    BY DEF WriteSlip
  <1>4. /\ job'.run = job.run /\ job'.at = "written" /\ job'.advances = job.advances
        /\ job'.covers = job.covers /\ job'.base = job.base
    BY <1>3 DEF Types, Jobs
  <1>5. UNCHANGED <<plan, period, locking, run, finished, advance, queue, failing, refused, payHoles>>
    BY DEF WriteSlip
  <1>6. slip \in [Runs -> Slips] /\ computed \in [Runs -> Nat]
    BY DEF Types
  <1>. QED
    BY <1>2, <1>4, <1>5, <1>6

(* What committing the lock of p does, and the payslips it issues. *)
Commits(p, issued) ==
  /\ Locked(p) /\ issued = {r \in locking[p] : slip[r].state = "DRAFT"}
  /\ \A r \in Runs : slip'[r] = IF r \in issued
          THEN [state |-> "ISSUED", no |-> slip[r].no, deducts |-> slip[r].deducts, base |-> slip[r].base]
          ELSE slip[r]
  /\ \A a \in Advances : advance'[a] = IF Settles(a, issued)
          THEN [state |-> "SETTLED", slip |-> advance[a].slip] ELSE advance[a]
  /\ \A q \in Periods : period'[q] = (IF q = p THEN "LOCKED" ELSE period[q])
  /\ \A q \in Periods : locking'[q] = (IF q = p THEN NotLocking ELSE locking[q])
  /\ UNCHANGED <<plan, run, computed, finished, queue, job, failing, refused, payHoles>>

(* A lock that commits issues a set of the runs it chose. *)
LEMMA LockCommits ==
  ASSUME Types, Locks, NEW p \in Periods, CommitLock(p)
  PROVE  \E issued \in SUBSET Runs : Commits(p, issued)
  <1>. PICK issued : issued = {r \in locking[p] : slip[r].state = "DRAFT"}  OBVIOUS
  <1>1. issued \subseteq Runs /\ Locked(p)
    BY DEF Locks, RunsOf, CommitLock
  <1>2. slip' = [r \in Runs |-> IF r \in issued THEN [slip[r] EXCEPT !.state = "ISSUED"] ELSE slip[r]]
    BY DEF CommitLock
  <1>3. \A r \in Runs : [slip[r] EXCEPT !.state = "ISSUED"] =
           [state |-> "ISSUED", no |-> slip[r].no, deducts |-> slip[r].deducts, base |-> slip[r].base]
    BY DEF Types, Slips
  <1>4. advance' = [a \in Advances |-> IF Settles(a, issued) THEN [advance[a] EXCEPT !.state = "SETTLED"] ELSE advance[a]]
    BY DEF CommitLock
  <1>5. \A a \in Advances : [advance[a] EXCEPT !.state = "SETTLED"] = [state |-> "SETTLED", slip |-> advance[a].slip]
    BY DEF Types, Dues
  <1>6. /\ \A q \in Periods : period'[q] = (IF q = p THEN "LOCKED" ELSE period[q])
        /\ \A q \in Periods : locking'[q] = (IF q = p THEN NotLocking ELSE locking[q])
    BY DEF CommitLock, Types
  <1>7. UNCHANGED <<plan, run, computed, finished, queue, job, failing, refused, payHoles>>
    BY DEF CommitLock, jobs, payBudget
  <1>8. Commits(p, issued)
    BY <1>1, <1>2, <1>3, <1>4, <1>5, <1>6, <1>7 DEF Commits
  <1>. QED
    BY <1>1, <1>8

(* LockCommits a lock changes nothing of a payslip but its state. *)
LEMMA CommitsKeep ==
  ASSUME NEW p \in Periods, NEW issued \in SUBSET Runs, Commits(p, issued)
  PROVE  /\ \A r \in Runs : /\ slip'[r].no = slip[r].no /\ slip'[r].deducts = slip[r].deducts
                            /\ slip'[r].base = slip[r].base
                            /\ slip'[r].state = IF r \in issued THEN "ISSUED" ELSE slip[r].state
         /\ \A r \in issued : r \in locking[p] /\ slip[r].state = "DRAFT"
         /\ \A r \in Runs : Held(r)' <=> Held(r)
  <1>1. \A r \in Runs : /\ slip'[r].no = slip[r].no /\ slip'[r].deducts = slip[r].deducts
                       /\ slip'[r].base = slip[r].base
                       /\ slip'[r].state = IF r \in issued THEN "ISSUED" ELSE slip[r].state
    <2>. TAKE r \in Runs
    <2>1. CASE r \in issued
      <3>1. slip'[r] = [state |-> "ISSUED", no |-> slip[r].no, deducts |-> slip[r].deducts, base |-> slip[r].base]
        BY <2>1 DEF Commits
      <3>. QED
        BY <2>1, <3>1
    <2>2. CASE r \notin issued
      BY <2>2 DEF Commits
    <2>. QED
      BY <2>1, <2>2
  <1>2. \A r \in issued : r \in locking[p] /\ slip[r].state = "DRAFT"
    BY DEF Commits
  <1>. QED
    BY <1>1, <1>2 DEF Held

(* What an operation may change of a run: nothing once its period is locked or being locked. *)
Settled(r) == period[PeriodOf(r)] # "OPEN" \/ Locked(PeriodOf(r))
Untouched == \A r \in Runs : Settled(r) => slip'[r] = slip[r] /\ run'[r] = run[r]
NoneIssued == \A r \in Runs : slip'[r].state = "ISSUED" => slip[r].state = "ISSUED"

(* The job in hand and what waits for a run keep their shape. *)
LEMMA JobShapeStep ==
  ASSUME Types, JobShape, PayNext
  PROVE  JobShape'
  <1>. plan' = plan
    BY Growing
  <1>. USE DEF JobShape, RegularRuns, Runs, KindOf, Works, Idle, NoRun, jobs, payBudget
  <1>1. ASSUME NEW p \in Periods, CreatePeriod(p) PROVE JobShape'
    BY <1>1 DEF CreatePeriod
  <1>2. ASSUME NEW p \in Periods, Lock(p) PROVE JobShape'
    BY <1>2 DEF Lock
  <1>3. ASSUME NEW p \in Periods, CommitLock(p) PROVE JobShape'
    BY <1>3 DEF CommitLock
  <1>4. ASSUME NEW r \in Runs, TakeJob(r) PROVE JobShape'
    <2>1. queue \in [Runs -> Nat] /\ run \in [Runs -> Stages]
      BY DEF Types
    <2>2. \A s \in Runs : (queue'[s] > 0 => queue[s] > 0) /\ (run'[s] = "none" => run[s] = "none")
      BY <1>4, <2>1 DEF TakeJob
    <2>. QED
      BY <1>4, <2>1, <2>2 DEF TakeJob
  <1>5. ASSUME NEW r \in Runs, FailRun(r) PROVE JobShape'
    BY <1>5 DEF FailRun
  <1>6. ASSUME NEW r \in Runs, RefusedFails(r) PROVE JobShape'
    BY <1>6 DEF RefusedFails
  <1>7. ASSUME NEW r \in Runs, CreateRun(r) PROVE JobShape'
    BY <1>7 DEF CreateRun
  <1>8. ASSUME NEW r \in Runs, Execute(r) PROVE JobShape'
    BY <1>8 DEF Execute, Claim
  <1>9. ASSUME NEW r \in Runs, ExecuteRefused(r) PROVE JobShape'
    <2>1. queue \in [Runs -> Nat] /\ run \in [Runs -> Stages]
      BY DEF Types
    <2>2. \A s \in Runs : s # r => queue'[s] = queue[s] /\ run'[s] = run[s]
      BY <1>9, <2>1 DEF ExecuteRefused, Claim
    <2>. QED
      BY <1>9, <2>1, <2>2 DEF ExecuteRefused, Claim
  <1>10. ASSUME NEW r \in Runs, Discard(r) PROVE JobShape'
    BY <1>10 DEF Discard, DropSlips, BackToDraft, NoSlip
  <1>11. ASSUME NEW r \in Runs, Reload(r) PROVE JobShape'
    BY <1>11 DEF Reload, DropSlips, BackToDraft, NoSlip
  <1>12. ASSUME NEW a \in Advances, MarkAdvancePaid(a) PROVE JobShape'
    BY <1>12 DEF MarkAdvancePaid
  <1>13. CASE BeginRegular
    BY <1>13 DEF BeginRegular, NoSlip
  <1>14. CASE BeginBonus
    <2>1. run' = run /\ queue' = queue /\ refused' = refused /\ (failing' = failing \/ failing' = failing \cup {job.run})
      BY <1>14 DEF BeginBonus
    <2>. QED
      BY <1>14, <2>1, Pricing
  <1>15. CASE WriteSlip
    BY <1>15 DEF WriteSlip
  <1>16. CASE FinishRegular
    BY <1>16 DEF FinishRegular, BackToDraft, StaleOver, Done, MarkCarried, FinishesNow, NoSlip
  <1>17. CASE FinishBonus
    BY <1>17 DEF FinishBonus
  <1>18. CASE AttemptFalls
    <2>1. queue \in [Runs -> Nat]
      BY DEF Types
    <2>2. \A s \in Runs : s # job.run => queue'[s] = queue[s]
      BY <1>18, <2>1 DEF AttemptFalls
    <2>. QED
      BY <1>18, <2>1, <2>2 DEF AttemptFalls
  <1>19. CASE Redeliver
    BY <1>19 DEF Redeliver
  <1>20. CASE MoveHome
    BY <1>20 DEF MoveHome
  <1>. QED
    BY <1>1, <1>2, <1>3, <1>4, <1>5, <1>6, <1>7, <1>8, <1>9, <1>10, <1>11, <1>12, <1>13, <1>14, <1>15,
       <1>16, <1>17, <1>18, <1>19, <1>20 DEF PayNext, Worker, Desk

(* Payslips keep to their numbers and their kinds, and places by finishedAt stay apart. *)
LEMMA NumberedStep ==
  ASSUME Types, JobShape, Numbered, Locks, PayNext
  PROVE  Numbered'
  <1>. plan' = plan
    BY Growing
  <1>a. /\ computed \in [Runs -> Nat] /\ finished \in [Runs -> Nat] /\ slip \in [Runs -> Slips]
       /\ run \in [Runs -> Stages]
    BY DEF Types
  <1>. USE DEF Numbered, RegularRuns, Runs, KindOf, Held, HasFinished, jobs, payBudget
  <1>1. ASSUME NEW p \in Periods, CreatePeriod(p) PROVE Numbered'
    BY <1>1, <1>a DEF CreatePeriod
  <1>2. ASSUME NEW p \in Periods, Lock(p) PROVE Numbered'
    BY <1>2, <1>a DEF Lock
  <1>3. ASSUME NEW p \in Periods, CommitLock(p) PROVE Numbered'
    BY <1>3, <1>a DEF CommitLock, Slips
  <1>4. ASSUME NEW r \in Runs, TakeJob(r) PROVE Numbered'
    BY <1>4, <1>a DEF TakeJob, Idle
  <1>5. ASSUME NEW r \in Runs, FailRun(r) PROVE Numbered'
    BY <1>5, <1>a DEF FailRun
  <1>6. ASSUME NEW r \in Runs, RefusedFails(r) PROVE Numbered'
    BY <1>6, <1>a DEF RefusedFails
  <1>7. ASSUME NEW r \in Runs, CreateRun(r) PROVE Numbered'
    BY <1>7, <1>a DEF CreateRun
  <1>8. ASSUME NEW r \in Runs, Execute(r) PROVE Numbered'
    BY <1>8, <1>a DEF Execute, Claim
  <1>9. ASSUME NEW r \in Runs, ExecuteRefused(r) PROVE Numbered'
    BY <1>9, <1>a DEF ExecuteRefused, Claim
  <1>10. ASSUME NEW r \in Runs, Discard(r) PROVE Numbered'
    BY <1>10, <1>a DEF Discard, DropSlips, BackToDraft, NoSlip
  <1>11. ASSUME NEW r \in Runs, Reload(r) PROVE Numbered'
    BY <1>11, <1>a DEF Reload, DropSlips, BackToDraft, NoSlip
  <1>12. ASSUME NEW a \in Advances, MarkAdvancePaid(a) PROVE Numbered'
    BY <1>12, <1>a DEF MarkAdvancePaid
  <1>13. CASE BeginRegular
    BY <1>13, <1>a DEF BeginRegular, NoSlip, JobShape, Idle
  <1>14. CASE BeginBonus
    BY <1>14, <1>a DEF BeginBonus, NoSlip, JobShape, Idle
  <1>15. CASE WriteSlip
    BY <1>15, <1>a DEF WriteSlip, JobShape, Idle
  <1>16. CASE FinishRegular
    <2>. USE <1>a, <1>16, Finishing
    <2>1. \A r, o \in Runs : HasFinished(r)' /\ finished'[r] = finished'[o] => r = o
      <3>1. finished'[job.run] = 1 /\ \A r \in Runs : r # job.run /\ finished'[r] > 0 => finished[r] > 0 /\ finished'[r] = finished[r] + 1
        OBVIOUS
      <3>2. \A r \in Runs : r # job.run => finished'[r] # 1
        OBVIOUS
      <3>3. ASSUME NEW r \in Runs, NEW o \in Runs, HasFinished(r)', finished'[r] = finished'[o]
            PROVE  r = o
        <4>1. finished'[r] > 0 /\ finished'[o] > 0
          BY <3>3
        <4>2. CASE r = job.run
          BY <3>1, <3>2, <3>3, <4>2
        <4>3. CASE r # job.run
          <5>1. o # job.run
            BY <3>1, <3>2, <3>3, <4>3
          <5>2. finished[r] > 0 /\ finished'[r] = finished[r] + 1 /\ finished'[o] = finished[o] + 1
            BY <3>1, <4>1, <4>3, <5>1
          <5>3. finished[r] \in Nat /\ finished[o] \in Nat
            BY <1>a
          <5>4. finished[r] = finished[o]
            <6>. PICK m \in Nat, n \in Nat : m = finished[r] /\ n = finished[o]
              BY <5>3
            <6>1. m + 1 = n + 1
              BY <3>3, <5>2
            <6>. QED
              BY <6>1
          <5>5. \A s, u \in Runs : finished[s] > 0 /\ finished[s] = finished[u] => s = u
            BY DEF Numbered
          <5>. QED
            BY <5>2, <5>4, <5>5
        <4>. QED
          BY <4>2, <4>3
      <3>. QED
        BY <3>3
    <2>2. \A r \in Runs : slip'[r] \in {slip[r], NoSlip} /\ computed'[r] = computed[r]
      OBVIOUS
    <2>3. \A r \in Runs : ~Held(r)' => slip'[r] = NoSlip
      BY <2>2
    <2>4. \A r \in Runs : slip'[r].no <= computed'[r] /\ (Held(r)' => slip'[r].no > 0)
      BY <2>2 DEF NoSlip
    <2>5. \A r \in RegularRuns : slip'[r].base = {} /\ (run'[r] = "DONE" => HasFinished(r)')
      BY <2>2 DEF NoSlip
    <2>6. \A r \in Runs \ RegularRuns : slip'[r].deducts = {}
      BY <2>2 DEF NoSlip
    <2>. QED
      BY <2>1, <2>3, <2>4, <2>5, <2>6
  <1>17. CASE FinishBonus
    BY <1>17, <1>a DEF FinishBonus, JobShape, Idle
  <1>18. CASE AttemptFalls
    BY <1>18, <1>a DEF AttemptFalls
  <1>19. CASE Redeliver
    BY <1>19, <1>a DEF Redeliver
  <1>20. CASE MoveHome
    BY <1>20, <1>a DEF MoveHome
  <1>. QED
    BY <1>1, <1>2, <1>3, <1>4, <1>5, <1>6, <1>7, <1>8, <1>9, <1>10, <1>11, <1>12, <1>13, <1>14, <1>15,
       <1>16, <1>17, <1>18, <1>19, <1>20 DEF PayNext, Worker, Desk

(* A lock chooses payslips of its own open period, one regular at most. *)
LEMMA LocksStep ==
  ASSUME Types, JobShape, Numbered, Locks, PayNext
  PROVE  Locks'
  <1>. plan' = plan
    BY Growing
  <1>a. /\ slip \in [Runs -> Slips] /\ run \in [Runs -> Stages] /\ locking \in [Periods -> SUBSET Nat]
       /\ period \in [Periods -> {"none", "OPEN", "LOCKED"}]
    BY DEF Types
  <1>b. /\ 0 \notin Runs /\ Runs \subseteq Nat
       /\ \A r \in Runs : PeriodOf(r) \in Periods
    BY PlanSays
  <1>. USE DEF Locks, RegularRuns, Runs, RunsOf, PeriodOf, KindOf, Locked, Issued, jobs, payBudget
  <1>1. ASSUME NEW p \in Periods, CreatePeriod(p) PROVE Locks'
    BY <1>1, <1>a, <1>b DEF CreatePeriod
  <1>2. ASSUME NEW p \in Periods, Lock(p) PROVE Locks'
    <2>1. ChosenSlips(p) \subseteq RunsOf(p)
      BY DEF ChosenSlips, LastFinished, Done
    <2>2. \A r, o \in ChosenSlips(p) \cap RegularRuns : r = o
      <3>1. \A r \in ChosenSlips(p) \cap RegularRuns : r \in LastFinished(p)
        BY DEF ChosenSlips, Done
      <3>2. \A r \in LastFinished(p) : HasFinished(r) /\ finished[r] \in Nat
        BY <1>a DEF LastFinished, Done, Numbered, Types
      <3>3. \A r, o \in LastFinished(p) : finished[r] <= finished[o] /\ finished[o] <= finished[r]
        BY DEF LastFinished
      <3>. QED
        BY <3>1, <3>2, <3>3 DEF Numbered, LastFinished, Done
    <2>. PICK c : c = ChosenSlips(p)  OBVIOUS
    <2>3. locking' = [locking EXCEPT ![p] = c]
      BY <1>2 DEF Lock
    <2>. HIDE DEF RunsOf
    <2>4. \A q \in Periods : RunsOf(q)' = RunsOf(q)
      BY DEF RunsOf
    <2>5. UNCHANGED <<period, slip, run, plan>> /\ period[p] = "OPEN"
      BY <1>2 DEF Lock
    <2>. QED
      BY <1>a, <2>1, <2>2, <2>3, <2>4, <2>5
  <1>3. ASSUME NEW p \in Periods, CommitLock(p) PROVE Locks'
    BY <1>3, <1>a, <1>b DEF CommitLock, Slips, NotLocking
  <1>4. ASSUME NEW r \in Runs, TakeJob(r) PROVE Locks'
    BY <1>4, <1>a, <1>b DEF TakeJob, JobShape
  <1>5. ASSUME NEW r \in Runs, FailRun(r) PROVE Locks'
    BY <1>5, <1>a, <1>b DEF FailRun, JobShape
  <1>6. ASSUME NEW r \in Runs, RefusedFails(r) PROVE Locks'
    BY <1>6, <1>a, <1>b DEF RefusedFails, JobShape
  <1>7. ASSUME NEW r \in Runs, CreateRun(r) PROVE Locks'
    BY <1>7, <1>a, <1>b DEF CreateRun
  <1>8. ASSUME NEW r \in Runs, Execute(r) PROVE Locks'
    BY <1>8, <1>a, <1>b DEF Execute, Claim
  <1>9. ASSUME NEW r \in Runs, ExecuteRefused(r) PROVE Locks'
    BY <1>9, <1>a, <1>b DEF ExecuteRefused, Claim
  <1>10. ASSUME NEW r \in Runs, Discard(r) PROVE Locks'
    BY <1>10, <1>a, <1>b DEF Discard, DropSlips, BackToDraft, NoSlip
  <1>11. ASSUME NEW r \in Runs, Reload(r) PROVE Locks'
    BY <1>11, <1>a, <1>b DEF Reload, DropSlips, BackToDraft, NoSlip
  <1>12. ASSUME NEW a \in Advances, MarkAdvancePaid(a) PROVE Locks'
    BY <1>12, <1>a, <1>b DEF MarkAdvancePaid
  <1>13. CASE BeginRegular
    <2>1. job.run \in Runs /\ run[job.run] # "none"
      BY <1>13 DEF BeginRegular, JobShape, Idle, Works
    <2>2. \A r \in Runs : slip'[r] \in {slip[r], NoSlip}
      BY <1>13 DEF BeginRegular
    <2>3. \A r \in Runs : run'[r] # "none" => run[r] # "none"
      BY <1>13, <1>a, <2>1 DEF BeginRegular, BackToDraft, StaleOver, Done
    <2>4. UNCHANGED <<period, locking>>
      BY <1>13 DEF BeginRegular
    <2>. QED
      BY <1>a, <1>b, <2>1, <2>2, <2>3, <2>4 DEF NoSlip
  <1>14. CASE BeginBonus
    BY <1>14, <1>a, <1>b DEF BeginBonus, NoSlip, JobShape, Idle
  <1>15. CASE WriteSlip
    BY <1>15, <1>a, <1>b DEF WriteSlip, JobShape, Idle
  <1>16. CASE FinishRegular
    <2>1. job.run \in Runs /\ run[job.run] # "none"
      BY <1>16 DEF FinishRegular, JobShape, Idle, Works
    <2>2. \A r \in Runs : slip'[r] \in {slip[r], NoSlip}
      BY <1>16 DEF FinishRegular
    <2>3. \A r \in Runs : run'[r] # "none" => run[r] # "none"
      BY <1>16, <1>a, <2>1 DEF FinishRegular, BackToDraft, StaleOver, Done
    <2>4. UNCHANGED <<period, locking>>
      BY <1>16 DEF FinishRegular
    <2>. QED
      BY <1>a, <1>b, <2>1, <2>2, <2>3, <2>4 DEF NoSlip
  <1>17. CASE FinishBonus
    <2>1. job.run \in Runs /\ run[job.run] # "none"
      BY <1>17 DEF FinishBonus, JobShape, Idle, Works
    <2>2. \A r \in Runs : slip'[r] \in {slip[r], NoSlip}
      BY <1>17 DEF FinishBonus
    <2>3. \A r \in Runs : run'[r] # "none" => run[r] # "none"
      BY <1>17, <1>a, <2>1 DEF FinishBonus, BackToDraft, StaleOver, Done
    <2>4. UNCHANGED <<period, locking>>
      BY <1>17 DEF FinishBonus
    <2>. QED
      BY <1>a, <1>b, <2>1, <2>2, <2>3, <2>4 DEF NoSlip
  <1>18. CASE AttemptFalls
    BY <1>18, <1>a, <1>b DEF AttemptFalls
  <1>19. CASE Redeliver
    BY <1>19, <1>a, <1>b DEF Redeliver
  <1>20. CASE MoveHome
    BY <1>20, <1>a, <1>b DEF MoveHome
  <1>. QED
    BY <1>1, <1>2, <1>3, <1>4, <1>5, <1>6, <1>7, <1>8, <1>9, <1>10, <1>11, <1>12, <1>13, <1>14, <1>15,
       <1>16, <1>17, <1>18, <1>19, <1>20 DEF PayNext, Worker, Desk

(* A job that has priced holds no payslip; one that has written holds what it priced. *)
LEMMA WrittenStep ==
  ASSUME Types, JobShape, Numbered, Written, PayNext
  PROVE  Written'
  <1>. plan' = plan
    BY Growing
  <1>a. slip \in [Runs -> Slips]
    BY DEF Types
  <1>. Runs' = Runs
    BY Growing DEF Runs
  <1>. USE DEF Written, JobShape, Held, Idle, NoSlip, jobs, payBudget
  <1>1. ASSUME NEW p \in Periods, CreatePeriod(p) PROVE Written'
    BY <1>1, <1>a DEF CreatePeriod
  <1>2. ASSUME NEW p \in Periods, Lock(p) PROVE Written'
    BY <1>2, <1>a DEF Lock
  <1>3. ASSUME NEW p \in Periods, CommitLock(p) PROVE Written'
    BY <1>3, <1>a DEF CommitLock, Slips
  <1>4. ASSUME NEW r \in Runs, TakeJob(r) PROVE Written'
    BY <1>4, <1>a DEF TakeJob, NoRun
  <1>5. ASSUME NEW r \in Runs, FailRun(r) PROVE Written'
    BY <1>5, <1>a DEF FailRun
  <1>6. ASSUME NEW r \in Runs, RefusedFails(r) PROVE Written'
    BY <1>6, <1>a DEF RefusedFails
  <1>7. ASSUME NEW r \in Runs, CreateRun(r) PROVE Written'
    BY <1>7, <1>a DEF CreateRun
  <1>8. ASSUME NEW r \in Runs, Execute(r) PROVE Written'
    BY <1>8, <1>a DEF Execute, Claim
  <1>9. ASSUME NEW r \in Runs, ExecuteRefused(r) PROVE Written'
    BY <1>9, <1>a DEF ExecuteRefused, Claim
  <1>10. ASSUME NEW r \in Runs, Discard(r) PROVE Written'
    BY <1>10, <1>a DEF Discard, DropSlips, BackToDraft, NoSlip
  <1>11. ASSUME NEW r \in Runs, Reload(r) PROVE Written'
    BY <1>11, <1>a DEF Reload, DropSlips, BackToDraft, NoSlip
  <1>12. ASSUME NEW a \in Advances, MarkAdvancePaid(a) PROVE Written'
    BY <1>12, <1>a DEF MarkAdvancePaid
  <1>13. CASE BeginRegular
    BY <1>13, <1>a DEF BeginRegular, NoSlip
  <1>14. CASE BeginBonus
    <2>1. job \in Jobs /\ job.run \in Runs
      BY <1>14 DEF BeginBonus, Types
    <2>2. job' = NoRun \/ (job'.run = job.run /\ job'.at = "priced" /\ slip'[job.run] = NoSlip)
      <3>1. \A b : [job EXCEPT !.at = "priced", !.base = b].run = job.run /\ [job EXCEPT !.at = "priced", !.base = b].at = "priced"
        BY <2>1 DEF Jobs
      <3>. QED
        BY <1>14, <1>a, <2>1, <3>1 DEF BeginBonus
    <2>. QED
      BY <2>2 DEF NoRun
  <1>15. CASE WriteSlip
    BY <1>15, <1>a DEF WriteSlip, Numbered
  <1>16. CASE FinishRegular
    BY <1>16, <1>a DEF FinishRegular, BackToDraft, StaleOver, Done, MarkCarried, FinishesNow, NoSlip,
       NoRun
  <1>17. CASE FinishBonus
    BY <1>17, <1>a DEF FinishBonus, NoRun
  <1>18. CASE AttemptFalls
    BY <1>18, <1>a DEF AttemptFalls, NoRun
  <1>19. CASE Redeliver
    BY <1>19, <1>a DEF Redeliver
  <1>20. CASE MoveHome
    BY <1>20, <1>a DEF MoveHome
  <1>. QED
    BY <1>1, <1>2, <1>3, <1>4, <1>5, <1>6, <1>7, <1>8, <1>9, <1>10, <1>11, <1>12, <1>13, <1>14, <1>15,
       <1>16, <1>17, <1>18, <1>19, <1>20 DEF PayNext, Worker, Desk

(* An advance points at no payslip that does not deduct it. *)
LEMMA PointingStep ==
  ASSUME Types, JobShape, Numbered, Written, Pointing, PayNext
  PROVE  Pointing'
  <1>. plan' = plan
    BY Growing
  <1>a. /\ slip \in [Runs -> Slips] /\ computed \in [Runs -> Nat] /\ finished \in [Runs -> Nat]
       /\ advance \in [Advances -> Dues]
    BY DEF Types
  <1>b. 0 \notin Runs /\ Runs \subseteq Nat
    BY PlanSays
  <1>. USE DEF Pointing, RegularRuns, Runs, KindOf, Held, HasFinished, IdOf, jobs, payBudget
  <1>1. ASSUME NEW p \in Periods, CreatePeriod(p) PROVE Pointing'
    BY <1>1, <1>a DEF CreatePeriod
  <1>2. ASSUME NEW p \in Periods, Lock(p) PROVE Pointing'
    BY <1>2, <1>a DEF Lock
  <1>3. ASSUME NEW p \in Periods, CommitLock(p) PROVE Pointing'
    BY <1>3, <1>a DEF CommitLock, Slips
  <1>4. ASSUME NEW r \in Runs, TakeJob(r) PROVE Pointing'
    BY <1>4, <1>a DEF TakeJob
  <1>5. ASSUME NEW r \in Runs, FailRun(r) PROVE Pointing'
    BY <1>5, <1>a DEF FailRun
  <1>6. ASSUME NEW r \in Runs, RefusedFails(r) PROVE Pointing'
    BY <1>6, <1>a DEF RefusedFails
  <1>7. ASSUME NEW r \in Runs, CreateRun(r) PROVE Pointing'
    BY <1>7, <1>a DEF CreateRun
  <1>8. ASSUME NEW r \in Runs, Execute(r) PROVE Pointing'
    BY <1>8, <1>a DEF Execute, Claim
  <1>9. ASSUME NEW r \in Runs, ExecuteRefused(r) PROVE Pointing'
    BY <1>9, <1>a DEF ExecuteRefused, Claim
  <1>10. ASSUME NEW r \in Runs, Discard(r) \/ Reload(r) PROVE Pointing'
    <2>. PICK gone \in SUBSET Runs : GoesWith(r, gone)
      BY <1>10, Going
    <2>1. \A o \in Runs : slip'[o] \in {slip[o], NoSlip} /\ computed'[o] = computed[o] /\ finished'[o] = finished[o]
      BY DEF GoesWith
    <2>2. \A a \in Advances : advance'[a] \in {advance[a], [state |-> "PAID", slip |-> Nowhere]}
      BY DEF GoesWith
    <2>3. <<0, 0>> = Nowhere /\ \A o \in Runs : <<o, slip[o].no>> # Nowhere
      BY <1>b DEF Nowhere
    <2>. QED
      BY <2>1, <2>2, <2>3, <1>a DEF NoSlip
  <1>12. ASSUME NEW a \in Advances, MarkAdvancePaid(a) PROVE Pointing'
    BY <1>12, <1>a DEF MarkAdvancePaid
  <1>13. CASE BeginRegular
    BY <1>13, <1>a DEF BeginRegular, NoSlip, JobShape, Idle
  <1>14. CASE BeginBonus
    BY <1>14, <1>a DEF BeginBonus, NoSlip, JobShape, Idle
  <1>15. CASE WriteSlip
    <2>. USE <1>a, <1>15, Writing
    <2>1. \A o \in Runs : computed[o] <= computed'[o]
      OBVIOUS
    <2>2. \A a \in Advances : advance'[a] = advance[a] /\ finished' = finished
      OBVIOUS
    <2>3. \A a \in Advances : advance[a].slip # <<job.run, computed[job.run] + 1>>
      BY <1>b DEF Nowhere
    <2>. QED
      BY <2>1, <2>2, <2>3
  <1>16. CASE FinishRegular
    <2>. USE <1>a, <1>16, Finishing
    <2>1. \A o \in Runs : slip'[o] \in {slip[o], NoSlip} /\ computed'[o] = computed[o] /\ (finished[o] > 0 => finished'[o] > 0)
      OBVIOUS
    <2>2. finished'[job.run] > 0 /\ (Held(job.run) => slip[job.run].deducts = job.advances /\ slip[job.run].no \in 1 .. computed[job.run])
      BY DEF Written, Numbered, Slips
    <2>3. ASSUME NEW a \in Advances, advance'[a] # advance[a]
          PROVE  a \in job.advances /\ Held(job.run) /\ advance'[a] = [state |-> "PAID", slip |-> <<job.run, slip[job.run].no>>]
      BY <2>3
    <2>. QED
      BY <2>1, <2>2, <2>3 DEF NoSlip
  <1>17. CASE FinishBonus
    BY <1>17, <1>a DEF FinishBonus, JobShape, Idle
  <1>18. CASE AttemptFalls
    BY <1>18, <1>a DEF AttemptFalls
  <1>19. CASE Redeliver
    BY <1>19, <1>a DEF Redeliver
  <1>20. CASE MoveHome
    BY <1>20, <1>a DEF MoveHome
  <1>. QED
    BY <1>1, <1>2, <1>3, <1>4, <1>5, <1>6, <1>7, <1>8, <1>9, <1>10, <1>12, <1>13, <1>14, <1>15, <1>16,
       <1>17, <1>18, <1>19, <1>20 DEF PayNext, Worker, Desk

(* A run under way stays in one place. *)
LEMMA OneJobStep ==
  ASSUME Types, JobShape, Locks, Sequential, Clear("redelivered")', PayNext
  PROVE  OneJob'
  <1>. plan' = plan /\ Runs' = Runs
    BY Growing DEF Runs
  <1>a. /\ queue \in [Runs -> Nat] /\ run \in [Runs -> Stages] /\ slip \in [Runs -> Slips]
       /\ locking \in [Periods -> SUBSET Nat] /\ period \in [Periods -> {"none", "OPEN", "LOCKED"}]
    BY DEF Types
  <1>. USE <1>a DEF OneJob, Works, Idle, Sequential, Clear, jobs, payBudget
  <1>1. ASSUME NEW p \in Periods, CreatePeriod(p) PROVE OneJob'
    BY <1>1 DEF CreatePeriod
  <1>2. ASSUME NEW p \in Periods, Lock(p) PROVE OneJob'
    BY <1>2 DEF Lock
  <1>3. ASSUME NEW p \in Periods, CommitLock(p) PROVE OneJob'
    BY <1>3 DEF CommitLock
  <1>4. ASSUME NEW r \in Runs, TakeJob(r) PROVE OneJob'
    <2>1. period[PeriodOf(r)] = "OPEN" /\ queue[r] = 1 /\ Idle
      BY <1>4 DEF TakeJob, Running
    <2>2. job'.run = r /\ job'.at = "read" /\ queue'[r] = 0 /\ \A s \in Runs : s # r => queue'[s] = queue[s]
      <3>1. job' = [NoRun EXCEPT !.run = r, !.at = "read"] /\ queue' = [queue EXCEPT ![r] = @ - 1]
        BY <1>4, <2>1 DEF TakeJob
      <3>. QED
        BY <2>1, <3>1 DEF NoRun
    <2>3. UNCHANGED <<run, failing, refused>>
      BY <1>4, <2>1 DEF TakeJob
    <2>. QED
      BY <2>1, <2>2, <2>3
  <1>5. ASSUME NEW r \in Runs, FailRun(r) PROVE OneJob'
    BY <1>5 DEF FailRun
  <1>6. ASSUME NEW r \in Runs, RefusedFails(r) PROVE OneJob'
    BY <1>6 DEF RefusedFails
  <1>7. ASSUME NEW r \in Runs, CreateRun(r) PROVE OneJob'
    BY <1>7 DEF CreateRun
  <1>8. ASSUME NEW r \in Runs, Execute(r) PROVE OneJob'
    BY <1>8 DEF Execute, Claim
  <1>9. ASSUME NEW r \in Runs, ExecuteRefused(r) PROVE OneJob'
    BY <1>9 DEF ExecuteRefused, Claim
  <1>10. ASSUME NEW r \in Runs, Discard(r) \/ Reload(r) PROVE OneJob'
    <2>. PICK gone \in SUBSET Runs : GoesWith(r, gone)
      BY <1>10, Going
    <2>. QED
      BY DEF GoesWith
  <1>11. ASSUME NEW a \in Advances, MarkAdvancePaid(a) PROVE OneJob'
    BY <1>11 DEF MarkAdvancePaid
  <1>12. CASE BeginRegular
    BY <1>12, Beginning
  <1>13. CASE BeginBonus
    BY <1>13, Pricing DEF NoRun, RunsOf, Done
  <1>14. CASE WriteSlip
    BY <1>14, Writing
  <1>15. CASE FinishRegular
    BY <1>15, Finishing DEF NoRun, Done, RunsOf
  <1>16. CASE FinishBonus
    BY <1>16 DEF FinishBonus, NoRun, JobShape
  <1>17. CASE AttemptFalls
    BY <1>17 DEF AttemptFalls, NoRun
  <1>18. CASE Redeliver
    BY <1>18 DEF Redeliver
  <1>19. CASE MoveHome
    BY <1>19 DEF MoveHome
  <1>. QED
    BY <1>1, <1>2, <1>3, <1>4, <1>5, <1>6, <1>7, <1>8, <1>9, <1>10, <1>11, <1>12, <1>13, <1>14, <1>15,
       <1>16, <1>17, <1>18, <1>19 DEF PayNext, Worker, Desk

(* A run under way stays alone in an open period no lock has taken. *)
LEMMA RunningStep ==
  ASSUME Types, JobShape, Locks, Sequential, Clear("redelivered")', PayNext
  PROVE  Running'
  <1>. plan' = plan /\ Runs' = Runs
    BY Growing DEF Runs
  <1>a. /\ queue \in [Runs -> Nat] /\ run \in [Runs -> Stages] /\ slip \in [Runs -> Slips]
       /\ locking \in [Periods -> SUBSET Nat] /\ period \in [Periods -> {"none", "OPEN", "LOCKED"}]
    BY DEF Types
  <1>. USE <1>a DEF Running, OneJob, Works, Idle, RunsOf, PeriodOf, Locked, Sequential, Clear, jobs, payBudget
  <1>1. ASSUME NEW p \in Periods, CreatePeriod(p) PROVE Running'
    BY <1>1 DEF CreatePeriod
  <1>2. ASSUME NEW p \in Periods, Lock(p) PROVE Running'
    <2>1. \A r \in RunsOf(p) : run[r] # "RUNNING"
      BY <1>2 DEF Lock, RunsSettled
    <2>2. \A q \in Periods : q # p => locking'[q] = locking[q]
      BY <1>2 DEF Lock
    <2>3. \A r \in Runs : PeriodOf(r) \in Periods
      BY PlanSays
    <2>. QED
      BY <1>2, <2>1, <2>2, <2>3 DEF Lock
  <1>3. ASSUME NEW p \in Periods, CommitLock(p) PROVE Running'
    <2>. PICK issued \in SUBSET Runs : Commits(p, issued)
      BY <1>3, LockCommits
    <2>1. \A r \in RunsOf(p) : run[r] # "RUNNING"
      BY DEF Commits
    <2>2. \A r \in Runs : PeriodOf(r) \in Periods
      BY PlanSays
    <2>. QED
      BY <2>1, <2>2 DEF Commits
  <1>4. ASSUME NEW r \in Runs, TakeJob(r) PROVE Running'
    BY <1>4 DEF TakeJob
  <1>5. ASSUME NEW r \in Runs, FailRun(r) PROVE Running'
    BY <1>5 DEF FailRun
  <1>6. ASSUME NEW r \in Runs, RefusedFails(r) PROVE Running'
    BY <1>6 DEF RefusedFails
  <1>7. ASSUME NEW r \in Runs, CreateRun(r) PROVE Running'
    BY <1>7 DEF CreateRun
  <1>8. ASSUME NEW r \in Runs, Execute(r) PROVE Running'
    BY <1>8 DEF Execute, Claim
  <1>9. ASSUME NEW r \in Runs, ExecuteRefused(r) PROVE Running'
    BY <1>9 DEF ExecuteRefused, Claim
  <1>10. ASSUME NEW r \in Runs, Discard(r) \/ Reload(r) PROVE Running'
    <2>. PICK gone \in SUBSET Runs : GoesWith(r, gone)
      BY <1>10, Going
    <2>. QED
      BY DEF GoesWith
  <1>11. ASSUME NEW a \in Advances, MarkAdvancePaid(a) PROVE Running'
    BY <1>11 DEF MarkAdvancePaid
  <1>12. CASE BeginRegular
    BY <1>12, Beginning
  <1>13. CASE BeginBonus
    BY <1>13, Pricing
  <1>14. CASE WriteSlip
    BY <1>14, Writing
  <1>15. CASE FinishRegular
    BY <1>15, Finishing DEF Done
  <1>16. CASE FinishBonus
    BY <1>16 DEF FinishBonus
  <1>17. CASE AttemptFalls
    BY <1>17 DEF AttemptFalls
  <1>18. CASE Redeliver
    BY <1>18 DEF Redeliver
  <1>19. CASE MoveHome
    BY <1>19 DEF MoveHome
  <1>. QED
    BY <1>1, <1>2, <1>3, <1>4, <1>5, <1>6, <1>7, <1>8, <1>9, <1>10, <1>11, <1>12, <1>13, <1>14, <1>15,
       <1>16, <1>17, <1>18, <1>19 DEF PayNext, Worker, Desk

(* What a lock has chosen stays held and done until it commits. *)
LEMMA SeatsStep ==
  ASSUME Types, JobShape, Locks, Written, Sequential, Clear("redelivered")', PayNext
  PROVE  Seats'
  <1>. plan' = plan /\ Runs' = Runs
    BY Growing DEF Runs
  <1>a. /\ queue \in [Runs -> Nat] /\ run \in [Runs -> Stages] /\ slip \in [Runs -> Slips]
       /\ locking \in [Periods -> SUBSET Nat] /\ period \in [Periods -> {"none", "OPEN", "LOCKED"}]
    BY DEF Types
  <1>. USE <1>a DEF Seats, Running, OneJob, Works, Held, Idle, RegularRuns, RunsOf, KindOf, PeriodOf, Locked, NoSlip, Locks, NotLocking, Sequential, Clear, jobs, payBudget
  <1>1. ASSUME NEW p \in Periods, CreatePeriod(p) PROVE Seats'
    BY <1>1 DEF CreatePeriod
  <1>2. ASSUME NEW p \in Periods, Lock(p) PROVE Seats'
    BY <1>2 DEF Lock, ChosenSlips, LastFinished, Done
  <1>3. ASSUME NEW p \in Periods, CommitLock(p) PROVE Seats'
    <2>. PICK issued \in SUBSET Runs : Commits(p, issued)
      BY <1>3, LockCommits
    <2>1. \A r \in Runs : Held(r)' <=> Held(r)
      BY CommitsKeep
    <2>2. UNCHANGED <<run, job>> /\ \A q \in Periods : locking'[q] \in {locking[q], NotLocking}
      BY DEF Commits
    <2>. QED
      BY <2>1, <2>2 DEF JobShape
  <1>4. ASSUME NEW r \in Runs, TakeJob(r) PROVE Seats'
    <2>1. UNCHANGED <<period, locking, slip>> /\ period[PeriodOf(r)] = "OPEN" /\ job'.at = "read"
      <3>1. queue[r] > 0 /\ UNCHANGED <<period, locking, slip>>
        BY <1>4 DEF TakeJob
      <3>2. period[PeriodOf(r)] = "OPEN"
        BY <3>1
      <3>3. job' = [NoRun EXCEPT !.run = r, !.at = "read"]
        BY <1>4, <3>2 DEF TakeJob
      <3>. QED
        BY <3>1, <3>2, <3>3 DEF NoRun
    <2>2. UNCHANGED run
      BY <1>4, <2>1 DEF TakeJob
    <2>. QED
      BY <2>1, <2>2
  <1>5. ASSUME NEW r \in Runs, FailRun(r) PROVE Seats'
    BY <1>5 DEF FailRun
  <1>6. ASSUME NEW r \in Runs, RefusedFails(r) PROVE Seats'
    BY <1>6 DEF RefusedFails
  <1>7. ASSUME NEW r \in Runs, CreateRun(r) PROVE Seats'
    BY <1>7 DEF CreateRun
  <1>8. ASSUME NEW r \in Runs, Execute(r) PROVE Seats'
    BY <1>8 DEF Execute, Claim
  <1>9. ASSUME NEW r \in Runs, ExecuteRefused(r) PROVE Seats'
    BY <1>9 DEF ExecuteRefused, Claim
  <1>10. ASSUME NEW r \in Runs, Discard(r) \/ Reload(r) PROVE Seats'
    <2>. PICK gone \in SUBSET Runs : GoesWith(r, gone)
      BY <1>10, Going
    <2>1. job.at # "idle" => job.run \notin gone
      BY DEF GoesWith, JobShape
    <2>2. \A q \in Periods : Locked(q) => gone \cap locking[q] = {}
      BY DEF GoesWith
    <2>3. \A o \in Runs : o \notin gone => slip'[o] = slip[o] /\ run'[o] = run[o]
      BY DEF GoesWith
    <2>4. \A o \in gone : ~Held(o)'
      BY DEF GoesWith
    <2>5. UNCHANGED <<period, locking, job>>
      BY DEF GoesWith
    <2>. QED
      BY <2>1, <2>2, <2>3, <2>4, <2>5 DEF JobShape
  <1>11. ASSUME NEW a \in Advances, MarkAdvancePaid(a) PROVE Seats'
    BY <1>11 DEF MarkAdvancePaid
  <1>12. CASE BeginRegular
    BY <1>12, Beginning
  <1>13. CASE BeginBonus
    BY <1>13, Pricing DEF NoRun
  <1>14. CASE WriteSlip
    <2>. USE <1>14, Writing
    <2>1. \A o \in Runs : o # job.run => slip'[o] = slip[o]
      OBVIOUS
    <2>2. job'.run = job.run /\ job'.covers = job.covers /\ (job.run \notin RegularRuns \/ job.covers => Held(job.run)')
      OBVIOUS
    <2>3. ~(job.run \notin RegularRuns \/ job.covers) => slip' = slip /\ ~Held(job.run)
      BY DEF Written
    <2>4. run[job.run] = "RUNNING" /\ UNCHANGED <<run, period, locking>> /\ job'.at = "written"
      OBVIOUS
    <2>5. \A q \in Periods : Locked(q) => job.run \notin locking[q]
      BY <2>4
    <2>. QED
      BY <2>1, <2>2, <2>3, <2>4, <2>5
  <1>15. CASE FinishRegular
    BY <1>15, Finishing DEF NoRun, Done
  <1>16. CASE FinishBonus
    <2>1. UNCHANGED <<slip, period, locking>> /\ Idle' /\ job.run \in Runs
      BY <1>16 DEF FinishBonus, NoRun, JobShape
    <2>2. \A o \in Runs : o # job.run => run'[o] = run[o]
      BY <1>16 DEF FinishBonus
    <2>3. run'[job.run] = "DONE"
      BY <1>16, <2>1 DEF FinishBonus
    <2>. QED
      BY <2>1, <2>2, <2>3
  <1>17. CASE AttemptFalls
    BY <1>17 DEF AttemptFalls, NoRun
  <1>18. CASE Redeliver
    BY <1>18 DEF Redeliver
  <1>19. CASE MoveHome
    BY <1>19 DEF MoveHome
  <1>. QED
    BY <1>1, <1>2, <1>3, <1>4, <1>5, <1>6, <1>7, <1>8, <1>9, <1>10, <1>11, <1>12, <1>13, <1>14, <1>15,
       <1>16, <1>17, <1>18, <1>19 DEF PayNext, Worker, Desk

(* No step but the commit of a lock touches what a lock has chosen or has issued. *)
LEMMA UntouchedStep ==
  ASSUME Types, JobShape, Locks, Sequential, PayNext, \A p \in Periods : ~CommitLock(p)
  PROVE  Untouched
  <1>. plan' = plan /\ Runs' = Runs
    BY Growing DEF Runs
  <1>a. /\ queue \in [Runs -> Nat] /\ run \in [Runs -> Stages] /\ slip \in [Runs -> Slips]
    BY DEF Types
  <1>b. ~Idle => job.run \in Runs /\ ~Settled(job.run)
    BY DEF JobShape, Sequential, OneJob, Running, Works, Settled
  <1>. USE <1>a, <1>b DEF Untouched, OneJob, Running, Sequential, Settled, Works, Idle, NoSlip, jobs, payBudget
  <1>1. ASSUME NEW p \in Periods, CreatePeriod(p) PROVE Untouched
    BY <1>1 DEF CreatePeriod
  <1>2. ASSUME NEW p \in Periods, Lock(p) PROVE Untouched
    BY <1>2 DEF Lock
  <1>4. ASSUME NEW r \in Runs, TakeJob(r) PROVE Untouched
    BY <1>4 DEF TakeJob
  <1>5. ASSUME NEW r \in Runs, FailRun(r) PROVE Untouched
    BY <1>5 DEF FailRun
  <1>6. ASSUME NEW r \in Runs, RefusedFails(r) PROVE Untouched
    BY <1>6 DEF RefusedFails
  <1>7. ASSUME NEW r \in Runs, CreateRun(r) PROVE Untouched
    BY <1>7 DEF CreateRun
  <1>8. ASSUME NEW r \in Runs, Execute(r) PROVE Untouched
    BY <1>8 DEF Execute, Claim
  <1>9. ASSUME NEW r \in Runs, ExecuteRefused(r) PROVE Untouched
    BY <1>9 DEF ExecuteRefused, Claim
  <1>10. ASSUME NEW r \in Runs, Discard(r) \/ Reload(r) PROVE Untouched
    <2>. PICK gone \in SUBSET Runs : GoesWith(r, gone)
      BY <1>10, Going
    <2>1. \A o \in gone : PeriodOf(o) = PeriodOf(r)
      BY DEF GoesWith, RunsOf
    <2>2. \A o \in gone : ~Settled(o) /\ slip'[o] = NoSlip
      BY <2>1 DEF GoesWith
    <2>3. \A o \in Runs \ gone : slip'[o] = slip[o] /\ run'[o] = run[o]
      BY DEF GoesWith
    <2>. QED
      BY <2>2, <2>3
  <1>11. ASSUME NEW a \in Advances, MarkAdvancePaid(a) PROVE Untouched
    BY <1>11 DEF MarkAdvancePaid
  <1>12. CASE BeginRegular
    BY <1>12, Beginning
  <1>13. CASE BeginBonus
    BY <1>13, Pricing
  <1>14. CASE WriteSlip
    BY <1>14, Writing
  <1>15. CASE FinishRegular
    <2>. PICK stale : stale = Done(PeriodOf(job.run), "BONUS")
      OBVIOUS
    <2>1. \A o \in stale : PeriodOf(o) = PeriodOf(job.run)
      BY DEF Done, RunsOf
    <2>2. \A o \in Runs : o # job.run /\ o \notin stale => slip'[o] = slip[o] /\ run'[o] = run[o]
      BY <1>15, Finishing
    <2>3. \A o \in Runs : slip'[o] \in {slip[o], NoSlip}
      BY <1>15, Finishing
    <2>4. \A o \in Runs : o = job.run \/ o \in stale => ~Settled(o)
      BY <1>15, <2>1, Finishing
    <2>. QED
      BY <2>2, <2>3, <2>4
  <1>16. CASE FinishBonus
    BY <1>16 DEF FinishBonus
  <1>17. CASE AttemptFalls
    BY <1>17 DEF AttemptFalls
  <1>18. CASE Redeliver
    BY <1>18 DEF Redeliver
  <1>19. CASE MoveHome
    BY <1>19 DEF MoveHome
  <1>. QED
    BY <1>1, <1>2, <1>4, <1>5, <1>6, <1>7, <1>8, <1>9, <1>10, <1>11, <1>12, <1>13, <1>14, <1>15, <1>16,
       <1>17, <1>18, <1>19 DEF PayNext, Worker, Desk

(* Nothing is issued but by the commit of a lock. *)
LEMMA NoneIssuedStep ==
  ASSUME Types, JobShape, PayNext, \A p \in Periods : ~CommitLock(p)
  PROVE  NoneIssued
  <1>. plan' = plan /\ Runs' = Runs
    BY Growing DEF Runs
  <1>a. slip \in [Runs -> Slips]
    BY DEF Types
  <1>. USE <1>a DEF NoneIssued, NoSlip, jobs, payBudget
  <1>1. ASSUME NEW p \in Periods, CreatePeriod(p) PROVE NoneIssued
    BY <1>1 DEF CreatePeriod
  <1>2. ASSUME NEW p \in Periods, Lock(p) PROVE NoneIssued
    BY <1>2 DEF Lock
  <1>4. ASSUME NEW r \in Runs, TakeJob(r) PROVE NoneIssued
    BY <1>4 DEF TakeJob
  <1>5. ASSUME NEW r \in Runs, FailRun(r) PROVE NoneIssued
    BY <1>5 DEF FailRun
  <1>6. ASSUME NEW r \in Runs, RefusedFails(r) PROVE NoneIssued
    BY <1>6 DEF RefusedFails
  <1>7. ASSUME NEW r \in Runs, CreateRun(r) PROVE NoneIssued
    BY <1>7 DEF CreateRun
  <1>8. ASSUME NEW r \in Runs, Execute(r) PROVE NoneIssued
    BY <1>8 DEF Execute, Claim
  <1>9. ASSUME NEW r \in Runs, ExecuteRefused(r) PROVE NoneIssued
    BY <1>9 DEF ExecuteRefused, Claim
  <1>10. ASSUME NEW r \in Runs, Discard(r) \/ Reload(r) PROVE NoneIssued
    <2>. PICK gone \in SUBSET Runs : GoesWith(r, gone)
      BY <1>10, Going
    <2>. QED
      BY DEF GoesWith
  <1>11. ASSUME NEW a \in Advances, MarkAdvancePaid(a) PROVE NoneIssued
    BY <1>11 DEF MarkAdvancePaid
  <1>12. CASE BeginRegular
    BY <1>12, Beginning
  <1>13. CASE BeginBonus
    BY <1>13, Pricing
  <1>14. CASE WriteSlip
    BY <1>14, Writing
  <1>15. CASE FinishRegular
    BY <1>15, Finishing
  <1>16. CASE FinishBonus
    BY <1>16 DEF FinishBonus
  <1>17. CASE AttemptFalls
    BY <1>17 DEF AttemptFalls
  <1>18. CASE Redeliver
    BY <1>18 DEF Redeliver
  <1>19. CASE MoveHome
    BY <1>19 DEF MoveHome
  <1>. QED
    BY <1>1, <1>2, <1>4, <1>5, <1>6, <1>7, <1>8, <1>9, <1>10, <1>11, <1>12, <1>13, <1>14, <1>15, <1>16,
       <1>17, <1>18, <1>19 DEF PayNext, Worker, Desk

(* What was issued stands, and only a period that is open issues. *)
LEMMA IssuedStep ==
  ASSUME Types, JobShape, Locks, Clear("redelivered") => Sequential, PayNext
  PROVE  /\ Clear("redelivered") => \A r \in Issued : slip'[r] = slip[r]
         /\ \A r \in Runs : slip'[r].state = "ISSUED" /\ r \notin Issued => period[PeriodOf(r)] = "OPEN"
  <1>1. CASE \A p \in Periods : ~CommitLock(p)
    <2>1. NoneIssued
      BY <1>1, NoneIssuedStep
    <2>2. Clear("redelivered") => Untouched
      BY <1>1, UntouchedStep
    <2>3. \A r \in Issued : Settled(r)
      BY DEF Locks, Settled
    <2>. QED
      BY <2>1, <2>2, <2>3 DEF NoneIssued, Untouched, Issued
  <1>2. ASSUME NEW p \in Periods, CommitLock(p)
        PROVE  /\ \A r \in Issued : slip'[r] = slip[r]
               /\ \A r \in Runs : slip'[r].state = "ISSUED" /\ r \notin Issued => period[PeriodOf(r)] = "OPEN"
    <2>. PICK issued \in SUBSET Runs : Commits(p, issued)
      BY <1>2, LockCommits
    <2>1. \A r \in Runs : r \notin issued => slip'[r] = slip[r]
      BY DEF Commits
    <2>2. \A r \in issued : slip[r].state = "DRAFT" /\ r \in locking[p]
      BY CommitsKeep
    <2>3. \A r \in issued : period[PeriodOf(r)] = "OPEN"
      BY <2>2 DEF Commits, Locks, RunsOf
    <2>. QED
      BY <2>1, <2>2, <2>3 DEF Issued
  <1>. QED
    BY <1>1, <1>2

(* What a lock has chosen stays, but for the lock that begins and the one that commits. *)
LEMMA LocksStand ==
  ASSUME PayNext, \A p \in Periods : ~Lock(p) /\ ~CommitLock(p)
  PROVE  locking' = locking
  BY DEF PayNext, Worker, Desk, CreatePeriod, CreateRun, Execute, ExecuteRefused,
         Claim, Discard, Reload, MarkAdvancePaid, MoveHome, TakeJob, FailRun, RefusedFails,
         BeginRegular, BeginBonus, WriteSlip, FinishRegular, FinishBonus, AttemptFalls, Redeliver

(* No two locks of a month at once, so the second reads what the first has issued. *)
LEMMA MonthsStep ==
  ASSUME Types, JobShape, Locks, (payHoles \cap MonthHoles = {}) => Months, PayNext,
         payHoles' \cap MonthHoles = {}
  PROVE  Months'
  <1>. /\ plan' = plan /\ Runs' = Runs /\ RegularRuns' = RegularRuns
       /\ \A r : PeriodOf(r)' = PeriodOf(r) /\ KindOf(r)' = KindOf(r)
    BY Growing DEF Runs, RegularRuns, KindOf, PeriodOf
  <1>a. Months /\ payHoles \cap MonthHoles = {}
    BY Growing
  <1>b. \A r, o \in Issued \cap RegularRuns : Calendar[PeriodOf(r)].month = Calendar[PeriodOf(o)].month => r = o
    BY <1>a DEF Months, OneSlipAMonth, MonthHoles, RegularRuns, Issued
  <1>c. SUFFICES /\ \A p, q \in Periods : Locked(p)' /\ Locked(q)' /\ Calendar[p].month = Calendar[q].month => p = q
                 /\ \A p \in Periods : Locked(p)' =>
                      \A r \in locking'[p] \cap RegularRuns, o \in Issued' \cap RegularRuns :
                        Calendar[PeriodOf(o)].month # Calendar[p].month
                 /\ \A r, o \in Issued' \cap RegularRuns : Calendar[PeriodOf(r)].month = Calendar[PeriodOf(o)].month => r = o
    BY DEF Months, OneSlipAMonth, MonthHoles, RegularRuns, Issued
  <1>1. CASE \A p \in Periods : ~Lock(p) /\ ~CommitLock(p)
    <2>1. locking' = locking
      BY <1>1, LocksStand
    <2>2. Issued' \subseteq Issued
      BY <1>1, NoneIssuedStep DEF NoneIssued, Issued
    <2>. QED
      BY <1>a, <1>b, <2>1, <2>2 DEF Months, Locked
  <1>2. ASSUME NEW p \in Periods, Lock(p)
        PROVE  /\ \A z, q \in Periods : Locked(z)' /\ Locked(q)' /\ Calendar[z].month = Calendar[q].month => z = q
               /\ \A q \in Periods : Locked(q)' =>
                      \A r \in locking'[q] \cap RegularRuns, o \in Issued' \cap RegularRuns :
                        Calendar[PeriodOf(o)].month # Calendar[q].month
               /\ Issued' = Issued
    <2>1. locking' = [locking EXCEPT ![p] = ChosenSlips(p)] /\ period[p] = "OPEN" /\ ~Locked(p) /\ slip' = slip
      BY <1>2 DEF Lock
    <2>. PICK c : c = ChosenSlips(p)  OBVIOUS
    <2>2. locking'[p] = c /\ \A q \in Periods : q # p => locking'[q] = locking[q]
      BY <2>1 DEF Types
    <2>3. Issued' = Issued
      BY <2>1 DEF Issued
    <2>4. ~\E q \in Periods \ {p} : Locked(q) /\ Calendar[q].month = Calendar[p].month
      BY <1>2 DEF Lock, MonthHoles
    <2>5. \A r \in c \cap RegularRuns, o \in Issued \cap RegularRuns : Calendar[PeriodOf(o)].month # Calendar[p].month
      <3>. SUFFICES ASSUME NEW r \in c \cap RegularRuns, NEW o \in Issued \cap RegularRuns,
                           Calendar[PeriodOf(o)].month = Calendar[p].month
                    PROVE  FALSE
        OBVIOUS
      <3>1. PeriodOf(o) # p
        BY <2>1 DEF Locks
      <3>2. PaidElsewhere(p)
        BY <3>1 DEF PaidElsewhere, RegularRuns
      <3>3. r \in Done(p, "BONUS")
        BY <3>2 DEF ChosenSlips
      <3>. QED
        BY <3>3 DEF Done, RegularRuns
    <2>. QED
      BY <1>a, <2>2, <2>3, <2>4, <2>5 DEF Months, Locked
  <1>3. ASSUME NEW p \in Periods, CommitLock(p)
        PROVE  /\ \A z, q \in Periods : Locked(z)' /\ Locked(q)' /\ Calendar[z].month = Calendar[q].month => z = q
               /\ \A q \in Periods : Locked(q)' =>
                      \A r \in locking'[q] \cap RegularRuns, o \in Issued' \cap RegularRuns :
                        Calendar[PeriodOf(o)].month # Calendar[q].month
               /\ \A r, o \in Issued' \cap RegularRuns : Calendar[PeriodOf(r)].month = Calendar[PeriodOf(o)].month => r = o
    <2>. PICK issued \in SUBSET Runs : Commits(p, issued)
      BY <1>3, LockCommits
    <2>1. Issued' = Issued \cup issued
      BY CommitsKeep DEF Issued
    <2>2. \A q \in Periods : Locked(q)' => q # p /\ locking'[q] = locking[q] /\ Locked(q)
      BY DEF Commits, Locked
    <2>3. Locked(p) /\ issued \subseteq locking[p]
      BY CommitsKeep DEF Commits
    <2>4. \A r \in issued : PeriodOf(r) = p
      BY <2>3 DEF Locks, RunsOf
    <2>5. \A r, o \in issued \cap RegularRuns : r = o
      BY <2>3 DEF Locks
    <2>6. \A r \in issued \cap RegularRuns, o \in Issued \cap RegularRuns : Calendar[PeriodOf(o)].month # Calendar[p].month
      BY <1>a, <2>3 DEF Months
    <2>7. \A q \in Periods : Locked(q)' => Calendar[q].month # Calendar[p].month
      BY <1>a, <2>2, <2>3 DEF Months
    <2>. QED
      BY <1>a, <1>b, <2>1, <2>2, <2>4, <2>5, <2>6, <2>7 DEF Months
  <1>. QED
    BY <1>b, <1>1, <1>2, <1>3

-----------------------------------------------------------------------------
(* What a bonus stands on. *)

(* Of two steps' worth of runs, the one that finished last is the same. *)
LEMMA LastHolds ==
  ASSUME NEW q, plan' = plan,
         \A o \in RunsOf(q) \cap RegularRuns : (run'[o] = "DONE" /\ Held(o)') <=> (run[o] = "DONE" /\ Held(o)),
         \A o, s \in RunsOf(q) : (finished'[o] <= finished'[s]) <=> (finished[o] <= finished[s])
  PROVE  LastFinished(q)' = LastFinished(q)
  <1>. PICK priced : priced = {r \in Done(q, "REGULAR") : Held(r)}  OBVIOUS
  <1>1. {r \in Done(q, "REGULAR") : Held(r)}' = priced /\ priced \subseteq RunsOf(q)
    BY DEF Done, RunsOf, RegularRuns, Runs, KindOf, PeriodOf
  <1>2. LastFinished(q)' = {r \in priced : \A other \in priced : finished'[r] <= finished'[other]}
    BY <1>1 DEF LastFinished
  <1>3. LastFinished(q) = {r \in priced : \A other \in priced : finished[r] <= finished[other]}
    BY DEF LastFinished
  <1>. QED
    BY <1>1, <1>2, <1>3

(* What a bonus may stand on stays, but for the payslips that go. *)
LEMMA BaseHolds ==
  ASSUME NEW q, plan' = plan, NEW lost,
         \A o \in RunsOf(q) \ lost : Held(o) => Held(o)' /\ slip'[o].no = slip[o].no,
         \A o \in LastFinished(q) \ lost : o \in LastFinished(q)'
  PROVE  \A x \in Base(q) : x \in {IdOf(c) : c \in lost \cap (LastFinished(q) \cup Bonuses(q))} \/ x \in Base(q)'
  <1>. TAKE x \in Base(q)
  <1>. PICK c \in LastFinished(q) \cup Bonuses(q) : x = IdOf(c)
    BY DEF Base
  <1>1. c \in RunsOf(q) /\ Held(c)
    BY DEF LastFinished, Done, Bonuses
  <1>2. CASE c \in lost
    BY <1>2
  <1>3. CASE c \notin lost
    <2>1. Held(c)' /\ x = IdOf(c)'
      BY <1>1, <1>3 DEF IdOf
    <2>2. c \in LastFinished(q)' \cup Bonuses(q)'
      BY <1>1, <1>3, <2>1 DEF Bonuses, RunsOf, Runs, RegularRuns, KindOf, PeriodOf
    <2>. QED
      BY <2>1, <2>2 DEF Base
  <1>. QED
    BY <1>2, <1>3

(* A step that touches no finished run nor a bonus keeps what every period offers. *)
LockOffers(q) ==
  /\ \A o \in RunsOf(q) \cap RegularRuns : (run'[o] = "DONE" /\ Held(o)') <=> (run[o] = "DONE" /\ Held(o))
  /\ \A o \in RunsOf(q) : finished'[o] = finished[o]
  /\ \A o \in RunsOf(q) : Held(o) /\ (o \notin RegularRuns \/ run[o] = "DONE") => Held(o)' /\ slip'[o].no = slip[o].no
(* A period that offers the same payslips offers a bonus the same base. *)
LEMMA OffersHold ==
  ASSUME NEW q, plan' = plan, LockOffers(q)
  PROVE  LastFinished(q)' = LastFinished(q) /\ Base(q) \subseteq Base(q)'
  <1>1. LastFinished(q)' = LastFinished(q)
    BY LastHolds DEF LockOffers
  <1>. PICK lost : lost = {o \in RunsOf(q) \cap RegularRuns : run[o] # "DONE"}  OBVIOUS
  <1>2. lost \cap (LastFinished(q) \cup Bonuses(q)) = {}
    BY DEF LastFinished, Done, Bonuses
  <1>3. \A o \in RunsOf(q) \ lost : Held(o) => Held(o)' /\ slip'[o].no = slip[o].no
    BY DEF LockOffers
  <1>. PICK none : none = lost \cap (LastFinished(q) \cup Bonuses(q))  OBVIOUS
  <1>4. \A x \in Base(q) : x \in {IdOf(c) : c \in none} \/ x \in Base(q)'
    BY <1>1, <1>3, BaseHolds
  <1>. QED
    BY <1>1, <1>2, <1>4

(* A step that takes nothing from under a bonus leaves every bonus standing. *)
LEMMA QuietStands ==
  ASSUME Types, JobShape, DoneStands, JobStands, plan' = plan,
         \A q \in Periods : LockOffers(q),
         \A r \in Runs \ RegularRuns : run'[r] = "DONE" => run[r] = "DONE" /\ slip'[r].base = slip[r].base,
         \A o \in RegularRuns : run[o] = "RUNNING" /\ HasFinished(o) => run'[o] = "RUNNING" /\ HasFinished(o)',
         Idle' \/ job'.base = {} \/ (~Idle /\ job'.base = job.base /\ job'.run = job.run)
  PROVE  DoneStands' /\ JobStands'
  <1>. Runs' = Runs /\ RegularRuns' = RegularRuns /\ \A r : PeriodOf(r)' = PeriodOf(r)
    BY DEF Runs, RegularRuns, KindOf, PeriodOf
  <1>1. \A q \in Periods : Base(q) \subseteq Base(q)'
    BY OffersHold
  <1>2. \A q \in Periods : Retakes(q) => Retakes(q)'
    BY DEF Retakes, RunsOf, Runs, RegularRuns, KindOf, PeriodOf
  <1>3. \A r \in Runs : PeriodOf(r) \in Periods
    BY PlanSays
  <1>4. DoneStands'
    BY <1>1, <1>2, <1>3 DEF DoneStands
  <1>5. JobStands'
    <2>. SUFFICES ASSUME ~Idle' PROVE job'.base \subseteq Base(PeriodOf(job.run))'
      BY DEF JobStands
    <2>1. CASE job'.base = {}
      BY <2>1
    <2>2. CASE ~Idle /\ job'.base = job.base /\ job'.run = job.run
      <3>. PICK q \in Periods : q = PeriodOf(job.run)
        BY <1>3, <2>2 DEF JobShape
      <3>1. job.base \subseteq Base(q) /\ Base(q) \subseteq Base(q)'
        BY <1>1, <2>2 DEF JobStands
      <3>2. PeriodOf(job.run)' = q
        BY <2>2 DEF PeriodOf
      <3>. QED
        BY <2>2, <3>1, <3>2
    <2>. QED
      BY <2>1, <2>2
  <1>. QED
    BY <1>4, <1>5


(* Bonuses done and being priced stand on what the lock would issue. *)
LEMMA FoundationsStep ==
  ASSUME Types, Numbered, JobShape, Locks, Written, Sequential, DoneStands, JobStands, PayNext,
         payHoles' \cap StandHoles = {}
  PROVE  DoneStands' /\ JobStands'
  <1>. plan' = plan /\ Runs' = Runs /\ payHoles \cap StandHoles = {} /\ Clear("redelivered")'
    BY Growing DEF Runs, StandHoles, Clear
  <1>a. /\ slip \in [Runs -> Slips] /\ run \in [Runs -> Stages] /\ finished \in [Runs -> Nat] /\ queue \in [Runs -> Nat]
    BY DEF Types
  <1>b. ~Idle => job.run \in Runs /\ run[job.run] = "RUNNING"
    BY DEF JobShape, Sequential, OneJob, Works
  <1>1. ASSUME NEW p \in Periods, CreatePeriod(p) \/ Lock(p) PROVE DoneStands' /\ JobStands'
    <2>1. UNCHANGED <<run, slip, finished, job>>
      BY <1>1 DEF CreatePeriod, Lock, jobs
    <2>2. \A q \in Periods : LockOffers(q)
      BY <2>1 DEF LockOffers, Held
    <2>. QED
      BY <2>1, <2>2, QuietStands DEF HasFinished, Idle
  <1>2. ASSUME NEW p \in Periods, CommitLock(p) PROVE DoneStands' /\ JobStands'
    <2>. PICK issued \in SUBSET Runs : Commits(p, issued)
      BY <1>2, LockCommits
    <2>1. UNCHANGED <<run, finished, job>>
      BY DEF Commits
    <2>2. \A q \in Periods : LockOffers(q)
      BY <2>1, CommitsKeep DEF LockOffers, RunsOf
    <2>3. \A r \in Runs : slip'[r].base = slip[r].base
      BY CommitsKeep
    <2>. QED
      BY <2>1, <2>2, <2>3, QuietStands DEF HasFinished, Idle
  <1>3. CASE MoveHome \/ \E a \in Advances : MarkAdvancePaid(a)
    <2>1. UNCHANGED <<run, slip, finished, job>>
      BY <1>3 DEF MoveHome, MarkAdvancePaid, jobs
    <2>2. \A q \in Periods : LockOffers(q)
      BY <2>1 DEF LockOffers, Held
    <2>. QED
      BY <2>1, <2>2, QuietStands DEF HasFinished, Idle
  <1>4. ASSUME NEW r \in Runs, CreateRun(r) \/ FailRun(r) \/ RefusedFails(r)
        PROVE  DoneStands' /\ JobStands'
    <2>1. UNCHANGED <<slip, finished, job>> /\ run[r] # "DONE" /\ run'[r] # "DONE"
      BY <1>4, <1>a DEF CreateRun, FailRun, RefusedFails, jobs, Sequential, OneJob
    <2>2. \A o \in Runs : o # r => run'[o] = run[o]
      BY <1>4, <1>a DEF CreateRun, FailRun, RefusedFails
    <2>3. \A q \in Periods : LockOffers(q)
      BY <2>1, <2>2 DEF LockOffers, Held, RunsOf, RegularRuns
    <2>4. ~HasFinished(r) \/ run[r] # "RUNNING"
      BY <1>4 DEF CreateRun, FailRun, RefusedFails, StandHoles
    <2>5. \A o \in RegularRuns : run[o] = "RUNNING" /\ HasFinished(o) => run'[o] = "RUNNING" /\ HasFinished(o)'
      BY <2>1, <2>2, <2>4 DEF HasFinished, RegularRuns
    <2>6. \A o \in Runs \ RegularRuns : run'[o] = "DONE" => run[o] = "DONE" /\ slip'[o].base = slip[o].base
      BY <2>1, <2>2
    <2>7. Idle' \/ (~Idle /\ job'.base = job.base /\ job'.run = job.run)
      BY <2>1 DEF Idle
    <2>. QED
      BY <2>3, <2>5, <2>6, <2>7, QuietStands
  <1>5. ASSUME NEW r \in Runs, TakeJob(r) PROVE DoneStands' /\ JobStands'
    <2>1. period[PeriodOf(r)] = "OPEN"
      BY <1>5 DEF TakeJob, Sequential, OneJob, Running
    <2>2. UNCHANGED <<run, slip, finished>> /\ job' = [NoRun EXCEPT !.run = r, !.at = "read"]
      BY <1>5, <2>1 DEF TakeJob
    <2>3. \A q \in Periods : LockOffers(q)
      BY <2>2 DEF LockOffers, Held
    <2>4. job'.base = {}
      BY <2>2 DEF NoRun
    <2>. QED
      BY <2>2, <2>3, <2>4, QuietStands DEF HasFinished
  <1>6. ASSUME NEW r \in Runs, Execute(r) \/ ExecuteRefused(r) PROVE DoneStands' /\ JobStands'
    <2>1. /\ UNCHANGED <<slip, finished, job>> /\ run[r] # "RUNNING" /\ run'[r] = "RUNNING"
          /\ \A o \in RunsOf(PeriodOf(r)) : run[o] # "RUNNING"
          /\ \A o \in Runs : o # r => run'[o] = run[o]
      BY <1>6, <1>a DEF Execute, ExecuteRefused, Claim
    <2>2. \A q \in Periods : q # PeriodOf(r) \/ r \notin RegularRuns \/ run[r] # "DONE" => LockOffers(q)
      BY <2>1 DEF LockOffers, Held, RunsOf, RegularRuns
    <2>3. \A o \in RegularRuns : run[o] = "RUNNING" /\ HasFinished(o) => run'[o] = "RUNNING" /\ HasFinished(o)'
      BY <2>1 DEF HasFinished, RegularRuns
    <2>4. \A o \in Runs \ RegularRuns : run'[o] = "DONE" => run[o] = "DONE" /\ slip'[o].base = slip[o].base
      BY <2>1
    <2>5. CASE r \notin RegularRuns \/ run[r] # "DONE"
      <3>1. \A q \in Periods : LockOffers(q)
        BY <2>2, <2>5
      <3>2. Idle' \/ (~Idle /\ job'.base = job.base /\ job'.run = job.run)
        BY <2>1 DEF Idle
      <3>. QED
        BY <2>3, <2>4, <3>1, <3>2, QuietStands
    <2>6. CASE r \in RegularRuns /\ run[r] = "DONE"
      <3>. RegularRuns' = RegularRuns /\ \A o : PeriodOf(o)' = PeriodOf(o)
        BY DEF Runs, RegularRuns, KindOf, PeriodOf
      <3>1. \A q \in Periods : q # PeriodOf(r) => Base(q) \subseteq Base(q)' /\ (Retakes(q) => Retakes(q)')
        <4>1. \A q \in Periods : q # PeriodOf(r) => Base(q) \subseteq Base(q)'
          BY <2>2, OffersHold
        <4>2. \A q \in Periods : Retakes(q) => Retakes(q)'
          BY <2>3 DEF Retakes, RunsOf, Runs, RegularRuns, KindOf, PeriodOf
        <4>. QED
          BY <4>1, <4>2
      <3>2. Retakes(PeriodOf(r))'
        <4>1. HasFinished(r)'
          BY <2>1, <2>6 DEF Numbered, HasFinished
        <4>. QED
          BY <2>1, <2>6, <4>1 DEF Retakes, RunsOf
      <3>3. \A o \in Runs : PeriodOf(o) \in Periods
        BY PlanSays
      <3>4. DoneStands'
        BY <2>4, <3>1, <3>2, <3>3 DEF DoneStands
      <3>5. ~Idle => PeriodOf(job.run) # PeriodOf(r)
        BY <1>b, <2>1 DEF RunsOf
      <3>6. JobStands'
        <4>. SUFFICES ASSUME ~Idle PROVE job.base \subseteq Base(PeriodOf(job.run))'
          BY <2>1 DEF JobStands, Idle
        <4>. PICK q \in Periods : q = PeriodOf(job.run)
          BY <1>b, <3>3
        <4>1. PeriodOf(job.run)' = q
          BY <2>1 DEF PeriodOf
        <4>2. job.base \subseteq Base(q) /\ Base(q) \subseteq Base(q)'
          BY <3>1, <3>5 DEF JobStands
        <4>. QED
          BY <4>1, <4>2
      <3>. QED
        BY <3>4, <3>6
    <2>. QED
      BY <2>5, <2>6
  <1>7. CASE BeginRegular
    <2>. USE <1>7, Beginning
    <2>1. \A o \in Runs : o # job.run => slip'[o] = slip[o] /\ run'[o] = run[o]
      OBVIOUS
    <2>2. run[job.run] = "RUNNING" /\ run'[job.run] = "RUNNING" /\ finished' = finished /\ job.run \in RegularRuns /\ job'.base = {}
      BY <1>b DEF Idle, RegularRuns
    <2>3. \A q \in Periods : LockOffers(q)
      BY <2>1, <2>2 DEF LockOffers, Held, RunsOf
    <2>4. \A o \in RegularRuns : run[o] = "RUNNING" /\ HasFinished(o) => run'[o] = "RUNNING" /\ HasFinished(o)'
      BY <2>1, <2>2 DEF HasFinished, RegularRuns
    <2>5. \A o \in Runs \ RegularRuns : run'[o] = "DONE" => run[o] = "DONE" /\ slip'[o].base = slip[o].base
      BY <2>1, <2>2
    <2>. QED
      BY <2>2, <2>3, <2>4, <2>5, QuietStands
  <1>8. CASE WriteSlip
    <2>. USE <1>8, Writing
    <2>1. \A o \in Runs : o # job.run => slip'[o] = slip[o]
      OBVIOUS
    <2>2. run[job.run] = "RUNNING" /\ run' = run /\ finished' = finished /\ ~Held(job.run)
      BY <1>b DEF Idle, Written
    <2>3. \A q \in Periods : LockOffers(q)
      BY <2>1, <2>2 DEF LockOffers, Held, RunsOf
    <2>4. \A o \in RegularRuns : run[o] = "RUNNING" /\ HasFinished(o) => run'[o] = "RUNNING" /\ HasFinished(o)'
      BY <2>2 DEF HasFinished
    <2>5. \A o \in Runs \ RegularRuns : run'[o] = "DONE" => run[o] = "DONE" /\ slip'[o].base = slip[o].base
      BY <2>1, <2>2
    <2>6. ~Idle /\ job'.base = job.base /\ job'.run = job.run
      BY DEF Idle
    <2>. QED
      BY <2>3, <2>4, <2>5, <2>6, QuietStands
  <1>9. CASE AttemptFalls
    <2>1. UNCHANGED <<run, slip, finished>> /\ job' = NoRun
      BY <1>9 DEF AttemptFalls
    <2>2. \A q \in Periods : LockOffers(q)
      BY <2>1 DEF LockOffers, Held
    <2>3. Idle'
      BY <2>1 DEF Idle, NoRun
    <2>. QED
      BY <2>1, <2>2, <2>3, QuietStands DEF HasFinished
  <1>10. CASE Redeliver
    BY <1>10 DEF Redeliver, StandHoles
  <1>c. \A o \in Runs : PeriodOf(o) \in Periods
    BY PlanSays
  <1>. RegularRuns' = RegularRuns /\ \A o : PeriodOf(o)' = PeriodOf(o)
    BY DEF Runs, RegularRuns, KindOf, PeriodOf
  <1>11. CASE FinishRegular
    <2>. USE <1>11, Finishing
    <2>. PICK p : p = PeriodOf(job.run)  OBVIOUS
    <2>1. job.run \in RunsOf(p) /\ Idle'
      BY DEF RunsOf, RegularRuns, Idle, NoRun
    <2>2. \A o \in Runs : PeriodOf(o) # p => /\ slip'[o] = slip[o] /\ run'[o] = run[o]
                                              /\ finished'[o] = IF finished[o] > 0 THEN finished[o] + 1 ELSE 0
      BY DEF Done, RunsOf
    <2>3. \A q \in Periods : q # p => LastFinished(q)' = LastFinished(q)
      <3>. SUFFICES ASSUME NEW q \in Periods, q # p PROVE LastFinished(q)' = LastFinished(q)
        OBVIOUS
      <3>1. \A o \in RunsOf(q) \cap RegularRuns : (run'[o] = "DONE" /\ Held(o)') <=> (run[o] = "DONE" /\ Held(o))
        BY <2>2 DEF RunsOf, Held
      <3>2. \A o, s \in RunsOf(q) : (finished'[o] <= finished'[s]) <=> (finished[o] <= finished[s])
        <4>. SUFFICES ASSUME NEW o \in RunsOf(q), NEW s \in RunsOf(q)
                      PROVE  (finished'[o] <= finished'[s]) <=> (finished[o] <= finished[s])
          OBVIOUS
        <4>1. /\ finished'[o] = IF finished[o] > 0 THEN finished[o] + 1 ELSE 0
              /\ finished'[s] = IF finished[s] > 0 THEN finished[s] + 1 ELSE 0
          BY <2>2 DEF RunsOf
        <4>. PICK m \in Nat, n \in Nat : m = finished[o] /\ n = finished[s]
          BY <1>a DEF RunsOf
        <4>. QED
          BY <4>1
      <3>. QED
        BY <3>1, <3>2, LastHolds
    <2>4. \A q \in Periods : q # p => Base(q) \subseteq Base(q)'
      <3>. SUFFICES ASSUME NEW q \in Periods, q # p PROVE Base(q) \subseteq Base(q)'
        OBVIOUS
      <3>. PICK none : none = {}  OBVIOUS
      <3>1. \A o \in RunsOf(q) \ none : Held(o) => Held(o)' /\ slip'[o].no = slip[o].no
        BY <2>2 DEF RunsOf, Held
      <3>2. \A x \in Base(q) : x \in {IdOf(c) : c \in none \cap (LastFinished(q) \cup Bonuses(q))} \/ x \in Base(q)'
        BY <2>3, <3>1, BaseHolds
      <3>. QED
        BY <3>2
    <2>5. \A q \in Periods : q # p /\ Retakes(q) => Retakes(q)'
      <3>1. \A o \in RegularRuns : PeriodOf(o) # p /\ run[o] = "RUNNING" /\ HasFinished(o) => run'[o] = "RUNNING" /\ HasFinished(o)'
        BY <1>a, <2>2 DEF HasFinished, RegularRuns
      <3>. QED
        BY <3>1 DEF Retakes, RunsOf
    <2>6. \A r \in Runs \ RegularRuns : PeriodOf(r) = p => run'[r] # "DONE"
      BY PlanSays DEF Done, RunsOf, RegularRuns
    <2>7. DoneStands'
      BY <1>c, <2>2, <2>4, <2>5, <2>6 DEF DoneStands
    <2>. QED
      BY <2>1, <2>7 DEF JobStands
  <1>12. CASE FinishBonus
    <2>. PICK r \in Runs \ RegularRuns : r = job.run
      BY <1>12 DEF FinishBonus, JobShape, Idle, RegularRuns
    <2>1. /\ job.at = "written" /\ UNCHANGED <<slip, finished>> /\ Idle' /\ run'[r] = "DONE"
          /\ \A o \in Runs : o # r => run'[o] = run[o]
      BY <1>12, <1>a DEF FinishBonus, Idle, NoRun
    <2>2. \A q \in Periods : LockOffers(q)
      BY <2>1 DEF LockOffers, Held, RunsOf, RegularRuns
    <2>3. \A q \in Periods : Base(q) \subseteq Base(q)'
      BY <2>2, OffersHold
    <2>4. \A q \in Periods : Retakes(q) => Retakes(q)'
      BY <2>1 DEF Retakes, RunsOf, HasFinished, RegularRuns
    <2>5. slip[r].base = job.base
      BY <2>1 DEF Sequential, Seats, Written
    <2>6. job.base \subseteq Base(PeriodOf(r))
      BY <2>1 DEF JobStands, Idle
    <2>7. DoneStands'
      BY <1>c, <2>1, <2>3, <2>4, <2>5, <2>6 DEF DoneStands
    <2>. QED
      BY <2>1, <2>7 DEF JobStands
  <1>13. CASE BeginBonus
    <2>. PICK r \in Runs \ RegularRuns : r = job.run
      BY <1>13, Pricing
    <2>. PICK p \in Periods : p = PeriodOf(r)
      BY <1>c
    <2>1. UNCHANGED <<run, finished>> /\ run[r] = "RUNNING"
      BY <1>b, <1>13, Pricing DEF Idle
    <2>2. CASE job' = NoRun /\ UNCHANGED slip
      <3>1. \A q \in Periods : LockOffers(q)
        BY <2>1, <2>2 DEF LockOffers, Held
      <3>2. Idle'
        BY <2>2 DEF Idle, NoRun
      <3>. QED
        BY <2>1, <2>2, <3>1, <3>2, QuietStands DEF HasFinished
    <2>3. CASE /\ job'.run = r /\ job'.base = TaxBases(r) /\ payHoles' = payHoles \cup Cuts({r})
               /\ \A o \in Runs : slip'[o] = IF o = r THEN NoSlip ELSE slip[o]
      <3>1. \A o \in Runs : o # r => slip'[o] = slip[o]
        BY <2>3
      <3>2. \A b \in Runs \ {r} : IdOf(r) \notin slip[b].base
        <4>1. Cuts({r}) \cap StandHoles = {}
          BY <2>3
        <4>. QED
          BY <4>1, PlanSays DEF Cuts, StandHoles, RegularRuns
      <3>3. \A q \in Periods : LastFinished(q)' = LastFinished(q)
        <4>. SUFFICES ASSUME NEW q \in Periods PROVE LastFinished(q)' = LastFinished(q)
          OBVIOUS
        <4>1. \A o \in RunsOf(q) \cap RegularRuns : (run'[o] = "DONE" /\ Held(o)') <=> (run[o] = "DONE" /\ Held(o))
          BY <2>1, <3>1 DEF Held, RunsOf
        <4>. QED
          BY <2>1, <4>1, LastHolds
      <3>. PICK lost : lost = {r}  OBVIOUS
      <3>4. ASSUME NEW q \in Periods, NEW x \in Base(q), x # IdOf(r) PROVE x \in Base(q)'
        <4>1. \A o \in RunsOf(q) \ lost : Held(o) => Held(o)' /\ slip'[o].no = slip[o].no
          BY <3>1 DEF RunsOf, Held
        <4>2. \A y \in Base(q) : y \in {IdOf(c) : c \in lost \cap (LastFinished(q) \cup Bonuses(q))} \/ y \in Base(q)'
          BY <3>3, <4>1, BaseHolds
        <4>. QED
          BY <3>4, <4>2
      <3>5. \A q \in Periods : Retakes(q) => Retakes(q)'
        BY <2>1 DEF Retakes, RunsOf, HasFinished
      <3>6. DoneStands'
        BY <1>c, <2>1, <3>1, <3>2, <3>4, <3>5 DEF DoneStands
      <3>7. TaxBases(r) \subseteq Base(p)'
        <4>. SUFFICES ASSUME NEW c \in LastFinished(p) \cup {o \in Done(p, "BONUS") \ {r} : Held(o)}
                      PROVE  IdOf(c) \in Base(p)'
          BY DEF TaxBases
        <4>1. c \in RunsOf(p) /\ c # r /\ Held(c) /\ (c \in LastFinished(p) \/ c \notin RegularRuns)
          BY DEF LastFinished, Done, RegularRuns
        <4>2. IdOf(c)' = IdOf(c) /\ Held(c)'
          BY <3>1, <4>1 DEF IdOf, Held, RunsOf
        <4>3. c \in LastFinished(p)' \cup Bonuses(p)'
          BY <3>3, <4>1, <4>2 DEF Bonuses, RunsOf
        <4>. QED
          BY <4>2, <4>3 DEF Base
      <3>8. JobStands'
        <4>1. PeriodOf(job.run)' = p
          BY <2>3 DEF PeriodOf
        <4>. QED
          BY <2>3, <3>7, <4>1 DEF JobStands
      <3>. QED
        BY <3>6, <3>8
    <2>. QED
      BY <1>13, <2>2, <2>3, Pricing
  <1>14. ASSUME NEW r \in Runs, Discard(r) \/ Reload(r) PROVE DoneStands' /\ JobStands'
    <2>. PICK gone \in SUBSET Runs : GoesWith(r, gone)
      BY <1>14, Going
    <2>. PICK p \in Periods : p = PeriodOf(r)
      BY <1>c
    <2>1. /\ \A o \in Runs \ gone : slip'[o] = slip[o] /\ run'[o] = run[o]
          /\ UNCHANGED <<finished, job>> /\ gone \subseteq RunsOf(p)
          /\ \A o \in gone : run'[o] # "DONE" /\ run[o] # "RUNNING"
      BY DEF GoesWith
    <2>2. /\ \A o \in gone : o \in RegularRuns => IdOf(o) \notin job.base
          /\ \A o \in gone \ RegularRuns, b \in Runs \ gone : IdOf(o) \notin slip[b].base /\ IdOf(o) \notin job.base
      <3>1. Cuts(gone) \cap StandHoles = {}
        BY DEF GoesWith
      <3>. QED
        BY <3>1, PlanSays DEF Cuts, StandHoles, RegularRuns
    <2>4. \A o \in LastFinished(p) \ gone : o \in LastFinished(p)'
      <3>1. CASE r \in RegularRuns /\ run[r] = "DONE"
        BY <3>1 DEF GoesWith, LastFinished, Done
      <3>2. CASE r \notin RegularRuns \/ run[r] # "DONE"
        <4>1. gone = {r}
          BY <3>2 DEF GoesWith
        <4>2. \A o \in RunsOf(p) \cap RegularRuns : (run'[o] = "DONE" /\ Held(o)') <=> (run[o] = "DONE" /\ Held(o))
          BY <2>1, <3>2, <4>1 DEF Held, RunsOf
        <4>3. LastFinished(p)' = LastFinished(p)
          BY <2>1, <4>2, LastHolds
        <4>. QED
          BY <4>3
      <3>. QED
        BY <3>1, <3>2
    <2>5. \A x \in Base(p) : x \in {IdOf(c) : c \in gone \cap (LastFinished(p) \cup Bonuses(p))} \/ x \in Base(p)'
      <3>1. \A o \in RunsOf(p) \ gone : Held(o) => Held(o)' /\ slip'[o].no = slip[o].no
        BY <2>1 DEF RunsOf, Held
      <3>. QED
        BY <2>4, <3>1, BaseHolds
    <2>6. \A q \in Periods : q # p => Base(q) \subseteq Base(q)'
      <3>1. \A q \in Periods : q # p => LockOffers(q)
        BY <2>1 DEF LockOffers, Held, RunsOf
      <3>. QED
        BY <3>1, OffersHold
    <2>7. \A q \in Periods : Retakes(q) => Retakes(q)'
      BY <2>1 DEF Retakes, RunsOf, HasFinished, RegularRuns
    <2>8. \A b \in Runs \ RegularRuns : run'[b] = "DONE" => b \notin gone
      BY <2>1
    <2>9. \A b \in Runs \ RegularRuns : run'[b] = "DONE" /\ PeriodOf(b) = p =>
             \A c \in gone \cap (LastFinished(p) \cup Bonuses(p)) : IdOf(c) \notin slip[b].base
      <3>. SUFFICES ASSUME NEW b \in Runs \ RegularRuns, run'[b] = "DONE", PeriodOf(b) = p,
                           NEW c \in gone \cap (LastFinished(p) \cup Bonuses(p))
                    PROVE  IdOf(c) \notin slip[b].base
        OBVIOUS
      <3>1. b \in RunsOf(p) /\ b \notin gone /\ run[b] = "DONE"
        BY <2>1 DEF RunsOf
      <3>2. CASE c \in RegularRuns
        <4>1. c \in LastFinished(p) /\ run[c] = "DONE"
          BY <3>2 DEF Bonuses, LastFinished, Done
        <4>2. r \in RegularRuns /\ run[r] = "DONE"
          BY <3>2, <4>1 DEF GoesWith
        <4>. QED
          BY <3>1, <4>2 DEF GoesWith
      <3>3. CASE c \notin RegularRuns
        BY <2>2, <3>1, <3>3
      <3>. QED
        BY <3>2, <3>3
    <2>10. DoneStands'
      <3>. SUFFICES ASSUME NEW b \in Runs \ RegularRuns, run'[b] = "DONE", ~Retakes(PeriodOf(b))', NEW x \in slip'[b].base
                    PROVE  x \in Base(PeriodOf(b))'
        BY DEF DoneStands
      <3>. PICK q \in Periods : q = PeriodOf(b)
        BY <1>c
      <3>1. slip'[b] = slip[b] /\ run[b] = "DONE"
        BY <2>1, <2>8
      <3>2. x \in Base(q)
        BY <2>7, <3>1 DEF DoneStands
      <3>3. CASE q = p
        BY <2>5, <2>9, <3>1, <3>2, <3>3
      <3>4. CASE q # p
        BY <2>6, <3>2, <3>4
      <3>. QED
        BY <3>3, <3>4
    <2>11. JobStands'
      <3>. SUFFICES ASSUME ~Idle, NEW x \in job.base PROVE x \in Base(PeriodOf(job.run))'
        BY <2>1 DEF JobStands, Idle
      <3>. PICK q \in Periods : q = PeriodOf(job.run)
        BY <1>b, <1>c
      <3>1. PeriodOf(job.run)' = q
        BY <2>1 DEF PeriodOf
      <3>2. x \in Base(q)
        BY DEF JobStands
      <3>3. job.run \in Runs \ gone
        BY <1>b, <2>1
      <3>4. CASE q = p
        BY <2>2, <2>5, <3>1, <3>2, <3>3, <3>4
      <3>5. CASE q # p
        BY <2>6, <3>1, <3>2, <3>5
      <3>. QED
        BY <3>4, <3>5
    <2>. QED
      BY <2>10, <2>11
  <1>. QED
    BY <1>1, <1>2, <1>3, <1>4, <1>5, <1>6, <1>7, <1>8, <1>9, <1>10, <1>11, <1>12, <1>13, <1>14
       DEF PayNext, Worker, Desk

(* So does what a lock has chosen, and then what is issued. *)
LEMMA StandingStep ==
  ASSUME Types, Numbered, JobShape, Locks, Written, Sequential, Standing, PayNext,
         payHoles' \cap StandHoles = {}
  PROVE  Standing'
  <1>. /\ plan' = plan /\ Runs' = Runs /\ payHoles \cap StandHoles = {}
       /\ \A o : PeriodOf(o)' = PeriodOf(o)
    BY Growing DEF Runs, PeriodOf
  <1>a. DoneStands' /\ JobStands'
    BY FoundationsStep DEF Standing
  <1>b. \A r \in Issued : slip[r].base \subseteq {IdOf(b) : b \in Issued}
    BY DEF Standing, BonusStandsOnIssued, StandHoles
  <1>c. Clear("redelivered")
    BY DEF Clear, StandHoles
  <1>d. \A o \in Runs : PeriodOf(o) \in Periods
    BY PlanSays
  <1>e. SUFFICES LockStands' /\ \A r \in Issued' : slip'[r].base \subseteq {<<b, slip'[b].no>> : b \in Issued'}
    BY <1>a DEF Standing, BonusStandsOnIssued, IdOf
  <1>1. CASE \A p \in Periods : ~CommitLock(p)
    <2>1. Issued' = Issued /\ \A r \in Issued : slip'[r] = slip[r]
      BY <1>1, <1>c, IssuedStep, NoneIssuedStep DEF NoneIssued, Issued
    <2>2. \A r \in Issued' : slip'[r].base \subseteq {<<b, slip'[b].no>> : b \in Issued'}
      BY <1>b, <2>1 DEF IdOf
    <2>3. \A p \in Periods : Locked(p) => \A r \in locking[p] : slip'[r] = slip[r]
      BY <1>1, UntouchedStep DEF Untouched, Settled, Locks, RunsOf
    <2>4. CASE \A p \in Periods : ~Lock(p)
      <3>1. locking' = locking
        BY <1>1, <2>4, LocksStand
      <3>2. LockStands'
        BY <2>3, <3>1 DEF LockStands, Standing, Locked, IdOf
      <3>. QED
        BY <2>2, <3>2
    <2>5. ASSUME NEW p \in Periods, Lock(p) PROVE LockStands'
      <3>1. /\ locking' = [locking EXCEPT ![p] = ChosenSlips(p)] /\ ~Locked(p) /\ RunsSettled(p)
            /\ UNCHANGED <<slip, run>> /\ ~LeavesBase(p)
        BY <2>5 DEF Lock, StandHoles
      <3>. PICK c : c = ChosenSlips(p)  OBVIOUS
      <3>2. locking'[p] = c /\ \A q \in Periods : q # p => locking'[q] = locking[q]
        BY <3>1 DEF Types
      <3>3. ASSUME NEW r \in c, NEW x \in slip[r].base PROVE x \in {IdOf(b) : b \in c}
        <4>1. r \in RunsOf(p) /\ Held(r) /\ run[r] = "DONE"
          BY DEF ChosenSlips, LastFinished, Done
        <4>2. r \notin RegularRuns
          BY <3>3, <4>1 DEF Numbered
        <4>3. ~Retakes(p)
          BY <3>1 DEF RunsSettled, Retakes, RunsOf
        <4>4. x \in Base(p)
          BY <3>3, <4>1, <4>2, <4>3 DEF Standing, DoneStands, RunsOf
        <4>. PICK b \in LastFinished(p) \cup Bonuses(p) : x = IdOf(b)
          BY <4>4 DEF Base
        <4>5. CASE b \in LastFinished(p)
          BY <3>1, <3>3, <4>5 DEF LeavesBase
        <4>6. CASE b \in Bonuses(p)
          <5>1. b \in RunsOf(p) /\ b \notin RegularRuns /\ Held(b)
            BY <4>6 DEF Bonuses
          <5>2. run[b] \notin {"none", "DISCARDED"} /\ KindOf(b) = "BONUS"
            BY <5>1, PlanSays DEF Sequential, Seats, RegularRuns, RunsOf
          <5>3. run[b] = "DONE"
            BY <3>1, <5>1, <5>2 DEF RunsSettled
          <5>4. b \in c
            BY <5>1, <5>2, <5>3 DEF ChosenSlips, Done
          <5>. QED
            BY <5>4
        <4>. QED
          BY <4>5, <4>6
      <3>4. \A r \in c : slip[r].base \subseteq {IdOf(b) : b \in c}
        BY <3>3
      <3>. QED
        BY <3>1, <3>2, <3>4 DEF LockStands, Standing, Locked, IdOf
    <2>. QED
      BY <2>2, <2>4, <2>5
  <1>2. ASSUME NEW p \in Periods, CommitLock(p)
        PROVE  LockStands' /\ \A r \in Issued' : slip'[r].base \subseteq {<<b, slip'[b].no>> : b \in Issued'}
    <2>. PICK issued \in SUBSET Runs : Commits(p, issued)
      BY <1>2, LockCommits
    <2>1. Issued' = Issued \cup issued
      BY CommitsKeep DEF Issued
    <2>2. \A q \in Periods : Locked(q)' => locking'[q] = locking[q] /\ Locked(q)
      BY DEF Commits, Locked
    <2>3. Locked(p) /\ \A r \in locking[p] : r \in Runs /\ PeriodOf(r) = p /\ Held(r) /\ r \notin Issued
      BY DEF Commits, Locks, Sequential, Seats, RunsOf
    <2>4. issued = locking[p]
      <3>1. \A r \in locking[p] : slip[r].state = "DRAFT"
        BY <2>3 DEF Types, Slips, Held, Issued
      <3>. QED
        BY <3>1 DEF Commits
    <2>5. \A r \in issued : slip[r].base \subseteq {IdOf(b) : b \in issued}
      BY <2>3, <2>4 DEF Standing, LockStands
    <2>6. \A r \in Runs : slip'[r].base = slip[r].base /\ slip'[r].no = slip[r].no
      BY CommitsKeep
    <2>7. Issued \subseteq Runs
      BY DEF Issued
    <2>8. \A r \in Issued' : slip'[r].base \subseteq {<<b, slip'[b].no>> : b \in Issued'}
      BY <1>b, <2>1, <2>5, <2>6, <2>7 DEF IdOf
    <2>9. \A q \in Periods : Locked(q) => locking[q] \subseteq Runs
      BY DEF Locks, RunsOf
    <2>10. LockStands'
      BY <2>2, <2>6, <2>9 DEF LockStands, Standing, IdOf
    <2>. QED
      BY <2>8, <2>10
  <1>. QED
    BY <1>1, <1>2

-----------------------------------------------------------------------------
(* What an advance comes back through. *)


(* The regular run a lock would issue is the one it was, or the one that finishes now. *)
SameLast(q) ==
  \A o \in RunsOf(q) \cap RegularRuns :
    /\ (run'[o] = "DONE" /\ Held(o)') <=> (run[o] = "DONE" /\ Held(o))
    /\ run[o] = "DONE" /\ Held(o) => slip'[o].no = slip[o].no /\ slip'[o].deducts = slip[o].deducts
    /\ run[o] = "RUNNING" => run'[o] = "RUNNING" \/ ~HasFinished(o)
(* A period whose regular payslips a step leaves alone keeps the one that finished last. *)
LEMMA SameLastHolds ==
  ASSUME NEW q, plan' = plan, SameLast(q), finished' = finished
  PROVE  /\ LastFinished(q)' = LastFinished(q)
         /\ \A r \in LastFinished(q) : slip'[r].no = slip[r].no /\ slip'[r].deducts = slip[r].deducts
         /\ Retakes(q) => Retakes(q)'
  <1>1. LastFinished(q)' = LastFinished(q)
    BY LastHolds DEF SameLast
  <1>2. \A r \in LastFinished(q) : r \in RunsOf(q) \cap RegularRuns /\ run[r] = "DONE" /\ Held(r)
    BY DEF LastFinished, Done, RegularRuns, RunsOf
  <1>3. Retakes(q) => Retakes(q)'
    BY DEF Retakes, SameLast, RunsOf, RegularRuns, HasFinished, Runs, KindOf, PeriodOf
  <1>. QED
    BY <1>1, <1>2, <1>3 DEF SameLast

(* Any step but a finish leaves it, drops it, or is part of taking the run again. *)
LEMMA LastQuiet ==
  ASSUME Types, Numbered, JobShape, Locks, Written, Sequential, PayNext, ~FinishRegular,
         payHoles' \cap DeductHoles = {}, NEW q \in Periods
  PROVE  SameLast(q) \/ Retakes(q)' \/ LastFinished(q)' = {}
  <1>. plan' = plan /\ Runs' = Runs
    BY Growing DEF Runs
  <1>a. /\ slip \in [Runs -> Slips] /\ run \in [Runs -> Stages] /\ finished \in [Runs -> Nat] /\ queue \in [Runs -> Nat]
    BY DEF Types
  <1>b. ~Idle => job.run \in Runs /\ run[job.run] = "RUNNING"
    BY DEF JobShape, Sequential, OneJob, Works
  <1>. USE <1>a, <1>b DEF SameLast, Held, RunsOf, Idle, NoSlip, HasFinished, jobs, payBudget
  <1>1. ASSUME NEW p \in Periods, CreatePeriod(p)
        PROVE  SameLast(q) \/ Retakes(q)' \/ LastFinished(q)' = {}
    BY <1>1 DEF CreatePeriod
  <1>2. ASSUME NEW p \in Periods, Lock(p) PROVE SameLast(q) \/ Retakes(q)' \/ LastFinished(q)' = {}
    BY <1>2 DEF Lock
  <1>3. ASSUME NEW p \in Periods, CommitLock(p)
        PROVE  SameLast(q) \/ Retakes(q)' \/ LastFinished(q)' = {}
    <2>. PICK issued \in SUBSET Runs : Commits(p, issued)
      BY <1>3, LockCommits
    <2>. QED
      BY CommitsKeep DEF Commits
  <1>4. ASSUME NEW r \in Runs, TakeJob(r) PROVE SameLast(q) \/ Retakes(q)' \/ LastFinished(q)' = {}
    BY <1>4 DEF TakeJob, Sequential, OneJob, Running
  <1>5. ASSUME NEW r \in Runs, FailRun(r) PROVE SameLast(q) \/ Retakes(q)' \/ LastFinished(q)' = {}
    <2>1. UNCHANGED <<slip, finished>> /\ run[r] = "RUNNING" /\ finished[r] = 0
      BY <1>5, <1>a DEF FailRun, DeductHoles, Sequential, OneJob
    <2>2. run'[r] = "FAILED" /\ \A o \in Runs : o # r => run'[o] = run[o]
      BY <1>5, <1>a DEF FailRun
    <2>. QED
      BY <2>1, <2>2
  <1>6. ASSUME NEW r \in Runs, RefusedFails(r) PROVE SameLast(q) \/ Retakes(q)' \/ LastFinished(q)' = {}
    <2>1. UNCHANGED <<slip, finished>> /\ run[r] = "RUNNING" /\ finished[r] = 0
      BY <1>6, <1>a DEF RefusedFails, DeductHoles, Sequential, OneJob
    <2>2. run'[r] = "FAILED" /\ \A o \in Runs : o # r => run'[o] = run[o]
      BY <1>6, <1>a DEF RefusedFails
    <2>. QED
      BY <2>1, <2>2
  <1>7. ASSUME NEW r \in Runs, CreateRun(r) PROVE SameLast(q) \/ Retakes(q)' \/ LastFinished(q)' = {}
    BY <1>7 DEF CreateRun
  <1>8. ASSUME NEW r \in Runs, Execute(r) \/ ExecuteRefused(r)
        PROVE  SameLast(q) \/ Retakes(q)' \/ LastFinished(q)' = {}
    <2>1. /\ UNCHANGED <<slip, finished>> /\ run[r] # "RUNNING" /\ run'[r] = "RUNNING"
          /\ \A o \in Runs : o # r => run'[o] = run[o]
      BY <1>8, <1>a DEF Execute, ExecuteRefused, Claim
    <2>2. CASE r \in RunsOf(q) \cap RegularRuns /\ run[r] = "DONE"
      <3>1. RegularRuns' = RegularRuns /\ RunsOf(q)' = RunsOf(q)
        BY DEF RegularRuns, KindOf, RunsOf, PeriodOf
      <3>2. HasFinished(r)'
        BY <2>1, <2>2 DEF Numbered
      <3>3. Retakes(q)'
        BY <2>1, <2>2, <3>1, <3>2 DEF Retakes
      <3>. QED
        BY <3>3
    <2>3. CASE ~(r \in RunsOf(q) \cap RegularRuns /\ run[r] = "DONE")
      BY <2>1, <2>3 DEF RegularRuns
    <2>. QED
      BY <2>2, <2>3
  <1>10. ASSUME NEW r \in Runs, Discard(r) \/ Reload(r)
         PROVE  SameLast(q) \/ Retakes(q)' \/ LastFinished(q)' = {}
    <2>. PICK gone \in SUBSET Runs : GoesWith(r, gone)
      BY <1>10, Going
    <2>1. CASE r \in RunsOf(q) \cap RegularRuns /\ run[r] = "DONE"
      <3>1. \A o \in RunsOf(q) : run'[o] # "DONE"
        BY <2>1 DEF GoesWith
      <3>2. LastFinished(q)' = {}
        BY <3>1 DEF LastFinished, Done, PeriodOf
      <3>. QED
        BY <3>2
    <2>2. CASE r \notin RunsOf(q)
      BY <2>2 DEF GoesWith
    <2>3. CASE r \notin RegularRuns \/ run[r] # "DONE"
      BY <2>3 DEF GoesWith, RegularRuns
    <2>. QED
      BY <2>1, <2>2, <2>3
  <1>11. ASSUME NEW a \in Advances, MarkAdvancePaid(a)
         PROVE  SameLast(q) \/ Retakes(q)' \/ LastFinished(q)' = {}
    BY <1>11 DEF MarkAdvancePaid
  <1>12. CASE BeginRegular
    BY <1>12, Beginning
  <1>13. CASE BeginBonus
    BY <1>13, Pricing DEF RegularRuns
  <1>14. CASE WriteSlip
    BY <1>14, Writing DEF Written
  <1>16. CASE FinishBonus
    BY <1>16 DEF FinishBonus, RegularRuns
  <1>17. CASE AttemptFalls
    BY <1>17 DEF AttemptFalls
  <1>18. CASE Redeliver
    BY <1>18 DEF Redeliver
  <1>19. CASE MoveHome
    BY <1>19 DEF MoveHome
  <1>. QED
    BY <1>1, <1>2, <1>3, <1>4, <1>5, <1>6, <1>7, <1>8, <1>10, <1>11, <1>12, <1>13, <1>14, <1>16, <1>17,
       <1>18, <1>19 DEF PayNext, Worker, Desk

(* The regular payslip that finished last is the one it was, or the one that just finished. *)
LEMMA LastStep ==
  ASSUME Types, Numbered, JobShape, Locks, Written, Sequential, PayNext, payHoles' \cap DeductHoles = {},
         NEW q \in Periods, NEW r \in LastFinished(q)', ~Retakes(q)'
  PROVE  \/ /\ r \in LastFinished(q) /\ ~Retakes(q)
            /\ slip'[r].no = slip[r].no /\ slip'[r].deducts = slip[r].deducts
            /\ FinishRegular => q # PeriodOf(job.run) \/ ~Held(job.run)
         \/ FinishRegular /\ r = job.run /\ Held(r) /\ q = PeriodOf(r)
  <1>. plan' = plan /\ Runs' = Runs /\ RegularRuns' = RegularRuns /\ \A o : PeriodOf(o)' = PeriodOf(o)
    BY Growing DEF Runs, RegularRuns, KindOf, PeriodOf
  <1>a. slip \in [Runs -> Slips] /\ finished \in [Runs -> Nat]
    BY DEF Types
  <1>1. CASE ~FinishRegular
    <2>1. SameLast(q)
      BY <1>1, LastQuiet
    <2>2. finished' = finished
      BY <1>1 DEF PayNext, Worker, Desk, CreatePeriod, Lock, CommitLock, CreateRun, Execute,
         ExecuteRefused,
         Claim, Discard, Reload, MarkAdvancePaid, MoveHome, TakeJob, FailRun, RefusedFails,
         BeginRegular, BeginBonus, WriteSlip, FinishBonus, AttemptFalls, Redeliver
    <2>. QED
      BY <1>1, <2>1, <2>2, SameLastHolds
  <1>2. CASE FinishRegular
    <2>. PICK p : p = PeriodOf(job.run)  OBVIOUS
    <2>1. job.run \in RunsOf(p) /\ job.run \in RegularRuns /\ job.run \in Runs
      BY <1>2, Finishing DEF RunsOf, RegularRuns
    <2>2. /\ \A o \in RegularRuns : slip'[o] = slip[o] /\ (o # job.run => run'[o] = run[o])
          /\ run'[job.run] = "DONE"
          /\ \A o \in Runs : finished'[o] = IF o = job.run THEN 1
                                           ELSE IF finished[o] > 0 THEN finished[o] + 1 ELSE 0
      BY <1>2, Finishing DEF Done, RegularRuns
    <2>3. Held(job.run) => ~(q = p /\ r # job.run)
      <3>. SUFFICES ASSUME Held(job.run), q = p, r # job.run PROVE FALSE
        OBVIOUS
      <3>1. job.run \in {o \in Done(p, "REGULAR")' : Held(o)'}
        BY <2>1, <2>2 DEF Done, RunsOf, RegularRuns, Held, KindOf, PeriodOf
      <3>2. finished'[r] <= finished'[job.run]
        BY <3>1 DEF LastFinished
      <3>3. r \in RegularRuns /\ run'[r] = "DONE" /\ r \in Runs
        BY DEF LastFinished, Done, RunsOf, RegularRuns, KindOf, PeriodOf
      <3>4. finished[r] > 0
        BY <2>2, <3>3 DEF Numbered, HasFinished
      <3>. QED
        <4>1. finished'[job.run] = 1 /\ finished'[r] = finished[r] + 1
          BY <2>1, <2>2, <3>3, <3>4
        <4>. PICK m \in Nat : m = finished[r]
          BY <1>a, <3>3
        <4>2. m > 0 /\ m + 1 <= 1
          BY <3>2, <3>4, <4>1
        <4>. QED
          BY <4>2
    <2>4. CASE q = p /\ Held(job.run)
      BY <1>2, <2>3, <2>4
    <2>5. CASE q # p \/ ~Held(job.run)
      <3>1. \A o \in RunsOf(q) \cap RegularRuns : (run'[o] = "DONE" /\ Held(o)') <=> (run[o] = "DONE" /\ Held(o))
        BY <2>2, <2>5 DEF RunsOf, Held
      <3>2. ~Held(job.run) => ~HasFinished(job.run)
        BY <1>2, Finishing DEF DeductHoles
      <3>. PICK priced : priced = {o \in Done(q, "REGULAR") : Held(o)}  OBVIOUS
      <3>3. {o \in Done(q, "REGULAR") : Held(o)}' = priced
        BY <3>1 DEF Done, RunsOf, RegularRuns, Runs, KindOf, PeriodOf
      <3>4. \A o \in priced : o # job.run /\ o \in Runs
        BY <2>5 DEF Done, RunsOf
      <3>5. \A o, s \in priced : (finished'[o] <= finished'[s]) <=> (finished[o] <= finished[s])
        <4>. SUFFICES ASSUME NEW o \in priced, NEW s \in priced
                      PROVE  (finished'[o] <= finished'[s]) <=> (finished[o] <= finished[s])
          OBVIOUS
        <4>. PICK m \in Nat, n \in Nat : m = finished[o] /\ n = finished[s]
          BY <1>a, <3>4
        <4>1. finished'[o] = (IF m > 0 THEN m + 1 ELSE 0) /\ finished'[s] = (IF n > 0 THEN n + 1 ELSE 0)
          BY <2>2, <3>4
        <4>. QED
          BY <4>1
      <3>6. LastFinished(q)' = LastFinished(q)
        BY <3>3, <3>5 DEF LastFinished
      <3>7. r \in RegularRuns
        BY DEF LastFinished, Done, RunsOf, RegularRuns, KindOf, PeriodOf
      <3>8. ~Retakes(q)
        <4>1. ASSUME NEW o \in RunsOf(q) \cap RegularRuns, run[o] = "RUNNING", HasFinished(o)
              PROVE  Retakes(q)'
          <5>1. o # job.run
            BY <2>5, <3>2, <4>1 DEF RunsOf
          <5>2. run'[o] = "RUNNING" /\ finished'[o] > 0
            BY <1>a, <2>2, <4>1, <5>1 DEF HasFinished, RunsOf
          <5>. QED
            BY <5>2 DEF Retakes, RunsOf, HasFinished
        <4>. QED
          BY <4>1 DEF Retakes
      <3>. QED
        BY <2>2, <2>5, <3>6, <3>7, <3>8
    <2>. QED
      BY <2>4, <2>5
  <1>. QED
    BY <1>1, <1>2

(* The advances a payslip deducts stay with it, unless another run takes them over. *)
LEMMA CarryStep ==
  ASSUME Types, Numbered, JobShape, Locks, Pointing, Written, Sequential, Deducted, PayNext,
         payHoles' \cap DeductHoles = {},
         NEW r \in OpenDrafts, CarriedBy(r), slip'[r].no = slip[r].no, slip'[r].deducts = slip[r].deducts,
         \A p \in Periods : CommitLock(p) => PeriodOf(r) # p,
         FinishRegular => PeriodOf(r) # PeriodOf(job.run) \/ ~Held(job.run)
  PROVE  CarriedBy(r)'
  <1>a. r \in Runs /\ Held(r) /\ advance \in [Advances -> Dues] /\ slip \in [Runs -> Slips]
    BY DEF OpenDrafts, RegularRuns, Types
  <1>b. \A a \in slip[r].deducts : a \in Advances /\ advance[a].state = "PAID" /\ advance[a].slip = IdOf(r)
    BY <1>a DEF CarriedBy, Slips
  <1>c. SUFFICES \A a \in slip[r].deducts : advance'[a] = advance[a]
    BY <1>b DEF CarriedBy, IdOf
  <1>. TAKE a \in slip[r].deducts
  <1>1. ASSUME NEW p \in Periods, CommitLock(p) PROVE advance'[a] = advance[a]
    <2>. PICK issued \in SUBSET Runs : Commits(p, issued)
      BY <1>1, LockCommits
    <2>1. r \notin issued
      BY <1>1, CommitsKeep DEF Commits, Locks, RunsOf
    <2>2. ~Settles(a, issued)
      BY <1>b, <2>1 DEF Settles, IdOf
    <2>. QED
      BY <1>b, <2>2 DEF Commits
  <1>2. ASSUME NEW d \in Advances, MarkAdvancePaid(d) PROVE advance'[a] = advance[a]
    BY <1>b, <1>2 DEF MarkAdvancePaid
  <1>3. ASSUME NEW o \in Runs, Discard(o) \/ Reload(o) PROVE advance'[a] = advance[a]
    <2>. PICK gone \in SUBSET Runs : GoesWith(o, gone)
      BY <1>3, Going
    <2>1. r \notin gone
      <3>1. slip[r].no > 0
        BY <1>a DEF Numbered
      <3>. QED
        BY <1>a, <3>1 DEF GoesWith, NoSlip
    <2>2. ~\E s \in gone : advance[a].slip = IdOf(s)
      BY <1>b, <2>1 DEF IdOf
    <2>. QED
      BY <1>b, <2>2 DEF GoesWith
  <1>4. CASE FinishRegular
    <2>1. ~Held(job.run)
      <3>. SUFFICES ASSUME Held(job.run) PROVE FALSE
        OBVIOUS
      <3>1. job.at = "written" /\ job.covers
        BY <1>4, Finishing DEF Sequential, Seats
      <3>2. PeriodOf(r) = PeriodOf(job.run)
        BY <3>1 DEF Deducted, OneCovers
      <3>. QED
        BY <1>4, <3>2
    <2>. QED
      BY <1>4, <1>b, <2>1, Finishing
  <1>5. CASE UNCHANGED advance
    BY <1>5
  <1>. QED
    BY <1>1, <1>2, <1>3, <1>4, <1>5 DEF PayNext, Worker, Desk, CreatePeriod, Lock, CreateRun, Execute,
       ExecuteRefused,
         Claim, MoveHome, TakeJob, FailRun, RefusedFails,
         BeginRegular, BeginBonus, WriteSlip, FinishBonus, AttemptFalls, Redeliver

(* A draft of an open period was one before, or the worker has just written it. *)
LEMMA DraftsStep ==
  ASSUME Types, JobShape, Locks, Sequential, PayNext, NEW r \in OpenDrafts'
  PROVE  r \in OpenDrafts \/ (WriteSlip /\ r = job.run /\ job.covers)
  <1>. plan' = plan /\ Runs' = Runs
    BY Growing DEF Runs
  <1>a. /\ slip \in [Runs -> Slips] /\ period \in [Periods -> {"none", "OPEN", "LOCKED"}]
    BY DEF Types
  <1>b. \A o \in Runs : PeriodOf(o) \in Periods
    BY PlanSays
  <1>. USE <1>a, <1>b DEF OpenDrafts, Held, RegularRuns, KindOf, PeriodOf, NoSlip, jobs, payBudget
  <1>1. ASSUME NEW p \in Periods, CreatePeriod(p)
        PROVE  r \in OpenDrafts \/ (WriteSlip /\ r = job.run /\ job.covers)
    BY <1>1 DEF CreatePeriod, Locks, Sequential, Seats
  <1>2. ASSUME NEW p \in Periods, Lock(p)
        PROVE  r \in OpenDrafts \/ (WriteSlip /\ r = job.run /\ job.covers)
    BY <1>2 DEF Lock
  <1>3. ASSUME NEW p \in Periods, CommitLock(p)
        PROVE  r \in OpenDrafts \/ (WriteSlip /\ r = job.run /\ job.covers)
    <2>. PICK issued \in SUBSET Runs : Commits(p, issued)
      BY <1>3, LockCommits
    <2>1. \A o \in Runs : period'[PeriodOf(o)] = "OPEN" => period[PeriodOf(o)] = "OPEN"
      BY DEF Commits
    <2>. QED
      BY <2>1, CommitsKeep
  <1>4. ASSUME NEW o \in Runs, TakeJob(o)
        PROVE  r \in OpenDrafts \/ (WriteSlip /\ r = job.run /\ job.covers)
    BY <1>4 DEF TakeJob
  <1>5. ASSUME NEW o \in Runs, FailRun(o)
        PROVE  r \in OpenDrafts \/ (WriteSlip /\ r = job.run /\ job.covers)
    BY <1>5 DEF FailRun
  <1>6. ASSUME NEW o \in Runs, RefusedFails(o)
        PROVE  r \in OpenDrafts \/ (WriteSlip /\ r = job.run /\ job.covers)
    BY <1>6 DEF RefusedFails
  <1>7. ASSUME NEW o \in Runs, CreateRun(o)
        PROVE  r \in OpenDrafts \/ (WriteSlip /\ r = job.run /\ job.covers)
    BY <1>7 DEF CreateRun
  <1>8. ASSUME NEW o \in Runs, Execute(o)
        PROVE  r \in OpenDrafts \/ (WriteSlip /\ r = job.run /\ job.covers)
    BY <1>8 DEF Execute, Claim
  <1>9. ASSUME NEW o \in Runs, ExecuteRefused(o)
        PROVE  r \in OpenDrafts \/ (WriteSlip /\ r = job.run /\ job.covers)
    BY <1>9 DEF ExecuteRefused, Claim
  <1>10. ASSUME NEW o \in Runs, Discard(o) \/ Reload(o)
         PROVE  r \in OpenDrafts \/ (WriteSlip /\ r = job.run /\ job.covers)
    <2>. PICK gone \in SUBSET Runs : GoesWith(o, gone)
      BY <1>10, Going
    <2>. QED
      BY DEF GoesWith
  <1>11. ASSUME NEW a \in Advances, MarkAdvancePaid(a)
         PROVE  r \in OpenDrafts \/ (WriteSlip /\ r = job.run /\ job.covers)
    BY <1>11 DEF MarkAdvancePaid
  <1>12. CASE BeginRegular
    BY <1>12, Beginning
  <1>13. CASE BeginBonus
    BY <1>13, Pricing
  <1>14. CASE WriteSlip
    BY <1>14, Writing
  <1>15. CASE FinishRegular
    BY <1>15, Finishing
  <1>16. CASE FinishBonus
    BY <1>16 DEF FinishBonus
  <1>17. CASE AttemptFalls
    BY <1>17 DEF AttemptFalls
  <1>18. CASE Redeliver
    BY <1>18 DEF Redeliver
  <1>19. CASE MoveHome
    BY <1>19 DEF MoveHome
  <1>. QED
    BY <1>1, <1>2, <1>3, <1>4, <1>5, <1>6, <1>7, <1>8, <1>9, <1>10, <1>11, <1>12, <1>13, <1>14, <1>15,
       <1>16, <1>17, <1>18, <1>19 DEF PayNext, Worker, Desk

(* Open drafts of the employee are all of one period. *)
LEMMA OneCoversStep ==
  ASSUME Types, Numbered, JobShape, Locks, Pointing, Written, Sequential, OneCovers, PayNext,
         payHoles' \cap DeductHoles = {}
  PROVE  OneCovers'
  <1>. plan' = plan /\ Runs' = Runs /\ RegularRuns' = RegularRuns /\ \A o : PeriodOf(o)' = PeriodOf(o)
    BY Growing DEF Runs, RegularRuns, KindOf, PeriodOf
  <1>1. \A r \in OpenDrafts' : r \in OpenDrafts \/ (WriteSlip /\ r = job.run /\ job.covers)
    BY DraftsStep
  <1>2. \A r, o \in OpenDrafts' : PeriodOf(r) = PeriodOf(o)
    <2>1. WriteSlip /\ job.covers => \A o \in OpenDrafts : PeriodOf(o) = PeriodOf(job.run)
      BY DEF WriteSlip, OneCovers
    <2>. QED
      BY <1>1, <2>1 DEF OneCovers
  <1>. PICK R : R = Runs /\ (job.at # "idle" => job.run \in R)
    BY DEF JobShape, Idle
  <1>3. ASSUME job'.at \in {"priced", "written"}, job'.covers
        PROVE  /\ \A o \in OpenDrafts' : PeriodOf(o) = PeriodOf(job'.run)
               /\ \A a \in job'.advances : advance'[a].state = "PAID"
    <2>1. CASE BeginRegular
      <3>1. ~Crosses(job.run) /\ job'.run = job.run /\ UNCHANGED advance
        BY <1>3, <2>1, Beginning DEF DeductHoles
      <3>2. \A o \in OpenDrafts' : o \in OpenDrafts
        BY <1>1, <2>1 DEF BeginRegular, WriteSlip
      <3>3. \A o \in OpenDrafts' : PeriodOf(o) = PeriodOf(job.run)
        BY <3>1, <3>2 DEF Crosses, OpenDrafts, RegularRuns
      <3>4. \A a \in job'.advances : advance[a].state = "PAID"
        BY <2>1, Beginning
      <3>. QED
        BY <3>1, <3>3, <3>4
    <2>2. CASE WriteSlip
      <3>1. /\ job.at = "priced" /\ job.covers /\ job'.run = job.run /\ job'.advances = job.advances
            /\ UNCHANGED advance
        BY <1>3, <2>2, Writing
      <3>. QED
        BY <1>1, <2>2, <3>1 DEF OneCovers
    <2>3. CASE BeginBonus
      BY <1>3, <2>3, Pricing DEF NoRun
    <2>4. CASE ~BeginRegular /\ ~WriteSlip /\ ~BeginBonus
      <3>1. job' = job
        <4>1. NoRun.at = "idle" /\ \A r : [NoRun EXCEPT !.run = r, !.at = "read"].at = "read"
          BY DEF NoRun
        <4>. QED
          BY <1>3, <2>4, <4>1 DEF PayNext, Worker, Desk, CreatePeriod, Lock, CommitLock, CreateRun,
             Execute, ExecuteRefused,
             Claim, Discard, Reload, MarkAdvancePaid, MoveHome, TakeJob, FailRun, RefusedFails,
             FinishRegular, FinishBonus, AttemptFalls, Redeliver, jobs
      <3>2. /\ \A o \in OpenDrafts : PeriodOf(o) = PeriodOf(job.run)
            /\ \A a \in job.advances : advance[a].state = "PAID"
        BY <1>3, <3>1 DEF OneCovers
      <3>3. ASSUME NEW a \in job.advances PROVE advance'[a].state = "PAID"
        <4>. a \in Advances /\ advance \in [Advances -> Dues]
          BY DEF Types, Jobs
        <4>1. advance[a].state = "PAID"
          BY <3>2
        <4>2. ASSUME NEW p \in Periods, CommitLock(p) PROVE advance'[a].state = "PAID"
          <5>. PICK issued \in SUBSET Runs : Commits(p, issued)
            BY <4>2, LockCommits
          <5>1. ~Settles(a, issued)
            <6>. SUFFICES ASSUME NEW r \in issued, advance[a].slip = IdOf(r) PROVE FALSE
              BY DEF Settles
            <6>1. r \in locking[p] /\ period[p] = "OPEN" /\ PeriodOf(r) = p /\ Held(r) /\ r \in Runs
              BY CommitsKeep DEF Commits, Locks, RunsOf, Held
            <6>2. r \in RegularRuns
              <7>1. IdOf(r) # Nowhere
                BY <6>1, PlanSays DEF IdOf, Nowhere
              <7>2. IdOf(r)[1] = r
                BY DEF IdOf
              <7>3. advance[a].slip # Nowhere => \E s \in RegularRuns : advance[a].slip[1] = s
                BY DEF Pointing
              <7>. QED
                BY <7>1, <7>2, <7>3
            <6>3. PeriodOf(job.run) = p
              BY <3>2, <6>1, <6>2 DEF OpenDrafts
            <6>4. job.run \in Runs /\ run[job.run] = "RUNNING"
              BY <1>3, <3>1 DEF JobShape, Idle, Sequential, OneJob, Works
            <6>5. ~Locked(p)
              BY <6>3, <6>4 DEF Sequential, Running
            <6>. QED
              BY <6>5 DEF Commits
          <5>. QED
            BY <4>1, <5>1 DEF Commits
        <4>3. ASSUME NEW r \in Runs, Discard(r) \/ Reload(r) PROVE advance'[a].state = "PAID"
          <5>. PICK gone \in SUBSET Runs : GoesWith(r, gone)
            BY <4>3, Going
          <5>. QED
            BY <4>1 DEF GoesWith
        <4>4. ASSUME NEW d \in Advances, MarkAdvancePaid(d) PROVE advance'[a].state = "PAID"
          BY <4>1, <4>4 DEF MarkAdvancePaid
        <4>5. CASE FinishRegular
          BY <1>3, <3>1, <4>5, Finishing DEF NoRun
        <4>6. CASE UNCHANGED advance
          BY <4>1, <4>6
        <4>. QED
          BY <4>2, <4>3, <4>4, <4>5, <4>6 DEF PayNext, Worker, Desk, CreatePeriod, Lock, CreateRun,
             Execute, ExecuteRefused,
             Claim, MoveHome, TakeJob, FailRun, RefusedFails,
             BeginRegular, BeginBonus, WriteSlip, FinishBonus, AttemptFalls, Redeliver
      <3>4. \A o \in OpenDrafts' : PeriodOf(o) = PeriodOf(job.run)
        BY <1>1, <2>4, <3>2
      <3>. QED
        BY <3>1, <3>3, <3>4
    <2>. QED
      BY <2>1, <2>2, <2>3, <2>4
  <1>. QED
    BY <1>2, <1>3 DEF OneCovers, PeriodOf

(* Advances paid out point at the payslip that finished last and deducts them. *)
LEMMA LastCarriesStep ==
  ASSUME Types, Numbered, JobShape, Locks, Pointing, Written, Sequential, Deducted, PayNext,
         payHoles' \cap DeductHoles = {}
  PROVE  LastCarries'
  <1>. plan' = plan /\ Runs' = Runs /\ RegularRuns' = RegularRuns /\ \A o : PeriodOf(o)' = PeriodOf(o)
    BY Growing DEF Runs, RegularRuns, KindOf, PeriodOf
  <1>. SUFFICES ASSUME NEW q \in Periods, period'[q] = "OPEN", ~Retakes(q)', NEW r \in LastFinished(q)'
                PROVE  CarriedBy(r)'
    BY DEF LastCarries
  <1>1. CASE FinishRegular /\ r = job.run /\ Held(r) /\ q = PeriodOf(r)
    <2>1. /\ job.at = "written" /\ r \in RegularRuns /\ slip'[r] = slip[r]
          /\ \A a \in Advances : advance'[a] =
               IF a \in job.advances /\ advance[a].state = "PAID"
               THEN [state |-> "PAID", slip |-> IdOf(r)] ELSE advance[a]
      BY <1>1, Finishing DEF Done, RegularRuns
    <2>2. job.covers /\ slip[r].deducts = job.advances /\ job.advances \subseteq Advances
      BY <1>1, <2>1 DEF Sequential, Seats, Written, Types, Jobs
    <2>3. \A a \in job.advances : advance[a].state = "PAID"
      BY <2>1, <2>2 DEF Deducted, OneCovers
    <2>4. \A a \in job.advances : advance'[a].state = "PAID" /\ advance'[a].slip = IdOf(r)
      BY <2>1, <2>2, <2>3
    <2>. QED
      BY <2>1, <2>2, <2>4 DEF CarriedBy, IdOf
  <1>2. CASE /\ r \in LastFinished(q) /\ ~Retakes(q)
             /\ slip'[r].no = slip[r].no /\ slip'[r].deducts = slip[r].deducts
             /\ FinishRegular => q # PeriodOf(job.run) \/ ~Held(job.run)
    <2>1. r \in RegularRuns /\ Held(r) /\ PeriodOf(r) = q /\ run[r] = "DONE"
      BY <1>2 DEF LastFinished, Done, RunsOf, RegularRuns
    <2>2. period[q] = "OPEN"
      <3>1. \A p \in Periods : CreatePeriod(p) => period[p] = "none" /\ \A z \in Periods : z # p => period'[z] = period[z]
        BY DEF CreatePeriod, Types
      <3>2. \A p \in Periods : CommitLock(p) => period'[p] = "LOCKED" /\ \A z \in Periods : z # p => period'[z] = period[z]
        BY DEF CommitLock, Types
      <3>3. CASE period' = period
        BY <3>3
      <3>4. ASSUME NEW p \in Periods, CreatePeriod(p) \/ CommitLock(p) PROVE period[q] = "OPEN"
        BY <2>1, <3>1, <3>2, <3>4 DEF Locks, RegularRuns
      <3>. QED
        BY <3>3, <3>4 DEF PayNext, Worker, Desk, Lock, CreateRun, Execute, ExecuteRefused,
             Claim, Discard, Reload, MarkAdvancePaid, MoveHome, TakeJob, FailRun, RefusedFails,
             BeginRegular, BeginBonus, WriteSlip, FinishRegular, FinishBonus, AttemptFalls, Redeliver
    <2>3. r \in OpenDrafts /\ CarriedBy(r)
      BY <1>2, <2>1, <2>2 DEF OpenDrafts, Deducted, LastCarries
    <2>4. \A p \in Periods : CommitLock(p) => q # p
      BY DEF CommitLock, Types
    <2>. QED
      BY <1>2, <2>1, <2>3, <2>4, CarryStep
  <1>. QED
    BY <1>1, <1>2, LastStep

(* An advance is deducted once and settled then. *)
Returned(a) == Cardinality(Deducting(a)) <= 1 /\ ((advance[a].state = "SETTLED") <=> (Deducting(a) # {}))

(* The parts together: what a payslip deducts points at it until it is issued. *)
LEMMA DeductedStep ==
  ASSUME Types, Numbered, JobShape, Locks, Pointing, Written, Sequential, Deducted, PayNext,
         payHoles' \cap DeductHoles = {}
  PROVE  Deducted'
  <1>. plan' = plan /\ Runs' = Runs /\ RegularRuns' = RegularRuns /\ \A o : PeriodOf(o)' = PeriodOf(o)
    BY Growing DEF Runs, RegularRuns, KindOf, PeriodOf
  <1>a. OneCovers' /\ LastCarries'
    BY OneCoversStep, LastCarriesStep DEF Deducted
  <1>b. Clear("redelivered") /\ \A a \in Advances : Returned(a)
    <2>1. payHoles \cap DeductHoles = {}
      BY Growing
    <2>. QED
      BY <2>1 DEF Deducted, ComesBackOnce, DeductHoles, Clear, Returned
  <1>c. SUFFICES /\ LockCarries'
                 /\ \A a \in Advances : /\ Cardinality(Deducting(a)') <= 1
                                        /\ (advance'[a].state = "SETTLED") <=> (Deducting(a)' # {})
    <2>1. \A a \in Advances : Cardinality(Deducting(a))' = Cardinality(Deducting(a)')
      BY DEF Cardinality
    <2>. QED
      BY <1>a, <2>1 DEF Deducted, ComesBackOnce
  <1>d. advance \in [Advances -> Dues]
    BY DEF Types
  <1>1. CASE \A p \in Periods : ~CommitLock(p)
    <2>1. Issued' = Issued /\ \A r \in Issued : slip'[r] = slip[r]
      BY <1>1, <1>b, IssuedStep, NoneIssuedStep DEF NoneIssued, Issued
    <2>2. \A a \in Advances : Deducting(a)' = Deducting(a)
      BY <2>1 DEF Deducting
    <2>3. ASSUME NEW a \in Advances
          PROVE  (advance'[a].state = "SETTLED") <=> (advance[a].state = "SETTLED")
      <3>1. ASSUME NEW r \in Runs, Discard(r) \/ Reload(r)
            PROVE  (advance'[a].state = "SETTLED") <=> (advance[a].state = "SETTLED")
        <4>. PICK gone \in SUBSET Runs : GoesWith(r, gone)
          BY <3>1, Going
        <4>. QED
          BY DEF GoesWith
      <3>2. ASSUME NEW d \in Advances, MarkAdvancePaid(d)
            PROVE  (advance'[a].state = "SETTLED") <=> (advance[a].state = "SETTLED")
        BY <1>d, <3>2 DEF MarkAdvancePaid, Dues
      <3>3. CASE FinishRegular
        BY <3>3, Finishing
      <3>4. CASE UNCHANGED advance
        BY <3>4
      <3>. QED
        BY <1>1, <3>1, <3>2, <3>3, <3>4 DEF PayNext, Worker, Desk, CreatePeriod, Lock, CreateRun,
           Execute, ExecuteRefused,
             Claim, MoveHome, TakeJob, FailRun, RefusedFails,
             BeginRegular, BeginBonus, WriteSlip, FinishBonus, AttemptFalls, Redeliver
    <2>4. LockCarries'
      <3>1. ASSUME NEW p \in Periods, Locked(p), NEW r \in locking[p] \cap RegularRuns, CarriedBy(r)
            PROVE  CarriedBy(r)'
        <4>1. r \in OpenDrafts /\ Settled(r)
          BY <3>1 DEF Locks, RunsOf, Sequential, Seats, OpenDrafts, Settled
        <4>2. slip'[r] = slip[r]
          BY <1>1, <4>1, UntouchedStep DEF Untouched, RegularRuns
        <4>3. FinishRegular => PeriodOf(r) # PeriodOf(job.run) \/ ~Held(job.run)
          <5>. SUFFICES ASSUME FinishRegular, PeriodOf(r) = PeriodOf(job.run) PROVE FALSE
            OBVIOUS
          <5>1. job.run \in Runs /\ run[job.run] = "RUNNING"
            BY DEF FinishRegular, JobShape, Sequential, OneJob, Works, Idle
          <5>. QED
            BY <4>1, <5>1 DEF Sequential, Running, Settled
        <4>. QED
          BY <1>1, <3>1, <4>1, <4>2, <4>3, CarryStep
      <3>2. CASE \A p \in Periods : ~Lock(p)
        <4>1. locking' = locking
          BY <1>1, <3>2, LocksStand
        <4>. QED
          BY <3>1, <4>1 DEF LockCarries, Deducted, Locked
      <3>3. ASSUME NEW p \in Periods, Lock(p) PROVE LockCarries'
        <4>1. /\ locking' = [locking EXCEPT ![p] = ChosenSlips(p)] /\ RunsSettled(p) /\ period[p] = "OPEN"
          BY <3>3 DEF Lock
        <4>. PICK c : c = ChosenSlips(p)  OBVIOUS
        <4>2. locking'[p] = c /\ \A q \in Periods : q # p => locking'[q] = locking[q]
          BY <4>1 DEF Types
        <4>3. ~Retakes(p)
          BY <4>1 DEF RunsSettled, Retakes, RunsOf
        <4>4. \A r \in c \cap RegularRuns : r \in LastFinished(p)
          BY DEF ChosenSlips, Done, RegularRuns
        <4>5. \A r \in c \cap RegularRuns : CarriedBy(r)
          BY <4>1, <4>3, <4>4 DEF Deducted, LastCarries
        <4>6. \A r : CarriedBy(r)' <=> CarriedBy(r)
          BY <3>3 DEF Lock, CarriedBy, IdOf
        <4>. QED
          BY <4>2, <4>5, <4>6 DEF LockCarries, Deducted, Locked
      <3>. QED
        BY <3>2, <3>3
    <2>5. ASSUME NEW a \in Advances
          PROVE  /\ Cardinality(Deducting(a)') <= 1
                 /\ (advance'[a].state = "SETTLED") <=> (Deducting(a)' # {})
      <3>. PICK d : d = Deducting(a)  OBVIOUS
      <3>0. Cardinality(Deducting(a)) <= 1 /\ ((advance[a].state = "SETTLED") <=> (Deducting(a) # {}))
        BY <1>b DEF Returned
      <3>a. Cardinality(d) = Cardinality(Deducting(a))
        BY Zenon
      <3>1. Cardinality(d) <= 1 /\ ((advance[a].state = "SETTLED") <=> (d # {}))
        BY <3>0, <3>a
      <3>2. Deducting(a)' = d
        BY <2>2
      <3>. QED
        BY <2>3, <3>1, <3>2
    <2>. QED
      BY <2>4, <2>5
  <1>2. ASSUME NEW p \in Periods, CommitLock(p)
        PROVE  /\ LockCarries'
               /\ \A a \in Advances : /\ Cardinality(Deducting(a)') <= 1
                                      /\ (advance'[a].state = "SETTLED") <=> (Deducting(a)' # {})
    <2>. PICK issued \in SUBSET Runs : Commits(p, issued)
      BY <1>2, LockCommits
    <2>1. Issued' = Issued \cup issued /\ \A r \in Runs : slip'[r].deducts = slip[r].deducts /\ slip'[r].no = slip[r].no
      BY CommitsKeep DEF Issued
    <2>2. Locked(p) /\ \A r \in issued : r \in locking[p] /\ r \in Runs /\ Held(r)
      BY CommitsKeep DEF Commits, Held
    <2>3. \A r \in issued \ RegularRuns : slip[r].deducts = {}
      BY <2>2 DEF Numbered
    <2>4. \A r, o \in issued \cap RegularRuns : r = o
      BY <2>2 DEF Locks
    <2>5. \A r \in issued \cap RegularRuns : CarriedBy(r)
      BY <2>2 DEF Deducted, LockCarries
    <2>6. ASSUME NEW a \in Advances
          PROVE  /\ Cardinality(Deducting(a)') <= 1
                 /\ (advance'[a].state = "SETTLED") <=> (Deducting(a)' # {})
      <3>1. Deducting(a)' = Deducting(a) \cup {r \in issued : a \in slip[r].deducts}
        <4>1. Issued \subseteq Runs
          BY DEF Issued
        <4>. QED
          BY <2>1, <4>1 DEF Deducting
      <3>2. CASE \E r \in issued : a \in slip[r].deducts
        <4>. PICK r \in issued : a \in slip[r].deducts
          BY <3>2
        <4>1. r \in RegularRuns /\ {o \in issued : a \in slip[o].deducts} = {r}
          BY <2>3, <2>4
        <4>2. advance[a].state = "PAID" /\ advance[a].slip = IdOf(r)
          BY <2>5, <4>1 DEF CarriedBy
        <4>3. Deducting(a) = {}
          BY <1>b, <4>2 DEF Returned
        <4>4. Deducting(a)' = {r}
          BY <3>1, <4>1, <4>3
        <4>5. Cardinality({r}) = 1
          BY FS_Singleton
        <4>6. advance'[a].state = "SETTLED"
          <5>1. Settles(a, issued)
            BY <4>2 DEF Settles
          <5>2. advance'[a] = [state |-> "SETTLED", slip |-> advance[a].slip]
            BY <5>1 DEF Commits
          <5>. QED
            BY <5>2
        <4>. QED
          BY <4>4, <4>5, <4>6
      <3>3. CASE ~\E r \in issued : a \in slip[r].deducts
        <4>1. Deducting(a)' = Deducting(a)
          BY <3>1, <3>3
        <4>2. ~Settles(a, issued)
          BY <2>2, <3>3 DEF Settles, Pointing
        <4>3. advance'[a] = advance[a]
          BY <4>2 DEF Commits
        <4>. PICK d : d = Deducting(a)  OBVIOUS
        <4>x. Cardinality(Deducting(a)) <= 1 /\ ((advance[a].state = "SETTLED") <=> (Deducting(a) # {}))
          BY <1>b DEF Returned
        <4>y. Cardinality(d) = Cardinality(Deducting(a))
          BY Zenon
        <4>4. Cardinality(d) <= 1 /\ ((advance[a].state = "SETTLED") <=> (d # {}))
          BY <4>x, <4>y
        <4>5. Deducting(a)' = d
          BY <4>1
        <4>. QED
          BY <4>3, <4>4, <4>5
      <3>. QED
        BY <3>2, <3>3
    <2>7. LockCarries'
      <3>1. \A q \in Periods : Locked(q)' => q # p /\ locking'[q] = locking[q] /\ Locked(q)
        BY DEF Commits, Locked
      <3>2. ASSUME NEW q \in Periods, Locked(q)', NEW r \in locking[q] \cap RegularRuns PROVE CarriedBy(r)'
        <4>1. r \in OpenDrafts /\ PeriodOf(r) = q /\ r \in Runs
          BY <3>1, <3>2 DEF Locks, RunsOf, Sequential, Seats, OpenDrafts
        <4>2. CarriedBy(r)
          BY <3>1, <3>2 DEF Deducted, LockCarries
        <4>3. ~FinishRegular
          <5>1. job' = job
            BY DEF Commits
          <5>. QED
            BY <5>1, Finishing DEF NoRun
        <4>4. \A z \in Periods : CommitLock(z) => q # z
          BY <3>1, <3>2 DEF CommitLock, NotLocking, Locked, Types
        <4>. QED
          BY <2>1, <4>1, <4>2, <4>3, <4>4, CarryStep
      <3>. QED
        BY <3>1, <3>2 DEF LockCarries
    <2>. QED
      BY <2>6, <2>7
  <1>. QED
    BY <1>1, <1>2

(* A step that changes nothing keeps the invariant. *)
LEMMA Still == PayInv /\ UNCHANGED payVars => PayInv'
  <1>. SUFFICES ASSUME PayInv, UNCHANGED payVars PROVE PayInv'
    OBVIOUS
  <1>. USE DEF payVars, jobs, payBudget
  <1>1. Types' /\ Numbered' /\ JobShape' /\ Locks'
    BY DEF PayInv, Types, Numbered, JobShape, Locks, Runs, RegularRuns, KindOf, PeriodOf, RunsOf, Held,
       HasFinished, Works, Idle, Locked, Issued
  <1>2. Pointing' /\ Written'
    BY DEF PayInv, Pointing, Written, Runs, RegularRuns, KindOf, HasFinished, IdOf, Held
  <1>3. Sequential' <=> Sequential
    BY DEF Sequential, OneJob, Running, Seats, Runs, RegularRuns, KindOf, PeriodOf, RunsOf, Held, Works,
       Idle, Locked
  <1>4. Months' <=> Months
    BY DEF Months, OneSlipAMonth, Runs, RegularRuns, KindOf, PeriodOf, Locked, Issued
  <1>a. Runs' = Runs /\ RegularRuns' = RegularRuns /\ Issued' = Issued
    BY DEF Runs, RegularRuns, KindOf, Issued
  <1>b. \A r : CarriedBy(r)' <=> CarriedBy(r)
    BY DEF CarriedBy, IdOf
  <1>c. \A p : LastFinished(p)' = LastFinished(p) /\ (Retakes(p)' <=> Retakes(p)) /\ (Locked(p)' <=> Locked(p))
    BY DEF LastFinished, Done, Runs, RegularRuns, KindOf, PeriodOf, RunsOf, Held, HasFinished, Retakes,
       Locked
  <1>d. \A p : Base(p)' = Base(p)
    BY <1>c DEF Base, Bonuses, Runs, RegularRuns, KindOf, PeriodOf, RunsOf, Held, IdOf
  <1>5. Standing' <=> Standing
    BY <1>a, <1>c, <1>d DEF Standing, DoneStands, JobStands, LockStands, BonusStandsOnIssued, PeriodOf,
       Idle, IdOf
  <1>6. Deducted' <=> Deducted
    <2>1. OneCovers' <=> OneCovers
      BY <1>a DEF OneCovers, OpenDrafts, PeriodOf, Held
    <2>2. (LastCarries' <=> LastCarries) /\ (LockCarries' <=> LockCarries)
      BY <1>a, <1>b, <1>c DEF LastCarries, LockCarries
    <2>3. ComesBackOnce' <=> ComesBackOnce
      BY <1>a DEF ComesBackOnce, Deducting, Cardinality
    <2>. QED
      BY <2>1, <2>2, <2>3 DEF Deducted
  <1>. QED
    BY <1>1, <1>2, <1>3, <1>4, <1>5, <1>6 DEF PayInv, Clear, MonthHoles, StandHoles, DeductHoles

(* No period and no run: the invariant holds. *)
LEMMA InitPayInv == PayInit => PayInv
  <1>. SUFFICES ASSUME PayInit PROVE PayInv
    OBVIOUS
  <1>a. Idle /\ job = NoRun /\ job.base = {}
    BY DEF PayInit, Idle, NoRun
  <1>b. \A r \in Runs : slip[r] = NoSlip /\ ~Held(r) /\ slip[r].state = "none"
    BY DEF PayInit, Held, NoSlip
  <1>c. Issued = {}
    BY <1>b DEF Issued
  <1>d. \A p \in Periods : ~Locked(p) /\ period[p] = "none"
    BY DEF PayInit, Locked
  <1>e. \A r \in Runs : ~HasFinished(r) /\ run[r] = "none" /\ queue[r] = 0 /\ ~Works(r)
                         /\ r \notin failing /\ r \notin refused
    BY <1>a DEF PayInit, HasFinished, Works
  <1>1. Types
    <2>1. Runs \subseteq Nat
      <3>. PICK one \in Plans : one = plan
        BY DEF PayInit
      <3>1. one.runs \in Seq([period : Periods, kind : {"REGULAR", "BONUS"}])
        BY PayrollAssumption
      <3>. PICK T : T = [period : Periods, kind : {"REGULAR", "BONUS"}]  OBVIOUS
      <3>. PICK s \in Seq(T) : s = one.runs
        BY <3>1
      <3>. QED
        BY DEF Runs
    <2>2. \A a \in Advances : [state |-> "APPROVED", slip |-> Nowhere] \in Dues
      BY PayRows DEF Dues
    <2>3. slip \in [Runs -> Slips]
      BY PayRows DEF PayInit
    <2>4. advance \in [Advances -> Dues]
      BY <2>2 DEF PayInit
    <2>5. job \in Jobs
      BY <1>a, PayRows
    <2>6. locking \in [Periods -> SUBSET Nat] /\ run \in [Runs -> Stages]
      BY DEF PayInit, NotLocking, Stages
    <2>. QED
      BY <2>3, <2>4, <2>5, <2>6 DEF Types, PayInit
  <1>2. Numbered
    <2>1. \A r \in Runs : slip[r].no = 0 /\ slip[r].base = {} /\ slip[r].deducts = {} /\ computed[r] = 0
      BY <1>b DEF PayInit, NoSlip
    <2>. QED
      BY <1>b, <1>e, <2>1 DEF Numbered, RegularRuns
  <1>3. JobShape
    BY <1>a, <1>e DEF JobShape
  <1>4. Locks
    <2>1. \A p \in Periods : ~Locked(p)
      BY <1>d
    <2>2. \A r \in Runs : run[r] = "none"
      BY <1>e
    <2>3. \A r : r \notin Issued
      BY <1>c
    <2>4. \A r \in Runs : ~(run[r] # "none")
      BY <2>2
    <2>5. \A p \in Periods : locking[p] = {0}
      BY DEF PayInit, NotLocking
    <2>. QED
      BY <2>1, <2>3, <2>4, <2>5 DEF Locks
  <1>5. Pointing
    <2>1. \A a \in Advances : advance[a].slip = Nowhere /\ advance[a].state = "APPROVED"
      BY DEF PayInit
    <2>. QED
      BY <1>b, <2>1 DEF Pointing
  <1>6. Written
    BY <1>a DEF Written, Idle
  <1>7. Sequential
    BY <1>a, <1>b, <1>d, <1>e DEF Sequential, OneJob, Running, Seats, Idle
  <1>8. Months
    BY <1>c, <1>d DEF Months, OneSlipAMonth
  <1>9. Standing
    BY <1>a, <1>c, <1>d, <1>e DEF Standing, DoneStands, JobStands, LockStands, BonusStandsOnIssued
  <1>10. Deducted
    <2>1. OpenDrafts = {}
      BY <1>b DEF OpenDrafts, RegularRuns
    <2>2. ComesBackOnce
      <3>. SUFFICES ASSUME NEW a \in Advances
                    PROVE  Cardinality(Deducting(a)) <= 1 /\ advance[a].state # "SETTLED" /\ Deducting(a) = {}
        BY DEF ComesBackOnce
      <3>1. Deducting(a) = {}
        BY <1>c DEF Deducting
      <3>2. Cardinality({}) = 0
        BY FS_EmptySet
      <3>3. advance[a].state # "SETTLED"
        BY DEF PayInit
      <3>. QED
        BY <3>1, <3>2, <3>3
    <2>3. OneCovers
      BY <1>a, <2>1 DEF OneCovers, Idle
    <2>4. LastCarries /\ LockCarries
      BY <1>d DEF LastCarries, LockCarries
    <2>. QED
      BY <2>2, <2>3, <2>4 DEF Deducted
  <1>. QED
    BY <1>1, <1>2, <1>3, <1>4, <1>5, <1>6, <1>7, <1>8, <1>9, <1>10 DEF PayInv

(* Every step of desks and worker keeps it. *)
LEMMA PayInvStep == PayInv /\ [PayNext]_payVars => PayInv'
  <1>1. ASSUME PayInv, PayNext PROVE PayInv'
    <2>. USE <1>1
    <2>a. Types /\ Numbered /\ JobShape /\ Locks /\ Pointing /\ Written
      BY DEF PayInv
    <2>b. payHoles \subseteq payHoles'
      BY Growing
    <2>1. Types' /\ Numbered' /\ JobShape' /\ Locks' /\ Pointing' /\ Written'
      BY <2>a, TypesStep, NumberedStep, JobShapeStep, LocksStep, PointingStep, WrittenStep
    <2>2. Clear("redelivered")' => Sequential /\ Sequential'
      <3>. SUFFICES ASSUME Clear("redelivered")' PROVE Sequential /\ Sequential'
        OBVIOUS
      <3>1. Sequential
        BY <2>b DEF PayInv, Clear
      <3>. QED
        BY <2>a, <3>1, OneJobStep, RunningStep, SeatsStep DEF Sequential
    <2>3. (payHoles \cap MonthHoles = {} => Months)'
      BY <2>a, MonthsStep DEF PayInv
    <2>4. payHoles' \cap StandHoles = {} => Standing'
      <3>. SUFFICES ASSUME payHoles' \cap StandHoles = {} PROVE Standing'
        OBVIOUS
      <3>1. Sequential /\ Standing
        BY <2>b, <2>2 DEF PayInv, Clear, StandHoles
      <3>. QED
        BY <2>a, <3>1, StandingStep
    <2>5. payHoles' \cap DeductHoles = {} => Deducted'
      <3>. SUFFICES ASSUME payHoles' \cap DeductHoles = {} PROVE Deducted'
        OBVIOUS
      <3>1. Sequential /\ Deducted
        BY <2>b, <2>2 DEF PayInv, Clear, DeductHoles
      <3>. QED
        BY <2>a, <3>1, DeductedStep
    <2>6. (payHoles \cap StandHoles)' = payHoles' \cap StandHoles /\ (payHoles \cap DeductHoles)' = payHoles' \cap DeductHoles
      BY DEF StandHoles, DeductHoles
    <2>. QED
      BY <2>1, <2>2, <2>3, <2>4, <2>5, <2>6 DEF PayInv
  <1>2. ASSUME PayInv, UNCHANGED payVars PROVE PayInv'
    BY <1>2, Still
  <1>. QED
    BY <1>1, <1>2

(* So it holds of every reachable state, for any plans and any calendar. *)
THEOREM PayInvariant == PaySpec => []PayInv
  BY InitPayInv, PayInvStep, PTL DEF PaySpec

(* Periods, runs, payslips and advances are well typed, and no payslip is newer than what its *)
(* run has written, whatever faults the plan allows (PayrollService, AdvanceService).         *)
THEOREM PayTypeCorrect == PaySpec => []PayTypeOK
  <1>1. PayInv => PayTypeOK
    <2>. SUFFICES ASSUME PayInv PROVE PayTypeOK
      OBVIOUS
    <2>1. \A r \in Runs : slip[r].state \in {"none", "DRAFT", "ISSUED"} /\ slip[r].deducts \subseteq Advances
      BY DEF PayInv, Types, Slips
    <2>2. \A a \in Advances : advance[a].state \in {"APPROVED", "PAID", "SETTLED"}
      BY DEF PayInv, Types, Dues
    <2>. QED
      BY <2>1, <2>2 DEF PayInv, Types, Numbered, Stages, PayTypeOK
  <1>. QED
    BY <1>1, PayInvariant, PTL

(* A month issues an employee one regular payslip, however the employee moves between entities, *)
(* unless two periods of the month are locked at once or a job comes twice (paidElsewhere).     *)
THEOREM OneSlip == PaySpec => []OneSlipAMonth
  <1>1. PayInv => OneSlipAMonth
    BY DEF PayInv, Months, OneSlipAMonth, MonthHoles
  <1>. QED
    BY <1>1, PayInvariant, PTL

(* Every payslip a bonus was taxed on is issued with it, but for the orders BonusStandsOnIssued *)
(* names (staleOver, taxBases, lock).                                                           *)
THEOREM StandsOnIssued == PaySpec => []BonusStandsOnIssued
  <1>1. PayInv => BonusStandsOnIssued
    BY DEF PayInv, Standing, BonusStandsOnIssued, StandHoles
  <1>. QED
    BY <1>1, PayInvariant, PTL

(* An advance paid out comes back through one issued payslip and is settled exactly then, but *)
(* for the orders ComesBackOnce names (markCarried, dropSlips, lock).                         *)
THEOREM BackOnce == PaySpec => []ComesBackOnce
  <1>1. PayInv => ComesBackOnce
    BY DEF PayInv, Deducted, ComesBackOnce, DeductHoles
  <1>. QED
    BY <1>1, PayInvariant, PTL

(* No step changes what is issued, unless a job comes twice, and only an open period issues *)
(* (requireOpen, requireRunsSettled).                                                       *)
THEOREM IssuedKept == PaySpec => IssuedStays
  <1>1. PayInv /\ [PayNext]_payVars =>
          [/\ "redelivered" \notin payHoles => \A r \in Issued : slip'[r] = slip[r]
           /\ \A r \in Runs : slip'[r].state = "ISSUED" /\ r \notin Issued => period[PeriodOf(r)] = "OPEN"]_payVars
    BY IssuedStep DEF PayInv, Clear
  <1>. QED
    BY <1>1, PayInvariant, PTL DEF PaySpec, IssuedStays
=============================================================================
