---------------------------- MODULE LeaveBalance ----------------------------
(***************************************************************************)
(* One person's balance of one leave type over two years: LeaveService     *)
(* files, decides and cancels requests against it, LeaveYearService makes  *)
(* the row of a year and carries what an ended year leaves into it.        *)
(*                                                                         *)
(* Each operation is one READ COMMITTED transaction of several statements. *)
(* A statement that writes a row waits until no other transaction holds it *)
(* and then works on what was committed last; a transaction that ends      *)
(* keeps all of its rows or none.                                          *)
(***************************************************************************)
EXTENDS Integers, FiniteSets, FiniteSetsExt

CONSTANTS
    Keys,        \* requests, each under its clientKey
    Parts,       \* of each request: the days it charges to each year
    Deliveries,  \* submissions the phone may send
    KeyOf,       \* the request a submission carries; a redelivery carries the same
    Entitled,    \* days a year of the type earns
    CarryOverMax

Years == {1, 2}

ASSUME LeaveAssumption ==
    /\ Parts \in [Keys -> [Years -> Nat]]
    /\ KeyOf \in [Deliveries -> Keys]
    /\ Entitled \in Nat /\ CarryOverMax \in Nat

VARIABLES
    thisYear,  \* the year the calendar shows
    paid,      \* whether the type is paid: only then is a balance a limit
    row,       \* of each year: the LeaveBalance row as its last writer left it, or NoBalance
    kept,      \* of each year: the row last committed
    holder,    \* of each year: the transaction that holds the row, or Free
    request,   \* state of each request
    filing,    \* of each submission: the year it is at and the statement that comes next
    deciding,  \* of each request: the claim in progress and the years it has still to settle
    opening    \* where the New Year job is

leaveVars == <<thisYear, paid, row, kept, holder, request, filing, deciding, opening>>

Free == <<"free">>
Files(d) == <<"files", d>>
Decides(k) == <<"decides", k>>
Opens == <<"opens">>

NoBalance == [made |-> FALSE, over |-> 0, taken |-> 0, pending |-> 0, out |-> 0, closed |-> FALSE]
Made == [NoBalance EXCEPT !.made = TRUE]
Resting == [year |-> 0, next |-> "none"]
Undecided == [to |-> "none", years |-> {}]

\* freeDays: days still free to book.
FreeDays(b) == Entitled + b.over - b.taken - b.pending - b.out

FirstOf(years) == IF 1 \in years THEN 1 ELSE 2
YearsOf(k) == {y \in Years : Parts[k][y] > 0}
Begun(k) == [year |-> FirstOf(YearsOf(k)), next |-> "ensure"]

LeaveInit ==
    /\ thisYear = 1 /\ paid \in BOOLEAN
    /\ \E first \in {NoBalance, Made} : row = [y \in Years |-> IF y = 1 THEN first ELSE NoBalance]
    /\ kept = row
    /\ holder = [y \in Years |-> Free]
    /\ request = [k \in Keys |-> "none"]
    /\ filing = [d \in Deliveries |-> Resting]
    /\ deciding = [k \in Keys |-> Undecided]
    /\ opening = "none"

-----------------------------------------------------------------------------
(* Transactions                                                            *)

MayWrite(who, years) == \A y \in years : holder[y] \in {Free, who}
Holds(who, years) == holder' = [y \in Years |-> IF y \in years THEN who ELSE holder[y]]

Keep(who) ==
    /\ kept' = [y \in Years |-> IF holder[y] = who THEN row[y] ELSE kept[y]]
    /\ holder' = [y \in Years |-> IF holder[y] = who THEN Free ELSE holder[y]]
    /\ UNCHANGED row

RollBack(who) ==
    /\ row' = [y \in Years |-> IF holder[y] = who THEN kept[y] ELSE row[y]]
    /\ holder' = [y \in Years |-> IF holder[y] = who THEN Free ELSE holder[y]]
    /\ UNCHANGED kept

\* rowsFor: an insert that meets another transaction's new row waits for its end; a row
\* already there is left as it is.
InsertWaits(who, y) == row[y].made /\ ~kept[y].made /\ holder[y] # who
Insert(who, y) ==
    /\ ~InsertWaits(who, y)
    /\ IF row[y].made
       THEN UNCHANGED <<row, holder>>
       ELSE row' = [row EXCEPT ![y] = Made] /\ Holds(who, {y})

\* What an ended year leaves: requests still waiting count as spent.
CarriedOut(b) ==
    LET left == Entitled + b.over - b.taken - b.pending IN
    IF left < 0 THEN 0 ELSE IF left > CarryOverMax THEN CarryOverMax ELSE left

\* carryInto(2): year 1 closes once, and only towards a row there is.
ClosesOnce(b) == b.made /\ ~b.closed

\* It does not see a row another transaction has only just made, and waits for one it sees.
CarryInto(who) ==
    IF ClosesOnce(IF holder[1] = who THEN row[1] ELSE kept[1]) /\ row[2].made
    THEN /\ MayWrite(who, Years)
         /\ row' = [y \in Years |->
                IF y = 1 THEN [row[1] EXCEPT !.out = CarriedOut(row[1]), !.closed = TRUE]
                ELSE [row[2] EXCEPT !.over = @ + CarriedOut(row[1])]]
         /\ Holds(who, Years)
    ELSE UNCHANGED <<row, holder>>

-----------------------------------------------------------------------------
(* LeaveService.submit                                                     *)

\* A redelivery whose request is there already ends here.
BeginFiling(d) ==
    /\ filing[d] = Resting /\ request[KeyOf[d]] = "none"
    /\ filing' = [filing EXCEPT ![d] = Begun(KeyOf[d])]
    /\ UNCHANGED <<thisYear, paid, row, kept, holder, request, deciding, opening>>

\* ensure: only the transaction that made the row of a year that has begun carries into it.
Ensure(d) ==
    LET y == filing[d].year IN
    /\ filing[d].next = "ensure"
    /\ Insert(Files(d), y)
    /\ filing' = [filing EXCEPT ![d].next =
           IF ~row[y].made /\ y = 2 /\ y <= thisYear THEN "carry" ELSE "hold"]
    /\ UNCHANGED <<thisYear, paid, kept, request, deciding, opening>>

CarryOne(d) ==
    /\ filing[d].next = "carry"
    /\ CarryInto(Files(d))
    /\ filing' = [filing EXCEPT ![d].next = "hold"]
    /\ UNCHANGED <<thisYear, paid, kept, request, deciding, opening>>

\* Faulty form, for trying the properties: days on hold are not counted against the filing.
FitsTaken(b, days) == paid => Entitled + b.over - b.taken - b.out >= days

Fits(b, days) == paid => FreeDays(b) >= days

\* hold checks and holds in one statement; a year that is short rolls everything back.
Hold(d) ==
    LET y == filing[d].year
        days == Parts[KeyOf[d]][y]
        rest == {z \in YearsOf(KeyOf[d]) : z > y} IN
    /\ filing[d].next = "hold"
    /\ MayWrite(Files(d), {y})
    /\ IF Fits(row[y], days)
       THEN /\ row' = [row EXCEPT ![y].pending = @ + days]
            /\ Holds(Files(d), {y})
            /\ filing' = [filing EXCEPT ![d] =
                   IF rest = {} THEN [year |-> y, next |-> "create"]
                   ELSE [year |-> FirstOf(rest), next |-> "ensure"]]
            /\ UNCHANGED kept
       ELSE /\ RollBack(Files(d))
            /\ filing' = [filing EXCEPT ![d] = Resting]
    /\ UNCHANGED <<thisYear, paid, request, deciding, opening>>

\* The clientKey is unique: the loser of two redeliveries gives back the days it reserved.
CreateRequest(d) ==
    /\ filing[d].next = "create"
    /\ IF request[KeyOf[d]] = "none"
       THEN Keep(Files(d)) /\ request' = [request EXCEPT ![KeyOf[d]] = "PENDING"]
       ELSE RollBack(Files(d)) /\ UNCHANGED request
    /\ filing' = [filing EXCEPT ![d] = Resting]
    /\ UNCHANGED <<thisYear, paid, deciding, opening>>

\* An error, a crash or a deadlock Postgres breaks ends the transaction.
FilingFails(d) ==
    /\ filing[d] # Resting
    /\ RollBack(Files(d))
    /\ filing' = [filing EXCEPT ![d] = Resting]
    /\ UNCHANGED <<thisYear, paid, request, deciding, opening>>

-----------------------------------------------------------------------------
(* LeaveService.decide and cancel                                          *)

\* Faulty form, for trying the properties: two deciders who both read PENDING both go on.
MayClaimRead(k) == request[k] \in {"PENDING", "APPROVED"} /\ deciding[k] = Undecided

\* The guarded update: it waits for the claim in progress and then finds PENDING or not.
MayClaim(k) == request[k] = "PENDING" /\ deciding[k] = Undecided

ClaimRequest(k, to) ==
    /\ MayClaim(k)
    /\ deciding' = [deciding EXCEPT ![k] = [to |-> to, years |-> YearsOf(k)]]
    /\ UNCHANGED <<thisYear, paid, row, kept, holder, request, filing, opening>>

\* settle and release, one year after the other.
Settle(k) ==
    LET y == FirstOf(deciding[k].years)
        days == Parts[k][y] IN
    /\ deciding[k].years # {}
    /\ MayWrite(Decides(k), {y})
    /\ row' = [row EXCEPT ![y].pending = @ - days,
                          ![y].taken = IF deciding[k].to = "APPROVED" THEN @ + days ELSE @]
    /\ Holds(Decides(k), {y})
    /\ deciding' = [deciding EXCEPT ![k].years = @ \ {y}]
    /\ UNCHANGED <<thisYear, paid, kept, request, filing, opening>>

EndDecision(k) ==
    /\ deciding[k] # Undecided /\ deciding[k].years = {}
    /\ Keep(Decides(k))
    /\ request' = [request EXCEPT ![k] = deciding[k].to]
    /\ deciding' = [deciding EXCEPT ![k] = Undecided]
    /\ UNCHANGED <<thisYear, paid, filing, opening>>

DecisionFails(k) ==
    /\ deciding[k] # Undecided
    /\ RollBack(Decides(k))
    /\ deciding' = [deciding EXCEPT ![k] = Undecided]
    /\ UNCHANGED <<thisYear, paid, request, filing, opening>>

-----------------------------------------------------------------------------
(* The New Year job                                                        *)

NewYear ==
    /\ thisYear = 1
    /\ thisYear' = 2
    /\ UNCHANGED <<paid, row, kept, holder, request, filing, deciding, opening>>

\* open(2): safe to run again, and the queue runs it again when it fails.
OpenRows ==
    /\ thisYear = 2 /\ opening = "none"
    /\ Insert(Opens, 2)
    /\ opening' = "carry"
    /\ UNCHANGED <<thisYear, paid, kept, request, filing, deciding>>

OpenCarry ==
    /\ opening = "carry"
    /\ CarryInto(Opens)
    /\ opening' = "end"
    /\ UNCHANGED <<thisYear, paid, kept, request, filing, deciding>>

OpenEnds ==
    /\ opening = "end"
    /\ Keep(Opens)
    /\ opening' = "none"
    /\ UNCHANGED <<thisYear, paid, request, filing, deciding>>

OpenFails ==
    /\ opening # "none"
    /\ RollBack(Opens)
    /\ opening' = "none"
    /\ UNCHANGED <<thisYear, paid, request, filing, deciding>>

File(d) == BeginFiling(d) \/ Ensure(d) \/ CarryOne(d) \/ Hold(d) \/ CreateRequest(d) \/ FilingFails(d)
Decide(k) ==
    \/ \E to \in {"APPROVED", "REJECTED", "CANCELLED"} : ClaimRequest(k, to)
    \/ Settle(k) \/ EndDecision(k) \/ DecisionFails(k)
Open == NewYear \/ OpenRows \/ OpenCarry \/ OpenEnds \/ OpenFails

LeaveNext == (\E d \in Deliveries : File(d)) \/ (\E k \in Keys : Decide(k)) \/ Open
LeaveSpec == LeaveInit /\ [][LeaveNext]_leaveVars

-----------------------------------------------------------------------------
Balance == [made : BOOLEAN, over : Int, taken : Int, pending : Int, out : Int, closed : BOOLEAN]

LeaveTypeOK ==
    /\ thisYear \in Years /\ paid \in BOOLEAN
    /\ row \in [Years -> Balance] /\ kept \in [Years -> Balance]
    /\ holder \in [Years -> {Free, Opens} \cup {Files(d) : d \in Deliveries}
                                          \cup {Decides(k) : k \in Keys}]
    /\ request \in [Keys -> {"none", "PENDING", "APPROVED", "REJECTED", "CANCELLED"}]
    /\ filing \in [Deliveries -> [year : 0 .. 2, next : {"none", "ensure", "carry", "hold", "create"}]]
    /\ deciding \in [Keys -> [to : {"none", "APPROVED", "REJECTED", "CANCELLED"}, years : SUBSET Years]]
    /\ opening \in {"none", "carry", "end"}

\* The days of the requests in a state that fall in a year.
DaysIn(state, y) ==
    MapThenSumSet(LAMBDA k : Parts[k][y], {k \in Keys : request[k] = state})

\* What left the ended year is what the next one got (carryInto).
CarriedOnce == kept[2].over = kept[1].out /\ (kept[1].out > 0 => kept[1].closed)

\* Whatever was filed, decided, cancelled or rolled back between, a committed balance holds
\* the days of the requests that wait and counts as taken those of the approved ones, each
\* once (hold, settle, release); and what left the ended year is what the next one got,
\* however often the job and the filings that make the new row try (open, ensure, carryInto).
DaysAddUp ==
    /\ \A y \in Years : /\ kept[y].pending = DaysIn("PENDING", y)
                        /\ kept[y].taken = DaysIn("APPROVED", y)
    /\ CarriedOnce

\* No order of filings, decisions and the closing of the year books more days of a paid type
\* than there are, the days carried out of a closed year among them (hold, carryInto).
NeverOverdrawn == paid => \A y \in Years : FreeDays(kept[y]) >= 0

=============================================================================
