----------------------------- MODULE PunchLedger -----------------------------
(* What becomes of a punch, whatever happens to the kiosk and to the links: it *)
(* stays on the books until the backend has kept a row of it or refused it for *)
(* good, it is kept once, and only flash losing its bytes takes it off before. *)
EXTENDS Naturals, FiniteSets

CONSTANTS
  MaxPunches,   \* bound on the punches
  MaxForgotten  \* how many of them flash may lose

VARIABLES
  taken,    \* punches made so far, numbered 1, 2, ...
  owed,     \* those on the books
  kept,     \* those the backend has a row of
  refused,  \* those it has answered for without a row
  forgotten \* those whose bytes flash has lost

ledger == <<taken, owed, kept, refused, forgotten>>

Init == taken = 0 /\ owed = {} /\ kept = {} /\ refused = {} /\ forgotten = {}

(* A punch is made; one whose append failed need not come on the books. *)
Take ==
  /\ taken < MaxPunches /\ taken' = taken + 1
  /\ owed' \in {owed, owed \cup {taken'}}
  /\ UNCHANGED <<kept, refused, forgotten>>

(* A punch off the books may still come in: its message was under way.  One    *)
(* that was refused may be kept when its message comes again.                  *)
Keep ==
  /\ \E p \in (1..taken) \ kept :
       owed' = owed \ {p} /\ kept' = kept \cup {p} /\ refused' = refused \ {p}
  /\ UNCHANGED <<taken, forgotten>>

Refuse ==
  /\ \E p \in (1..taken) \ kept : owed' = owed \ {p} /\ refused' = refused \cup {p}
  /\ UNCHANGED <<taken, kept, forgotten>>

(* Flash loses the bytes of a punch's record. *)
Forget ==
  /\ \E p \in (1..taken) \ forgotten :
       owed' = owed \ {p} /\ forgotten' = forgotten \cup {p}
  /\ Cardinality(forgotten) < MaxForgotten
  /\ UNCHANGED <<taken, kept, refused>>

Next == Take \/ Keep \/ Refuse \/ Forget

Spec == Init /\ [][Next]_ledger

EveryDebtPaid == \A p \in 1..MaxPunches : p \in owed ~> p \notin owed
=============================================================================
