------------------------------ MODULE MCSyncTask ------------------------------
(* What sync_task carries from round to round: the roster pushed to a door, and   *)
(* the punches whose time waits for a clock.  The two share no state in the       *)
(* models; a behaviour runs one, the other rests.                                 *)
EXTENDS RosterSync, PunchClock

VARIABLE chore \* "roster", "crowd" or "punches"

syncVars == <<chore, rosterVars, clockVars>>

\* Bounds on where a roster begins: no door holds anybody yet, or in a crowd the other doors
\* hold everybody, more people than this one has room for.
Begins ==
    IF chore = "crowd" THEN server.face = [p \in Staff |-> p]
    ELSE minted = 1 /\ server.face = [p \in Staff |-> 0]

SyncInit ==
    /\ chore \in {"roster", "crowd", "punches"}
    /\ RosterInit /\ Begins /\ ClockInit
    /\ chore # "punches" => ~chip.stopped

\* A bound: the second punch is begun in the first start, behind one that has no clock, and
\* the api sets no time from there on; that start is then the last.
SecondWaits ==
    /\ stamps' = 2 \/ (stamps' = 1 /\ punching'.busy) => start' = 1 /\ step'["api"] = "rest"
    /\ stamps = 1 /\ punching'.busy /\ ~punching.busy =>
           backlog # <<>> /\ Head(backlog).at = "since start"

\* A bound: one fault in a crowd.
SyncNext ==
    /\ UNCHANGED chore
    /\ \/ chore = "roster" /\ RosterNext /\ UNCHANGED clockVars
       \/ chore = "crowd" /\ RosterNext /\ rosterFaults' <= 1 /\ UNCHANGED clockVars
       \/ chore = "punches" /\ ClockNext /\ SecondWaits /\ UNCHANGED rosterVars

\* The kiosk of the clock is off while it rests, and owes nothing.
SyncSpec == SyncInit /\ [][SyncNext]_syncVars /\ ClockFairness
=============================================================================
