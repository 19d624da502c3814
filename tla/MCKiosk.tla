------------------------------- MODULE MCKiosk --------------------------------
(* Three places where tasks of one kiosk meet, which share no state in the models: *)
(* the broker link, the door and the roster.  A behaviour runs one, the others     *)
(* rest.                                                                           *)
EXTENDS NetMqtt, DoorAccess, RosterSync

VARIABLE place \* "link", "door" or "roster"

kioskVars == <<place, vars, doorVars, rosterVars>>

\* A bound: no door has captured anybody when this one is made.
KioskInit ==
    /\ place \in {"link", "door", "roster"}
    /\ Init /\ DoorInit /\ RosterInit /\ minted = 0

KioskNext ==
    /\ UNCHANGED place
    /\ \/ place = "link" /\ Next /\ UNCHANGED <<doorVars, rosterVars>>
       \/ place = "door" /\ DoorNext /\ UNCHANGED <<vars, rosterVars>>
       \/ place = "roster" /\ RosterNext /\ UNCHANGED <<vars, doorVars>>

\* At rest no task of the link is in a call, so nothing fair can be done there; a roster at rest
\* would still heartbeat, and its fairness is asked where it runs.
AtRoster == place = "roster"

KioskFairness ==
    /\ Fairness
    /\ WF_rosterVars(AtRoster /\ TakeRoster) /\ WF_rosterVars(AtRoster /\ EndBatch)
    /\ WF_rosterVars(AtRoster /\ StoreNumber) /\ WF_rosterVars(AtRoster /\ Heartbeat)
    /\ WF_rosterVars(AtRoster /\ Converge) /\ WF_rosterVars(AtRoster /\ TakeReport)
    /\ WF_rosterVars(AtRoster /\ Acked) /\ \A p \in Staff : WF_rosterVars(AtRoster /\ Report(p))

KioskSpec == KioskInit /\ [][KioskNext]_kioskVars /\ KioskFairness
=============================================================================
