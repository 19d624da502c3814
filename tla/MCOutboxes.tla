------------------------------ MODULE MCOutboxes ------------------------------
(* What two devices keep until the server has it, for TLC: the captures of a kiosk *)
(* and the requests of a browser.  The two share no state in the models; a         *)
(* behaviour runs one, the other rests.                                            *)
EXTENDS RosterSync, Outbox, TLC

VARIABLE device \* "kiosk" or "browser"

deviceVars == <<device, rosterVars, outboxVars>>

\* A bound: no door has captured anybody when this one is made.
DevicesInit == device \in {"kiosk", "browser"} /\ RosterInit /\ minted = 0 /\ OutboxInit

\* A bound: whoever signs in or out waits for the form and the renewal of that tab to come back.
Unhurried ==
    \A t \in Tabs :
        page'[t].me # page[t].me /\ UNCHANGED <<renewal, call>>
            => call[t].by # "form" /\ renewal[t].at = "rest"

\* A bound: an answer in which nobody judged comes to a flush, while the other tabs are idle; a
\* form it comes to ends, like one refused.
BreaksAlone ==
    \A t \in Tabs : call'[t].at = "unjudged" =>
        /\ call[t].by = "flush"
        /\ \A other \in Tabs \ {t} : Idle(other)

DevicesNext ==
    /\ UNCHANGED device
    /\ \/ device = "kiosk" /\ RosterNext /\ UNCHANGED outboxVars
       \/ device = "browser" /\ OutboxNext /\ Unhurried /\ BreaksAlone /\ UNCHANGED rosterVars

DevicesSpec == DevicesInit /\ [][DevicesNext]_deviceVars

\* Tabs and accounts are told apart by nothing but their state.
BrowserSymmetry == Permutations(Tabs) \cup Permutations(Accounts)
=============================================================================
