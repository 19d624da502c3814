----------------------------- MODULE MCComponents -----------------------------
(* The components that share nothing, side by side, for one exploration: a       *)
(* behaviour runs one of them, and the others rest where they start.             *)
EXTENDS AtomicFile, Payroll, LeaveBalance, ModelTrial, Commands, Ticket

VARIABLE part \* the component this behaviour runs

allVars == <<part, vars, payVars, leaveVars, trialVars, commandVars, ticketVars>>

-----------------------------------------------------------------------------
(* Payroll and leave. *)

a1 == [entity |-> "A", month |-> 1]
MCCalendar == [a1 |-> a1, b1 |-> [a1 EXCEPT !.entity = "B"], a2 |-> [a1 EXCEPT !.month = 2]]

Regular(p) == [period |-> p, kind |-> "REGULAR"]
Bonus(p) == [period |-> p, kind |-> "BONUS"]
\* A run taken again and carried to the next month; two bonuses on one run; two runs and a
\* bonus, with no fault; a move between two entities in one month, and a bonus behind it.
MCPlans == {
    [runs |-> <<Regular("a1"), Regular("a1"), Regular("a2")>>, homes |-> <<"A">>, faults |-> 1],
    [runs |-> <<Regular("a1"), Bonus("a1"), Bonus("a1")>>, homes |-> <<"A">>, faults |-> 1],
    [runs |-> <<Regular("a1"), Regular("a1"), Bonus("a1")>>, homes |-> <<"A">>, faults |-> 0],
    [runs |-> <<Regular("a1"), Regular("b1")>>, homes |-> <<"A", "B">>, faults |-> 1],
    [runs |-> <<Regular("a1"), Regular("b1"), Bonus("b1")>>, homes |-> <<"A", "B">>, faults |-> 0]}

\* A request over New Year that the phone may send twice, and one in each of the years.
MCParts == [over |-> <<1, 1>>, first |-> <<1, 0>>, second |-> <<0, 2>>]
MCKeyOf == [d1 |-> "over", d2 |-> "over", d3 |-> "first", d4 |-> "second"]

-----------------------------------------------------------------------------
(* The kiosk: two packs, the second for the newer firmware, and one that loads and answers
   nobody. *)

MCMinFirmware == [p1 |-> 1, p2 |-> 2, bad |-> 1]
MCLoads == [p1 |-> {1, 2}, p2 |-> {2}, bad |-> {1, 2}]
MCAnswers == [p1 |-> {1, 2}, p2 |-> {2}, bad |-> {}]

-----------------------------------------------------------------------------
Rests(name) == part # name

ComponentsInit ==
    /\ part \in {"file", "payroll", "leave", "models", "commands", "ticket"}
    /\ Init /\ PayInit /\ LeaveInit /\ TrialInit /\ CommandInit /\ TicketInit
    /\ Rests("payroll") => plan = CHOOSE one \in Plans : TRUE
    /\ Rests("leave") => paid /\ row[1].made
    /\ Rests("models") => fw = 1 /\ slot[0] = "p1" /\ slot[1] = Erased

ComponentsNext ==
    /\ UNCHANGED part
    /\ \/ part = "file" /\ Next
          /\ UNCHANGED <<payVars, leaveVars, trialVars, commandVars, ticketVars>>
       \/ part = "payroll" /\ PayNext
          /\ UNCHANGED <<vars, leaveVars, trialVars, commandVars, ticketVars>>
       \/ part = "leave" /\ LeaveNext
          /\ UNCHANGED <<vars, payVars, trialVars, commandVars, ticketVars>>
       \/ part = "models" /\ TrialNext
          /\ UNCHANGED <<vars, payVars, leaveVars, commandVars, ticketVars>>
       \/ part = "commands" /\ CommandNext
          /\ UNCHANGED <<vars, payVars, leaveVars, trialVars, ticketVars>>
       \/ part = "ticket" /\ TicketNext
          /\ UNCHANGED <<vars, payVars, leaveVars, trialVars, commandVars>>

ComponentsSpec == ComponentsInit /\ [][ComponentsNext]_allVars

\* The component that runs keeps its state of its type, whatever its steps, its people and the
\* faults of the code around it do.
ComponentsTypeOK ==
    /\ part = "payroll" => PayTypeOK
    /\ part = "leave" => LeaveTypeOK
    /\ part = "models" => TrialTypeOK
    /\ part = "commands" => CommandTypeOK
    /\ part = "ticket" => TicketTypeOK
=============================================================================
