------------------------------ MODULE Commands -------------------------------
(* Commands to a kiosk (backend commands.service.ts, firmware app_tasks.c): a    *)
(* row is written first, the command published at QoS 1, run by sync_task and    *)
(* the row closed by the kiosk's answer. The client resends a publish whose ack  *)
(* it lost, so a kiosk may meet a command twice; it knows the last few by name,  *)
(* in RAM. What an administrator reads must be what the kiosk did.               *)
EXTENDS Integers, Sequences, SequencesExt

CONSTANTS
    Cmds,       \* the commands sent in a behaviour
    Reboots,    \* those whose action restarts the kiosk
    SeenRing,   \* how many names already_ran remembers
    InboxDepth  \* room in the queue from the broker's callback to sync_task

ASSUME CommandAssumption ==
    Reboots \subseteq Cmds /\ SeenRing \in Nat \ {0} /\ InboxDepth \in Nat \ {0}

VARIABLES
    cmdRow,   \* the row's state column
    sender,   \* where send() is: "idle", "publishing", "acked", "failed", "over"
    copies,   \* copies of the publish still under way to the kiosk
    inbox,    \* wiring->commands
    seen,     \* the ring of names already_ran keeps, oldest first
    ran,      \* how often the kiosk carried the command out
    answers,  \* the answers the kiosk has published: any may be lost, or come twice
    cmdHoles  \* what happened that may make a row tell less than the truth

commandVars == <<cmdRow, sender, copies, inbox, seen, ran, answers, cmdHoles>>

OpenRow == {"QUEUED", "SENT"}
MaxCopies == 2

CommandInit ==
    /\ cmdRow = [c \in Cmds |-> "none"]
    /\ sender = [c \in Cmds |-> "idle"]
    /\ copies = [c \in Cmds |-> 0]
    /\ inbox = <<>> /\ seen = <<>>
    /\ ran = [c \in Cmds |-> 0]
    /\ answers = {} /\ cmdHoles = {}

-----------------------------------------------------------------------------
(* The server. *)

\* send(): the row first, then the publish, which the client holds until its ack.
Send(c) ==
    /\ sender[c] = "idle"
    /\ cmdRow' = [cmdRow EXCEPT ![c] = "QUEUED"]
    /\ sender' = [sender EXCEPT ![c] = "publishing"]
    /\ UNCHANGED <<copies, inbox, seen, ran, answers, cmdHoles>>

\* The broker takes the publish, or takes it again when the first ack was lost. It hands it to
\* an online kiosk, and drops it for one that is not (a clean session).
Deliver(c) ==
    /\ sender[c] = "publishing" /\ copies[c] < MaxCopies
    /\ copies' = [copies EXCEPT ![c] = @ + 1]
    /\ UNCHANGED <<cmdRow, sender, inbox, seen, ran, answers, cmdHoles>>

\* publishDown resolves on the ack, or rejects: a client that is closing, or a broker that
\* refuses the publish, the resent copy of one it already handed on among them.
Published(c) ==
    /\ sender[c] = "publishing"
    /\ \E end \in {"acked", "failed"} :
        /\ sender' = [sender EXCEPT ![c] = end]
        /\ cmdHoles' = IF end = "failed" /\ (copies[c] + ran[c] > 0 \/ c \in Range(inbox))
                       THEN cmdHoles \union {"refused"} ELSE cmdHoles
    /\ UNCHANGED <<cmdRow, copies, inbox, seen, ran, answers>>

\* The catch block writes the row whatever it holds by then; the mark SENT only a QUEUED one.
WriteOutcome(c) ==
    /\ sender[c] \in {"acked", "failed"}
    /\ sender' = [sender EXCEPT ![c] = "over"]
    /\ cmdRow' = [cmdRow EXCEPT ![c] =
                    IF sender[c] = "failed" THEN "REJECTED"
                    ELSE IF @ = "QUEUED" THEN "SENT" ELSE @]
    /\ UNCHANGED <<copies, inbox, seen, ran, answers, cmdHoles>>

\* The server stops in the middle of send().
SenderDies(c) ==
    /\ sender[c] \in {"publishing", "acked", "failed"}
    /\ sender' = [sender EXCEPT ![c] = "over"]
    /\ UNCHANGED <<cmdRow, copies, inbox, seen, ran, answers, cmdHoles>>

\* onAnswer: only an open row is closed, so an answer that comes again writes nothing.
OnAnswer ==
    /\ \E a \in answers :
        /\ cmdRow[a.cmd] \in OpenRow
        /\ cmdRow' = [cmdRow EXCEPT ![a.cmd] = a.says]
    /\ UNCHANGED <<sender, copies, inbox, seen, ran, answers, cmdHoles>>

-----------------------------------------------------------------------------
(* The kiosk. *)

\* on_broker_message: a full queue drops the command, and a copy may be lost on the way.
Receive(c) ==
    /\ copies[c] > 0
    /\ copies' = [copies EXCEPT ![c] = @ - 1]
    /\ inbox' \in {inbox} \union (IF Len(inbox) < InboxDepth THEN {Append(inbox, c)} ELSE {})
    /\ UNCHANGED <<cmdRow, sender, seen, ran, answers, cmdHoles>>

\* Faulty form, for trying the properties: only a command carried out counts as seen.
RanHere(c) == c \in Range(seen) /\ ran[c] > 0

\* already_ran: the name is among the last few met.
AlreadyRan(c) == c \in Range(seen)

\* Faulty form, for trying the properties: the ring does not turn.
RememberAll(c) == Append(seen, c)

\* The names a ring keeps when c goes in.
Remember(c) == LET longer == Append(seen, c)
               IN  IF Len(longer) > SeenRing THEN Tail(longer) ELSE longer

\* What forgetting these names costs, with this queue left: another copy may be about, in
\* the queue, on its way or still to be handed on.
Forgetting(names, left) ==
    IF \E c \in names : copies[c] > 0 \/ sender[c] = "publishing" \/ c \in Range(left)
    THEN cmdHoles \union {"again"} ELSE cmdHoles

\* take_commands takes one it has seen, and drops it.
TakeRepeat ==
    /\ inbox # <<>> /\ AlreadyRan(Head(inbox))
    /\ inbox' = Tail(inbox)
    /\ UNCHANGED <<cmdRow, sender, copies, seen, ran, answers, cmdHoles>>

\* The name goes into the ring ahead of every check. The kiosk then refuses the command (its
\* deadline passed on a clock NTP has set, an action this build has not, one that failed) or
\* carries it out, and answers either way.
TakeCommand ==
    /\ inbox # <<>> /\ ~AlreadyRan(Head(inbox))
    /\ LET c == Head(inbox) IN
        /\ inbox' = Tail(inbox)
        /\ seen' = Remember(c)
        /\ cmdHoles' = Forgetting(Range(seen) \ Range(Remember(c)), Tail(inbox))
        /\ \/ /\ answers' = answers \union {[cmd |-> c, says |-> "REJECTED"]}
              /\ UNCHANGED ran
           \/ /\ c \notin Reboots
              /\ answers' = answers \union {[cmd |-> c, says |-> "DONE"]}
              /\ ran' = [ran EXCEPT ![c] = @ + 1]
    /\ UNCHANGED <<cmdRow, sender, copies>>

\* A restart forgets the ring and the queue.
Forget ==
    /\ seen' = <<>> /\ inbox' = <<>>
    /\ UNCHANGED <<cmdRow, sender, copies>>

\* REBOOT answers first, gives the answer time to leave, and restarts.
TakeReboot ==
    /\ inbox # <<>>
    /\ LET c == Head(inbox) IN
        /\ c \in Reboots /\ ~AlreadyRan(c)
        /\ answers' = answers \union {[cmd |-> c, says |-> "DONE"]}
        /\ ran' = [ran EXCEPT ![c] = @ + 1]
        /\ cmdHoles' = Forgetting(Range(Append(seen, c)), <<>>)
    /\ Forget

\* The power fails, or the kiosk restarts for another reason.
KioskLosesPower ==
    /\ seen # <<>> \/ inbox # <<>>
    /\ cmdHoles' = Forgetting(Range(seen), <<>>)
    /\ UNCHANGED <<ran, answers>>
    /\ Forget

\* A behaviour is followed up to its first hole.
CommandNext ==
    /\ cmdHoles = {}
    /\ \/ \E c \in Cmds : Send(c) \/ Deliver(c) \/ Published(c) \/ WriteOutcome(c)
                          \/ SenderDies(c) \/ Receive(c)
       \/ OnAnswer \/ TakeRepeat \/ TakeCommand \/ TakeReboot \/ KioskLosesPower

CommandSpec == CommandInit /\ [][CommandNext]_commandVars

-----------------------------------------------------------------------------
(* Properties. *)

\* What the columns, the ring and the queue of commands.service.ts and app_tasks.c may hold.
CommandTypeOK ==
    /\ cmdRow \in [Cmds -> OpenRow \union {"none", "DONE", "REJECTED"}]
    /\ sender \in [Cmds -> {"idle", "publishing", "acked", "failed", "over"}]
    /\ copies \in [Cmds -> 0..MaxCopies]
    /\ inbox \in SeqOf(Cmds, InboxDepth) /\ seen \in SeqOf(Cmds, SeenRing)
    /\ answers \subseteq [cmd : Cmds, says : {"DONE", "REJECTED"}]
    /\ cmdHoles \subseteq {"again", "refused"}

\* A row an administrator reads as DONE was carried out, once; one read as REJECTED never was;
\* and no command runs twice. Two things break it, and nothing else: names forgotten while a
\* copy is still to come (a restart, or the ring full of newer ones), and a send that fails at
\* the server although the kiosk has the command, which writes "not sent" over its answer.
CommandToldTruly ==
    \A c \in Cmds :
        /\ cmdRow[c] = "DONE" => ran[c] > 0
        /\ "again" \notin cmdHoles => ran[c] < 2
        /\ cmdHoles = {} /\ cmdRow[c] = "REJECTED" => ran[c] = 0
=============================================================================
