------------------------------- MODULE Ticket --------------------------------
(* How a kiosk is let in, and put out again (devices.service.ts, admitDevice of  *)
(* auth.service.ts; net_provision.c and ota_task of the kiosk). A kiosk with     *)
(* nothing in flash asks to register, showing a claim code; a person types the   *)
(* code; the kiosk collects its ticket, logs in to the broker with it and trades *)
(* it for a fresh one in time. A ticket the api calls dead takes the face table  *)
(* with it. Each handler reads the row and writes it later; the kiosk gives up   *)
(* on an answer that is late, and what it gave up on may be served all the same. *)
EXTENDS Integers

CONSTANTS
    MaxTickets, \* bound: how many tickets are signed
    MaxClaims,  \* bound: how many claim codes the kiosk draws
    Attempts    \* DEVICE_CLAIM_ATTEMPTS

ASSUME TicketAssumption == {MaxTickets, MaxClaims, Attempts} \subseteq Nat \ {0}

VARIABLES
    device,      \* the Device row
    signed,      \* the newest ticket signed; tickets are told apart by number
    lapsed,      \* the newest ticket whose exp has passed: they run out in order
    revoked,     \* the newest ticket signed when a person last put the machine out
    approving,   \* an administrator's approve() has read the row and not yet written it
    calls,       \* the exchange the kiosk waits on ("now") and one it gave up on ("late")
    nvs,         \* the kiosk's flash: ticket, claim, roster_ver # 0, faces in the table's file
    needsTicket, \* APP_EG_NEED_TICKET
    broker,      \* the kiosk's broker client: "off", "dialling", "open"
    wipe,        \* the purge: "none", "queued", "saved" (in the file, roster_ver still to go)
    drawn,       \* the newest claim code drawn
    ticketHoles  \* what happened that may cost a kiosk its ticket or its faces

ticketVars == <<device, signed, lapsed, revoked, approving, calls, nvs, needsTicket,
                broker, wipe, drawn, ticketHoles>>
serverSide == <<device, signed, approving>>
kioskSide == <<nvs, needsTicket, broker, wipe, drawn>>

NoRow == [status |-> "none", token |-> 0, prev |-> 0, claim |-> 0, wrong |-> 0]
NoCall == [kind |-> "none", card |-> 0, step |-> "idle", saw |-> NoRow, gift |-> 0,
         overtaken |-> FALSE]
Over == [NoCall EXCEPT !.step = "over"]

TicketInit ==
    /\ device = NoRow /\ signed = 0 /\ lapsed = 0 /\ revoked = 0 /\ approving = FALSE
    /\ calls = [now |-> NoCall, late |-> NoCall]
    /\ nvs = [ticket |-> 0, claim |-> 0, versioned |-> FALSE, faces |-> FALSE]
    /\ needsTicket = FALSE /\ broker = "off"
    /\ wipe = "none" /\ drawn = 0 /\ ticketHoles = {}

-----------------------------------------------------------------------------
(* The server. A handler is read, then write, per exchange. *)

Final == {"yes", "no", "wait", "spent", "error"}

\* The handler answers, a ticket in the answer or none; nobody hears a late one.
Replies(i, step, gift) ==
    calls' = [calls EXCEPT ![i] = IF i = "late" THEN Over
                                  ELSE [@ EXCEPT !.step = step, !.gift = gift, !.saw = NoRow]]
Told(i, step) == Replies(i, step, 0)

\* A write made for an exchange given up on, after the kiosk went on to another.
Overtaken(i) == IF calls[i].overtaken THEN ticketHoles \union {"late"} ELSE ticketHoles

\* Every handler begins by reading the row; a renewal reads it again behind its guard.
ReadDevice(i) ==
    /\ \E onto \in {<<"sent", "read">>, <<"admitted", "held">>} :
        /\ calls[i].step = onto[1]
        /\ calls' = [calls EXCEPT ![i].step = onto[2], ![i].saw = device]
    /\ UNCHANGED <<serverSide, ticketHoles>>

\* admitDevice: an unexpired ticket of an approved kiosk, the one on the row or the one before.
Admitted(e) == /\ e.card > lapsed
               /\ e.saw.status = "APPROVED" /\ e.saw.token # 0
               /\ e.card \in {e.saw.token, e.saw.prev}

\* Faulty form, for trying the properties: the row is written whatever ticket it holds by now.
RetiresAny(e) == e.card = e.saw.token /\ e.saw.prev # 0

\* The first use of the new ticket retires the old one, if the row still holds that new one.
Retires(e) == e.card = e.saw.token /\ e.saw.prev # 0 /\ device.token = e.saw.token

Admit(i) ==
    LET e == calls[i] IN
    /\ e.step = "read" /\ e.kind \in {"dial", "check", "renew"}
    /\ device' = IF Admitted(e) /\ Retires(e) THEN [device EXCEPT !.prev = 0] ELSE device
    /\ IF Admitted(e) /\ e.kind = "renew"
       THEN calls' = [calls EXCEPT ![i].step = "admitted", ![i].saw = NoRow]
       ELSE Told(i, IF Admitted(e) THEN "yes" ELSE "no")
    /\ UNCHANGED <<signed, approving, ticketHoles>>

\* The ticket on the row steps back; asked with the one before, the lost one dies.
PrevAfter(e) == IF e.card = e.saw.token THEN e.saw.token ELSE e.saw.prev

\* renew: a fresh ticket for the one presented, if the row is still the one read.
Renew(i) ==
    LET e == calls[i]
        standing == e.card \in {e.saw.token, e.saw.prev}
    IN  /\ e.step = "held"
        /\ \/ /\ standing /\ device.status = "APPROVED" /\ device.token = e.saw.token
              /\ signed < MaxTickets /\ signed' = signed + 1
              /\ device' = [device EXCEPT !.token = signed + 1, !.prev = PrevAfter(e)]
              /\ Replies(i, "yes", signed + 1)
              /\ ticketHoles' = Overtaken(i)
           \/ /\ ~(standing /\ device.status = "APPROVED" /\ device.token = e.saw.token)
              /\ Told(i, "no")
              /\ UNCHANGED <<device, signed, ticketHoles>>
        /\ UNCHANGED approving

\* register, a machine the server has not met; one made meanwhile fails the insert.
RegisterNew(i) ==
    LET e == calls[i] IN
    /\ e.step = "read" /\ e.kind = "register" /\ e.saw.status = "none"
    /\ IF device.status = "none"
       THEN /\ device' = [NoRow EXCEPT !.status = "PENDING", !.claim = e.card]
            /\ Told(i, "wait")
       ELSE Told(i, "error") /\ UNCHANGED device
    /\ UNCHANGED <<signed, approving, ticketHoles>>

\* register, a machine approved with a ticket, or put out: back to a person.
RegisterAgain(i) ==
    LET e == calls[i] IN
    /\ e.step = "read" /\ e.kind = "register"
    /\ e.saw.status = "REVOKED" \/ (e.saw.status = "APPROVED" /\ e.saw.token # 0)
    /\ device' = [NoRow EXCEPT !.status = "PENDING", !.claim = e.card]
    /\ Told(i, "wait")
    /\ ticketHoles' = Overtaken(i)
    /\ broker' = IF e.saw.status = "APPROVED" /\ broker = "open" THEN "dialling" ELSE broker
    /\ UNCHANGED <<signed, approving>>

\* register, approved: only the code a person typed collects the ticket.
Collect(i) ==
    LET e == calls[i] IN
    /\ e.step = "read" /\ e.kind = "register"
    /\ e.saw.status = "APPROVED" /\ e.saw.token = 0
    /\ IF e.saw.claim # e.card THEN Told(i, "wait") /\ UNCHANGED <<device, signed, ticketHoles, broker>>
       ELSE /\ signed < MaxTickets /\ signed' = signed + 1
            /\ device' = [device EXCEPT !.token = signed + 1, !.prev = 0, !.claim = 0]
            /\ Replies(i, "yes", signed + 1)
            /\ ticketHoles' = Overtaken(i)
            /\ broker' = IF broker = "open" THEN "dialling" ELSE broker
    /\ UNCHANGED approving

\* register, still waiting: a new code replaces the old; one typed wrong too often is spent.
HoldPending(i) ==
    LET e == calls[i] IN
    /\ e.step = "read" /\ e.kind = "register" /\ e.saw.status = "PENDING"
    /\ IF e.saw.claim = e.card
       THEN Told(i, IF e.saw.wrong >= Attempts THEN "spent" ELSE "wait") /\ UNCHANGED device
       ELSE Told(i, "wait") /\ device' = [device EXCEPT !.claim = e.card, !.wrong = 0]
    /\ UNCHANGED <<signed, approving, ticketHoles>>

Serve(i) ==
    /\ \/ (ReadDevice(i) \/ Admit(i) \/ Renew(i) \/ RegisterNew(i) \/ HoldPending(i)) /\ UNCHANGED broker
       \/ RegisterAgain(i) \/ Collect(i)
    /\ UNCHANGED <<lapsed, revoked, nvs, needsTicket, wipe, drawn>>

\* approve(), one at a time: a code typed right is read and written in two steps, as the handler
\* has them; one typed wrong is counted in one, as every reader of the count asks only whether it
\* has come to the limit.
ApproveReads ==
    /\ ~approving /\ device.claim # 0 /\ device.wrong < Attempts
    /\ \/ approving' = TRUE /\ UNCHANGED device
       \/ device' = [device EXCEPT !.wrong = @ + 1] /\ UNCHANGED approving
    /\ UNCHANGED <<signed, lapsed, revoked, calls, kioskSide, ticketHoles>>

ApproveWrites ==
    /\ approving /\ approving' = FALSE
    /\ device' = [device EXCEPT !.status = "APPROVED", !.wrong = 0]
    /\ UNCHANGED <<signed, lapsed, revoked, calls, kioskSide, ticketHoles>>

\* revoke(): the ticket dies and the open session is closed; the claim stays as it is. It may
\* cross an approval, or a collection, that has read the row and writes it after.
Revoke ==
    /\ device.status \notin {"none", "REVOKED"}
    /\ device' = [device EXCEPT !.status = "REVOKED", !.token = 0, !.prev = 0]
    /\ revoked' = signed
    /\ broker' = IF broker = "open" THEN "dialling" ELSE broker
    /\ ticketHoles' = IF approving \/ \E i \in DOMAIN calls : calls[i].kind = "register" /\ calls[i].step = "read"
                      THEN ticketHoles \union {"crossed"} ELSE ticketHoles
    /\ UNCHANGED <<signed, lapsed, approving, calls, nvs, needsTicket, wipe, drawn>>

\* A ticket runs out, in months: nothing that was under way then is under way still.
Lapse ==
    /\ \A i \in DOMAIN calls : calls[i].kind = "none"
    /\ lapsed < signed /\ lapsed' = lapsed + 1
    /\ UNCHANGED <<serverSide, revoked, calls, kioskSide, ticketHoles>>

-----------------------------------------------------------------------------
(* The kiosk. ota_task makes one exchange at a time, with the broker link down.  *)

\* What is left of an exchange the kiosk no longer waits on; one is followed, at the most, in a
\* behaviour. A check and a dial do the same to the row, and nothing before the server has them.
Abandoned ==
    IF \/ calls.now.step \in {"idle"} \union Final \/ calls.late.step # "idle"
       \/ calls.now.step = "sent" /\ calls.now.kind \in {"check", "dial"}
    THEN calls.late
    ELSE [calls.now EXCEPT !.kind = IF @ = "check" THEN "dial" ELSE @]

Began(kind, card) ==
    calls' = [now |-> [NoCall EXCEPT !.kind = kind, !.card = card, !.step = "sent"],
              late |-> IF Abandoned.kind # "none" /\ kind \in {"register", "renew"}
                       THEN [Abandoned EXCEPT !.overtaken = TRUE] ELSE Abandoned]

\* net_task, with the network up: a kiosk without a login waits for ota_task to fetch one.
StartNet ==
    /\ broker = "off" /\ ~needsTicket /\ calls.now = NoCall
    /\ IF nvs.ticket = 0 THEN needsTicket' = TRUE /\ UNCHANGED broker
                         ELSE broker' = "dialling" /\ UNCHANGED needsTicket
    /\ UNCHANGED <<serverSide, lapsed, revoked, calls, nvs, wipe, drawn, ticketHoles>>

\* The client logs in with the ticket; the broker asks the api whether it stands.
Dial ==
    /\ broker = "dialling" /\ calls.now = NoCall /\ nvs.ticket # 0
    /\ Began("dial", nvs.ticket)
    /\ UNCHANGED <<serverSide, lapsed, revoked, kioskSide, ticketHoles>>

\* fetch_ticket: a code is drawn where flash has none, and shown.
AskToRegister ==
    /\ needsTicket /\ calls.now = NoCall
    /\ IF nvs.claim = 0 THEN drawn < MaxClaims /\ drawn' = drawn + 1 ELSE UNCHANGED drawn
    /\ nvs' = [nvs EXCEPT !.claim = IF @ = 0 THEN drawn + 1 ELSE @]
    /\ Began("register", nvs'.claim)
    /\ UNCHANGED <<serverSide, lapsed, revoked, needsTicket, broker, wipe, ticketHoles>>

\* recheck_ticket and probe_clock ask the api whether the ticket stands; a renewal is due, or
\* asked for. Each takes the broker link down first, and a dial with it.
AskWithTicket ==
    /\ ~needsTicket /\ nvs.ticket # 0 /\ calls.now.kind \in {"none", "dial"}
    /\ \E kind \in {"check", "renew"} : Began(kind, nvs.ticket)
    /\ broker' = "off"
    /\ UNCHANGED <<serverSide, lapsed, revoked, nvs, needsTicket, wipe, drawn, ticketHoles>>

\* The exchange fails or times out, its answer is lost, or the ticket it carries will not keep.
GiveUp ==
    /\ calls.now.kind \in {"register", "check", "renew"}
    /\ calls' = [now |-> NoCall, late |-> Abandoned]
    /\ broker' = IF calls.now.kind = "register" THEN broker ELSE "dialling"
    /\ UNCHANGED <<serverSide, lapsed, revoked, nvs, needsTicket, wipe, drawn, ticketHoles>>

\* The answer to a registration: the ticket is kept and the code erased.
HearRegister ==
    /\ calls.now.kind = "register" /\ calls.now.step \in Final
    /\ calls' = [calls EXCEPT !.now = NoCall]
    /\ LET said == calls.now.step IN
        \/ /\ said = "yes" /\ needsTicket' = FALSE /\ broker' = "dialling"
           /\ nvs' = [nvs EXCEPT !.ticket = calls.now.gift, !.claim = 0]
        \/ /\ said # "yes" /\ UNCHANGED <<needsTicket, broker>>
           /\ nvs' = IF said = "spent" THEN [nvs EXCEPT !.claim = 0] ELSE nvs
    /\ UNCHANGED <<serverSide, lapsed, revoked, wipe, drawn, ticketHoles>>

\* The answer to a dial, a check or a renewal that is not a refusal of the api's.
HearGood ==
    /\ calls.now.kind # "register" /\ calls.now.step \in {"yes", "no"}
    /\ calls.now.step = "no" => calls.now.kind = "dial"
    /\ calls' = [calls EXCEPT !.now = NoCall]
    /\ LET e == calls.now IN
        /\ broker' = IF e.kind = "dial" /\ e.step = "yes" THEN "open" ELSE "dialling"
        /\ nvs' = IF e.kind = "renew" THEN [nvs EXCEPT !.ticket = e.gift] ELSE nvs
    /\ UNCHANGED <<serverSide, lapsed, revoked, needsTicket, wipe, drawn, ticketHoles>>

\* The api refuses the ticket: it is forgotten, and the purge queued behind the pushes already
\* there (behind one half taken it finds nothing more to do). A full queue only says so.
TicketDied ==
    /\ calls.now.kind \in {"check", "renew"} /\ calls.now.step = "no"
    /\ calls' = [calls EXCEPT !.now = NoCall]
    /\ nvs' = [nvs EXCEPT !.ticket = 0, !.claim = 0]
    /\ needsTicket' = TRUE
    /\ \/ wipe' = (IF wipe = "saved" THEN wipe ELSE "queued") /\ UNCHANGED ticketHoles
       \/ ticketHoles' = ticketHoles \union {"unwiped"} /\ UNCHANGED wipe
    /\ UNCHANGED <<serverSide, lapsed, revoked, broker, drawn>>

\* Faulty form, for trying the properties: the emptied table is not saved.
Saved(file) == file

\* What the table's file holds after the purge.
Emptied(file) == [file EXCEPT !.faces = FALSE]

\* take_roster with the purge: the table is emptied in RAM and saved, or the save fails.
TakePurge ==
    /\ wipe = "queued"
    /\ \/ /\ nvs' = Emptied(nvs) /\ wipe' = "saved" /\ UNCHANGED ticketHoles
       \/ /\ wipe' = "none" /\ ticketHoles' = ticketHoles \union {"unwiped"} /\ UNCHANGED nvs
    /\ UNCHANGED <<serverSide, lapsed, revoked, calls, needsTicket, broker, drawn>>

\* ... and roster_ver follows the table, to 0.
VersionFollows ==
    /\ wipe = "saved" /\ wipe' = "none"
    /\ nvs' = [nvs EXCEPT !.versioned = FALSE]
    /\ UNCHANGED <<serverSide, lapsed, revoked, calls, needsTicket, broker, drawn, ticketHoles>>

\* A heartbeat that reports 0 is sent the roster: the table saved first, then its version.
TakeFaces ==
    /\ broker = "open" /\ wipe = "none" /\ ~nvs.versioned
    /\ nvs' = [nvs EXCEPT !.faces = TRUE, !.versioned = TRUE]
    /\ UNCHANGED <<serverSide, lapsed, revoked, calls, needsTicket, broker, wipe, drawn, ticketHoles>>

\* The kiosk starts again with what flash holds.
KioskRestarts ==
    /\ calls' = [now |-> NoCall, late |-> Abandoned]
    /\ needsTicket' = FALSE /\ broker' = "off"
    /\ wipe' = "none"
    /\ ticketHoles' = ticketHoles
         \union (IF wipe = "queued" THEN {"unwiped"} ELSE IF wipe = "saved" THEN {"claimed"} ELSE {})
    /\ UNCHANGED <<serverSide, lapsed, revoked, nvs, drawn>>

\* A behaviour is followed up to its first hole.
TicketNext ==
    /\ ticketHoles = {}
    /\ \/ \E i \in DOMAIN calls : Serve(i)
       \/ ApproveReads \/ ApproveWrites \/ Revoke \/ Lapse
       \/ StartNet \/ Dial \/ AskToRegister \/ AskWithTicket \/ GiveUp
       \/ HearRegister \/ HearGood \/ TicketDied
       \/ TakePurge \/ VersionFollows \/ TakeFaces \/ KioskRestarts

TicketSpec == TicketInit /\ [][TicketNext]_ticketVars

-----------------------------------------------------------------------------
(* Properties. *)

Tickets == 0..MaxTickets
Rows == [status : {"none", "PENDING", "APPROVED", "REVOKED"}, token : Tickets, prev : Tickets,
         claim : 0..MaxClaims, wrong : 0..Attempts]

\* What the row, the calls and the kiosk may hold.
TicketTypeOK ==
    /\ device \in Rows
    /\ \A i \in DOMAIN calls :
        /\ calls[i].saw \in Rows /\ calls[i].gift \in Tickets
        /\ calls[i].kind \in {"none", "register", "check", "renew", "dial"}
        /\ calls[i].step \in Final \union {"idle", "over", "sent", "read", "admitted", "held"}
    /\ signed \in Tickets /\ lapsed \in 0..signed /\ revoked \in 0..signed
    /\ nvs.ticket \in 0..signed /\ nvs.claim \in 0..drawn
    /\ broker \in {"off", "dialling", "open"} /\ wipe \in {"none", "queued", "saved"}
    /\ {approving, needsTicket, nvs.faces, nvs.versioned} \subseteq BOOLEAN
    /\ ticketHoles \subseteq {"late", "crossed", "unwiped", "claimed"}

\* A kiosk keeps a ticket that stands: the row's own or the one before it, whatever answers
\* were lost, until it runs out or a person puts the machine out.
KeptTicketStands ==
    nvs.ticket > lapsed /\ nvs.ticket > revoked =>
        device.status = "APPROVED" /\ nvs.ticket \in {device.token, device.prev}

\* A machine approved and without a ticket has a code to collect one by.
ApprovedMayCollect == device.status = "APPROVED" => device.token # 0 \/ device.claim # 0

\* Once let in a kiosk stays in, and one approved can come in. Two things break it and nothing
\* else: an exchange the kiosk had given up on, written after a later one, and a revoke that
\* crosses an approval or a collection.
StaysLetIn == ticketHoles \intersect {"late", "crossed"} = {} => KeptTicketStands /\ ApprovedMayCollect

\* The faces go with a dead ticket, and the version with the faces, or the server would never
\* send them again. The first fails where the purge is lost (power, a full queue, a save that
\* fails), the second where the power goes between the table's save and its version.
FacesFollowTicket ==
    /\ nvs.ticket = 0 /\ nvs.faces => wipe = "queued" \/ "unwiped" \in ticketHoles
    /\ nvs.versioned /\ ~nvs.faces => wipe = "saved" \/ "claimed" \in ticketHoles
=============================================================================
