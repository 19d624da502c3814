------------------------------ MODULE NetMqtt -------------------------------
(***************************************************************************)
(* The kiosk's broker link, shared by three tasks.  sync_task publishes and *)
(* waits for the PUBACK under s_send_lock; the esp-mqtt task runs the       *)
(* client's events; ota_task tears the client down before an HTTPS exchange *)
(* and dials again after it.  The stopper wakes a waiting sender through    *)
(* the very semaphore a PUBACK gives, so a wake has to be told from an ack. *)
(***************************************************************************)
EXTENDS Naturals

CONSTANTS
    MaxMessages, \* bound: messages handed to the client
    MaxDrops,    \* bound: links lost
    MaxClients   \* bound: times the client is started

ASSUME NetAssumption == MaxMessages \in Nat /\ MaxDrops \in Nat /\ MaxClients \in Nat

VARIABLES
    client,   \* s_link.client is there
    up,       \* s_link.up
    stopping, \* s_link.stopping
    awaited,  \* s_link.awaited_msg, 0 for none
    acked,    \* the binary semaphore s_acked
    lock,     \* who holds s_send_lock
    sender,   \* where net_mqtt_publish stands, and the id of its message
    esp,      \* where the esp-mqtt task's handler stands
    stopper,  \* where net_mqtt_stop stands
    told,     \* what on_state said last: the punches are stamped by it
    outbox,   \* QoS 1 messages the client still owes a PUBACK
    pubacked, \* history: messages the broker acknowledged
    answered, \* history: messages net_mqtt_publish answered ESP_OK for
    stuck,    \* history: messages whose write outlasted STOP_LOCK_WAIT_MS
    crossed,  \* history: the client's last stop came while on_connected was
              \* between reading stopping and telling
    sent, drops, started

link == <<client, up, stopping, awaited>>
history == <<pubacked, answered, stuck, crossed>>
budget == <<sent, drops, started>>
vars == <<link, acked, lock, sender, esp, stopper, told, outbox, history, budget>>

Messages == 1 .. MaxMessages

(* The id in hand is that of a message written, and only it is waited for.       *)
TypeOK ==
    /\ client \in BOOLEAN /\ up \in BOOLEAN /\ stopping \in BOOLEAN
    /\ acked \in BOOLEAN /\ told \in BOOLEAN /\ crossed \in BOOLEAN
    /\ awaited \in 0 .. MaxMessages
    /\ lock \in {"free", "sender", "stopper"}
    /\ sender \in [at : {"idle", "want", "check", "publishing", "written", "waiting", "woken"},
                   id : 0 .. MaxMessages]
    /\ esp \in {"idle", "connected", "telling up", "telling down"}
    /\ stopper \in {"idle", "tell", "wake", "take", "resume", "teardown"}
    /\ sender.id # 0 <=> sender.at \in {"written", "waiting", "woken"}
    /\ awaited # 0 => sender.at = "waiting" /\ sender.id = awaited
    /\ outbox \subseteq Messages /\ pubacked \subseteq Messages
    /\ answered \subseteq Messages /\ stuck \subseteq Messages
    /\ sent \in 0 .. MaxMessages /\ drops \in 0 .. MaxDrops /\ started \in 0 .. MaxClients

Init ==
    /\ client = FALSE /\ up = FALSE /\ stopping = FALSE /\ acked = FALSE /\ told = FALSE
    /\ awaited = 0 /\ lock = "free"
    /\ sender = [at |-> "idle", id |-> 0]
    /\ esp = "idle" /\ stopper = "idle"
    /\ outbox = {} /\ pubacked = {} /\ answered = {} /\ stuck = {} /\ crossed = FALSE
    /\ sent = 0 /\ drops = 0 /\ started = 0

SenderAt(place) == sender.at = place
Goes(place) == sender' = [sender EXCEPT !.at = place]
IsUp == up /\ ~stopping

-----------------------------------------------------------------------------
(* net_mqtt_publish, on sync_task                                          *)

Publish ==
    /\ SenderAt("idle") /\ IsUp /\ sent < MaxMessages
    /\ Goes("want")
    /\ UNCHANGED <<link, acked, lock, esp, stopper, told, outbox, history, budget>>

TakeSendLock ==
    /\ SenderAt("want") /\ lock = "free"
    /\ lock' = "sender"
    /\ Goes("check")
    /\ UNCHANGED <<link, acked, esp, stopper, told, outbox, history, budget>>

\* LOCK_WAIT_MS is over: the lock stayed with the stopper.
SendLockTimeout ==
    /\ SenderAt("want") /\ lock # "free"
    /\ Goes("idle")
    /\ UNCHANGED <<link, acked, lock, esp, stopper, told, outbox, history, budget>>

\* Faulty form, for trying the properties: the lock stays taken once answered.
LeaveLocked ==
    /\ lock' = IF SenderAt("woken") /\ stopping THEN lock ELSE "free"
    /\ sender' = [at |-> "idle", id |-> 0]

\* net_mqtt_publish gives the lock on every path.
Leave ==
    /\ lock' = "free"
    /\ sender' = [at |-> "idle", id |-> 0]

\* send_locked looks at the client again: it was another one before the lock.
CheckClient ==
    /\ SenderAt("check")
    /\ IF client /\ IsUp
       THEN /\ acked' = FALSE /\ awaited' = 0
            /\ Goes("publishing")
            /\ UNCHANGED lock
       ELSE Leave /\ UNCHANGED <<acked, awaited>>
    /\ UNCHANGED <<client, up, stopping, esp, stopper, told, outbox, history, budget>>

\* esp_mqtt_client_publish: the message is in the client's outbox and on the wire.
WriteMessage ==
    /\ SenderAt("publishing") /\ sent < MaxMessages
    /\ sent' = sent + 1
    /\ outbox' = outbox \cup {sent'}
    /\ sender' = [at |-> "written", id |-> sent']
    /\ UNCHANGED <<link, acked, lock, esp, stopper, told, history, drops, started>>

\* A refused publish, or one at QoS 0, has nothing to wait for.
WriteFails ==
    /\ SenderAt("publishing")
    /\ Leave
    /\ UNCHANGED <<link, acked, esp, stopper, told, outbox, history, budget>>

AwaitAck ==
    /\ SenderAt("written")
    /\ awaited' = sender.id
    /\ Goes("waiting")
    /\ UNCHANGED <<client, up, stopping, acked, lock, esp, stopper, told, outbox, history, budget>>

Woken ==
    /\ SenderAt("waiting") /\ acked
    /\ acked' = FALSE /\ awaited' = 0
    /\ Goes("woken")
    /\ UNCHANGED <<client, up, stopping, lock, esp, stopper, told, outbox, history, budget>>

AckTimeout ==
    /\ SenderAt("waiting") /\ ~acked
    /\ awaited' = 0
    /\ Leave
    /\ UNCHANGED <<client, up, stopping, acked, esp, stopper, told, outbox, history, budget>>

\* Faulty form, for trying the properties: any wake is an ack.
AnswerAnyWake ==
    /\ SenderAt("woken")
    /\ answered' = answered \cup {sender.id}
    /\ Leave
    /\ UNCHANGED <<link, acked, esp, stopper, told, outbox, pubacked, stuck, crossed, budget>>

Answer ==
    /\ SenderAt("woken")
    /\ answered' = IF stopping THEN answered ELSE answered \cup {sender.id}
    /\ Leave
    /\ UNCHANGED <<link, acked, esp, stopper, told, outbox, pubacked, stuck, crossed, budget>>

Sender ==
    \/ Publish \/ TakeSendLock \/ SendLockTimeout \/ CheckClient \/ WriteMessage
    \/ WriteFails \/ AwaitAck \/ Woken \/ AckTimeout \/ Answer

-----------------------------------------------------------------------------
(* on_event, on the esp-mqtt task: one handler at a time                   *)

Connected ==
    /\ esp = "idle" /\ client /\ ~up
    /\ up' = TRUE
    /\ esp' = "connected"
    /\ UNCHANGED <<client, stopping, awaited, acked, lock, sender, stopper, told, outbox,
                   history, budget>>

\* Faulty form, for trying the properties: the link is told up whatever stop is doing.
TellUnread ==
    /\ esp = "connected"
    /\ esp' = "telling up"
    /\ UNCHANGED <<link, acked, lock, sender, stopper, told, outbox, history, budget>>

\* on_connected reads stopping before it calls tell_state.
ReadStopping ==
    /\ esp = "connected"
    /\ esp' = IF stopping THEN "idle" ELSE "telling up"
    /\ UNCHANGED <<link, acked, lock, sender, stopper, told, outbox, history, budget>>

Disconnected ==
    /\ esp = "idle" /\ client /\ up /\ drops < MaxDrops
    /\ drops' = drops + 1
    /\ up' = FALSE
    /\ esp' = "telling down"
    /\ UNCHANGED <<client, stopping, awaited, acked, lock, sender, stopper, told, outbox,
                   history, sent, started>>

TellState ==
    /\ esp \in {"telling up", "telling down"}
    /\ told' = (esp = "telling up")
    /\ esp' = "idle"
    /\ UNCHANGED <<link, acked, lock, sender, stopper, outbox, history, budget>>

\* on_published: only the message waited for gives the semaphore.
Published(id) ==
    /\ esp = "idle" /\ client /\ up /\ id \in outbox
    /\ outbox' = outbox \ {id}
    /\ pubacked' = pubacked \cup {id}
    /\ acked' = (acked \/ id = awaited)
    /\ UNCHANGED <<link, lock, sender, esp, stopper, told, answered, stuck, crossed, budget>>

Esp == Connected \/ ReadStopping \/ Disconnected \/ TellState \/ \E id \in Messages : Published(id)

-----------------------------------------------------------------------------
(* net_mqtt_start and net_mqtt_stop, on ota_task                           *)

Start ==
    /\ stopper = "idle" /\ ~client /\ started < MaxClients
    /\ started' = started + 1
    /\ client' = TRUE
    /\ crossed' = FALSE
    /\ UNCHANGED <<up, stopping, awaited, acked, lock, sender, esp, stopper, told, outbox,
                   pubacked, answered, stuck, sent, drops>>

Stop ==
    /\ stopper = "idle" /\ client
    /\ stopping' = TRUE
    /\ stopper' = "tell"
    /\ crossed' = (esp = "telling up")
    /\ UNCHANGED <<client, up, awaited, acked, lock, sender, esp, told, outbox,
                   pubacked, answered, stuck, budget>>

TellDown ==
    /\ stopper = "tell"
    /\ told' = FALSE
    /\ stopper' = "wake"
    /\ UNCHANGED <<link, acked, lock, sender, esp, outbox, history, budget>>

\* take_lock_from_waiter gives the semaphore, then waits STOP_WAKE_MS for the lock.
WakeSender ==
    /\ stopper = "wake"
    /\ acked' = TRUE
    /\ stopper' = "take"
    /\ UNCHANGED <<link, lock, sender, esp, told, outbox, history, budget>>

\* Faulty form, for trying the properties: the teardown does not wait for the sender.
TakeNoLock ==
    /\ stopper = "take"
    /\ stopper' = "teardown"
    /\ UNCHANGED <<link, acked, lock, sender, esp, told, outbox, history, budget>>

TakeLock ==
    /\ stopper = "take"
    /\ IF lock = "free"
       THEN lock' = "stopper" /\ stopper' = "teardown"
       ELSE stopper' = "wake" /\ UNCHANGED lock
    /\ UNCHANGED <<link, acked, sender, esp, told, outbox, history, budget>>

\* STOP_LOCK_WAIT_MS is over.  A sender in the wait was woken, so it is in the write.
GiveUp ==
    /\ stopper = "wake" /\ SenderAt("publishing")
    /\ stopping' = FALSE
    /\ stopper' = "resume"
    /\ stuck' = stuck \cup {sent + 1}
    /\ UNCHANGED <<client, up, awaited, acked, lock, sender, esp, told, outbox,
                   pubacked, answered, crossed, budget>>

Resume ==
    /\ stopper = "resume"
    /\ told' = up
    /\ stopper' = "idle"
    /\ UNCHANGED <<link, acked, lock, sender, esp, outbox, history, budget>>

\* esp_mqtt_client_stop waits for the handler in hand, then nothing of the client is left.
TearDown ==
    /\ stopper = "teardown" /\ esp = "idle"
    /\ client' = FALSE /\ up' = FALSE /\ stopping' = FALSE /\ awaited' = 0
    /\ acked' = FALSE
    /\ outbox' = {}
    /\ lock' = "free"
    /\ stopper' = "idle"
    /\ UNCHANGED <<sender, esp, told, history, budget>>

Stopper == Start \/ Stop \/ TellDown \/ WakeSender \/ TakeLock \/ GiveUp \/ Resume \/ TearDown

Next == Sender \/ Esp \/ Stopper

\* A started call goes on: the tasks are scheduled, a write returns within the
\* network timeout and a wait has an end.  No event and no call has to come.
Fairness ==
    /\ WF_vars(TakeSendLock \/ SendLockTimeout \/ CheckClient \/ WriteMessage \/ WriteFails
               \/ AwaitAck \/ Woken \/ AckTimeout \/ Answer)
    /\ WF_vars(ReadStopping \/ TellState)
    /\ WF_vars(TellDown \/ WakeSender \/ TakeLock \/ Resume \/ TearDown)

Spec == Init /\ [][Next]_vars /\ Fairness

-----------------------------------------------------------------------------
\* ESP_OK is the proof uplink and drain_reports delete a record on: the broker
\* had acknowledged that very message, whoever woke the sender (send_locked).
\* One message may be answered on a stop's wake: the one whose write was stuck
\* when that stop gave up, because giving up takes stopping back.
OkMeansAcked == answered \ stuck \subseteq pubacked

\* The client a sender writes to or waits on is never torn down under it
\* (net_mqtt_stop, send_locked: the lock is what stands between them).
ClientOutlivesSender ==
    sender.at \in {"publishing", "written", "waiting"} => client /\ lock = "sender"

\* A stop that began ends, however busy the sender: ota_task must not hang
\* behind a link it wants to drop (take_lock_from_waiter).
StopEnds == (stopper = "tell") ~> (stopper = "idle")

\* From a stop on, punches are stamped offline until a client is up again, unless
\* on_connected had already read stopping when the stop began (net_mqtt_stop, tell_state).
StampedOfflineOnceStopped == ~client /\ stopper = "idle" /\ ~crossed => ~told
=============================================================================
