----------------------------- MODULE Kiosk_proofs -----------------------------
(***************************************************************************)
(* What the kiosk's link and its door promise, for any number of messages,  *)
(* lost links, clients, people and verdicts.  None of the link's properties *)
(* is inductive: each says what an answer or a teardown may rest on, and    *)
(* the strengthening says who holds the lock, what a wake in the semaphore  *)
(* stands for, and what the handlers may still say of a link that is being  *)
(* stopped.  The door's says which timer or callback is left to lower it.   *)
(* The clock's says where each of its two setters stands, what the chip and *)
(* its marker may say meanwhile, and what that leaves a stamp to rest on.   *)
(***************************************************************************)
EXTENDS MCKiosk, MCSyncTask, SequenceTheorems, TLAPS

-----------------------------------------------------------------------------
(* NET MQTT: a client that outlives its sender, and an ok that was acked.    *)
-----------------------------------------------------------------------------
(* The parts of the type invariant.                                            *)

Places ==
    /\ client \in BOOLEAN /\ up \in BOOLEAN /\ stopping \in BOOLEAN
    /\ acked \in BOOLEAN /\ told \in BOOLEAN /\ crossed \in BOOLEAN
    /\ lock \in {"free", "sender", "stopper"}
    /\ esp \in {"idle", "connected", "telling up", "telling down"}
    /\ stopper \in {"idle", "tell", "wake", "take", "resume", "teardown"}

Sending ==
    /\ awaited \in 0 .. MaxMessages
    /\ sender \in [at : {"idle", "want", "check", "publishing", "written", "waiting", "woken"},
                   id : 0 .. MaxMessages]
    /\ sender.id # 0 <=> sender.at \in {"written", "waiting", "woken"}
    /\ awaited # 0 => sender.at = "waiting" /\ sender.id = awaited

Counts == sent \in 0 .. MaxMessages /\ drops \in 0 .. MaxDrops /\ started \in 0 .. MaxClients

Books ==
    /\ outbox \subseteq Messages /\ pubacked \subseteq Messages
    /\ answered \subseteq Messages /\ stuck \subseteq Messages

-----------------------------------------------------------------------------
(* The strengthening.                                                          *)

\* s_send_lock is held by exactly the steps of the two calls that took it, and
\* a message still to be written has a number.
Locks ==
    /\ (lock = "sender") <=> (sender.at \in {"check", "publishing", "written", "waiting", "woken"})
    /\ (lock = "stopper") <=> (stopper = "teardown")
    /\ sender.at \in {"publishing", "written", "waiting"} => client
    /\ sender.at \in {"want", "check", "publishing"} => sent < MaxMessages

\* A stop is under way from its first statement to the teardown or to giving up,
\* and there is a client all the while.
Stops ==
    /\ stopping <=> (stopper \in {"tell", "wake", "take", "teardown"})
    /\ stopper # "idle" => client

InHand == IF SenderAt("publishing") THEN sent + 1 ELSE sender.id

\* A semaphore given since the sender emptied it was given by the ack of its message,
\* by a stop that is still under way, or by one that gave up while it wrote.
Wakes ==
    sender.at \in {"publishing", "written", "waiting", "woken"} /\ (acked \/ SenderAt("woken")) =>
        stopping \/ InHand \in stuck \union pubacked

\* Between stop and start nobody tells the link up who had not begun to before.
Offline ==
    /\ ~client => esp = "idle"
    /\ stopping /\ ~crossed => esp # "telling up"
    /\ stopper \in {"wake", "take", "teardown"} /\ ~crossed => ~told
    /\ ~client /\ ~crossed => ~told

LinkIInv == Places /\ Sending /\ Counts /\ Books /\ Locks /\ Stops /\ Wakes /\ OkMeansAcked /\ Offline

-----------------------------------------------------------------------------
(* The link starts well. *)
LEMMA InitIInv == Init => LinkIInv
<1> SUFFICES ASSUME Init PROVE LinkIInv
  OBVIOUS
<1> USE DEF Init
<1>1. Places
  BY DEF Places
<1>2. Sending /\ Counts /\ Books
  BY NetAssumption DEF Sending, Counts, Books
<1>3. Locks /\ Stops /\ Wakes
  BY DEF Locks, Stops, Wakes
<1>4. OkMeansAcked /\ Offline
  BY DEF OkMeansAcked, Offline
<1> QED BY <1>1, <1>2, <1>3, <1>4 DEF LinkIInv

(* Flags and places keep to theirs. *)
LEMMA PlacesKept == Places /\ [Next]_vars => Places'
<1> SUFFICES ASSUME Places, [Next]_vars PROVE Places'
  OBVIOUS
<1>1. CASE Publish
  BY <1>1 DEF Publish, Goes, SenderAt, Places, link, history, budget
<1>2. CASE TakeSendLock
  BY <1>2 DEF TakeSendLock, Goes, SenderAt, Places, link, history, budget
<1>3. CASE SendLockTimeout
  BY <1>3 DEF SendLockTimeout, Goes, SenderAt, Places, link, history, budget
<1>4. CASE CheckClient
  <2>1. CASE client /\ IsUp
    BY <1>4, <2>1 DEF CheckClient, Leave, Goes, SenderAt, Places, link, history, budget
  <2>2. CASE ~(client /\ IsUp)
    BY <1>4, <2>2 DEF CheckClient, Leave, Goes, SenderAt, Places, link, history, budget
  <2> QED BY <2>1, <2>2
<1>5. CASE WriteMessage
  BY <1>5 DEF WriteMessage, SenderAt, Places, link, history, budget
<1>6. CASE WriteFails
  BY <1>6 DEF WriteFails, Leave, SenderAt, Places, link, history, budget
<1>7. CASE AwaitAck
  BY <1>7 DEF AwaitAck, Goes, SenderAt, Places, link, history, budget
<1>8. CASE Woken
  BY <1>8 DEF Woken, Goes, SenderAt, Places, link, history, budget
<1>9. CASE AckTimeout
  BY <1>9 DEF AckTimeout, Leave, SenderAt, Places, link, history, budget
<1>10. CASE Answer
  BY <1>10 DEF Answer, Leave, SenderAt, Places, link, history, budget
<1>11. CASE Connected
  BY <1>11 DEF Connected, Places, link, history, budget
<1>12. CASE ReadStopping
  BY <1>12 DEF ReadStopping, Places, link, history, budget
<1>13. CASE Disconnected
  BY <1>13 DEF Disconnected, Places, link, history, budget
<1>14. CASE TellState
  BY <1>14 DEF TellState, Places, link, history, budget
<1>15. CASE Start
  BY <1>15 DEF Start, Places, link, history, budget
<1>16. CASE Stop
  BY <1>16 DEF Stop, Places, link, history, budget
<1>17. CASE TellDown
  BY <1>17 DEF TellDown, Places, link, history, budget
<1>18. CASE WakeSender
  BY <1>18 DEF WakeSender, Places, link, history, budget
<1>19. CASE TakeLock
  BY <1>19 DEF TakeLock, Places, link, history, budget
<1>20. CASE GiveUp
  BY <1>20 DEF GiveUp, SenderAt, Places, link, history, budget
<1>21. CASE Resume
  BY <1>21 DEF Resume, Places, link, history, budget
<1>22. CASE TearDown
  BY <1>22 DEF TearDown, Places, link, history, budget
<1>23. CASE \E id \in Messages : Published(id)
  BY <1>23 DEF Published, Places, link, history, budget
<1>24. CASE UNCHANGED vars
  BY <1>24 DEF vars, Places, link, history, budget
<1> QED BY <1>1, <1>2, <1>3, <1>4, <1>5, <1>6, <1>7, <1>8, <1>9, <1>10, <1>11, <1>12,
    <1>13, <1>14, <1>15, <1>16, <1>17, <1>18, <1>19, <1>20, <1>21, <1>22, <1>23, <1>24
    DEF Next, Sender, Esp, Stopper

(* The id in hand is that of a written message, and only it is awaited. *)
LEMMA SendingKept == Sending /\ Counts /\ Locks /\ [Next]_vars => Sending'
<1> SUFFICES ASSUME Sending, Counts, Locks, [Next]_vars PROVE Sending'
  OBVIOUS
<1> USE NetAssumption
<1>1. CASE Publish
  BY <1>1 DEF Publish, Goes, SenderAt, Sending, Counts, Locks, link, history, budget
<1>2. CASE TakeSendLock
  BY <1>2 DEF TakeSendLock, Goes, SenderAt, Sending, Counts, Locks, link, history, budget
<1>3. CASE SendLockTimeout
  BY <1>3 DEF SendLockTimeout, Goes, SenderAt, Sending, Counts, Locks, link, history, budget
<1>4. CASE CheckClient
  <2>1. CASE client /\ IsUp
    BY <1>4, <2>1 DEF CheckClient, Leave, Goes, SenderAt, Sending, Counts, Locks, link,
        history, budget
  <2>2. CASE ~(client /\ IsUp)
    BY <1>4, <2>2 DEF CheckClient, Leave, Goes, SenderAt, Sending, Counts, Locks, link,
        history, budget
  <2> QED BY <2>1, <2>2
<1>5. CASE WriteMessage
  BY <1>5 DEF WriteMessage, SenderAt, Sending, Counts, Locks, link, history, budget
<1>6. CASE WriteFails
  BY <1>6 DEF WriteFails, Leave, SenderAt, Sending, Counts, Locks, link, history, budget
<1>7. CASE AwaitAck
  BY <1>7 DEF AwaitAck, Goes, SenderAt, Sending, Counts, Locks, link, history, budget
<1>8. CASE Woken
  BY <1>8 DEF Woken, Goes, SenderAt, Sending, Counts, Locks, link, history, budget
<1>9. CASE AckTimeout
  BY <1>9 DEF AckTimeout, Leave, SenderAt, Sending, Counts, Locks, link, history, budget
<1>10. CASE Answer
  BY <1>10 DEF Answer, Leave, SenderAt, Sending, Counts, Locks, link, history, budget
<1>11. CASE Connected
  BY <1>11 DEF Connected, Sending, Counts, Locks, link, history, budget
<1>12. CASE ReadStopping
  BY <1>12 DEF ReadStopping, Sending, Counts, Locks, link, history, budget
<1>13. CASE Disconnected
  BY <1>13 DEF Disconnected, Sending, Counts, Locks, link, history, budget
<1>14. CASE TellState
  BY <1>14 DEF TellState, Sending, Counts, Locks, link, history, budget
<1>15. CASE Start
  BY <1>15 DEF Start, Sending, Counts, Locks, link, history, budget
<1>16. CASE Stop
  BY <1>16 DEF Stop, Sending, Counts, Locks, link, history, budget
<1>17. CASE TellDown
  BY <1>17 DEF TellDown, Sending, Counts, Locks, link, history, budget
<1>18. CASE WakeSender
  BY <1>18 DEF WakeSender, Sending, Counts, Locks, link, history, budget
<1>19. CASE TakeLock
  BY <1>19 DEF TakeLock, Sending, Counts, Locks, link, history, budget
<1>20. CASE GiveUp
  BY <1>20 DEF GiveUp, SenderAt, Sending, Counts, Locks, link, history, budget
<1>21. CASE Resume
  BY <1>21 DEF Resume, Sending, Counts, Locks, link, history, budget
<1>22. CASE TearDown
  BY <1>22 DEF TearDown, Sending, Counts, Locks, link, history, budget
<1>23. CASE \E id \in Messages : Published(id)
  BY <1>23 DEF Published, Sending, Counts, Locks, link, history, budget
<1>24. CASE UNCHANGED vars
  BY <1>24 DEF vars, Sending, Counts, Locks, link, history, budget
<1> QED BY <1>1, <1>2, <1>3, <1>4, <1>5, <1>6, <1>7, <1>8, <1>9, <1>10, <1>11, <1>12,
    <1>13, <1>14, <1>15, <1>16, <1>17, <1>18, <1>19, <1>20, <1>21, <1>22, <1>23, <1>24
    DEF Next, Sender, Esp, Stopper

(* The bounds hold: only a message that still has a number is written. *)
LEMMA CountsKept == Counts /\ [Next]_vars => Counts'
<1> SUFFICES ASSUME Counts, [Next]_vars PROVE Counts'
  OBVIOUS
<1> USE NetAssumption
<1>1. CASE Publish
  BY <1>1 DEF Publish, Goes, SenderAt, Counts, link, history, budget
<1>2. CASE TakeSendLock
  BY <1>2 DEF TakeSendLock, Goes, SenderAt, Counts, link, history, budget
<1>3. CASE SendLockTimeout
  BY <1>3 DEF SendLockTimeout, Goes, SenderAt, Counts, link, history, budget
<1>4. CASE CheckClient
  <2>1. CASE client /\ IsUp
    BY <1>4, <2>1 DEF CheckClient, Leave, Goes, SenderAt, Counts, link, history, budget
  <2>2. CASE ~(client /\ IsUp)
    BY <1>4, <2>2 DEF CheckClient, Leave, Goes, SenderAt, Counts, link, history, budget
  <2> QED BY <2>1, <2>2
<1>5. CASE WriteMessage
  BY <1>5 DEF WriteMessage, SenderAt, Counts, link, history, budget
<1>6. CASE WriteFails
  BY <1>6 DEF WriteFails, Leave, SenderAt, Counts, link, history, budget
<1>7. CASE AwaitAck
  BY <1>7 DEF AwaitAck, Goes, SenderAt, Counts, link, history, budget
<1>8. CASE Woken
  BY <1>8 DEF Woken, Goes, SenderAt, Counts, link, history, budget
<1>9. CASE AckTimeout
  BY <1>9 DEF AckTimeout, Leave, SenderAt, Counts, link, history, budget
<1>10. CASE Answer
  BY <1>10 DEF Answer, Leave, SenderAt, Counts, link, history, budget
<1>11. CASE Connected
  BY <1>11 DEF Connected, Counts, link, history, budget
<1>12. CASE ReadStopping
  BY <1>12 DEF ReadStopping, Counts, link, history, budget
<1>13. CASE Disconnected
  <2>1. drops < MaxDrops /\ drops' = drops + 1
    BY <1>13 DEF Disconnected
  <2>2. drops' \in 0 .. MaxDrops
    BY <2>1 DEF Counts
  <2> QED BY <1>13, <2>2 DEF Disconnected, Counts, link, history, budget
<1>14. CASE TellState
  BY <1>14 DEF TellState, Counts, link, history, budget
<1>15. CASE Start
  BY <1>15 DEF Start, Counts, link, history, budget
<1>16. CASE Stop
  BY <1>16 DEF Stop, Counts, link, history, budget
<1>17. CASE TellDown
  BY <1>17 DEF TellDown, Counts, link, history, budget
<1>18. CASE WakeSender
  BY <1>18 DEF WakeSender, Counts, link, history, budget
<1>19. CASE TakeLock
  BY <1>19 DEF TakeLock, Counts, link, history, budget
<1>20. CASE GiveUp
  BY <1>20 DEF GiveUp, SenderAt, Counts, link, history, budget
<1>21. CASE Resume
  BY <1>21 DEF Resume, Counts, link, history, budget
<1>22. CASE TearDown
  BY <1>22 DEF TearDown, Counts, link, history, budget
<1>23. CASE \E id \in Messages : Published(id)
  BY <1>23 DEF Published, Counts, link, history, budget
<1>24. CASE UNCHANGED vars
  BY <1>24 DEF vars, Counts, link, history, budget
<1> QED BY <1>1, <1>2, <1>3, <1>4, <1>5, <1>6, <1>7, <1>8, <1>9, <1>10, <1>11, <1>12,
    <1>13, <1>14, <1>15, <1>16, <1>17, <1>18, <1>19, <1>20, <1>21, <1>22, <1>23, <1>24
    DEF Next, Sender, Esp, Stopper

(* The outbox and the histories name messages. *)
LEMMA BooksKept == Books /\ Sending /\ Counts /\ Locks /\ [Next]_vars => Books'
<1> SUFFICES ASSUME Books, Sending, Counts, Locks, [Next]_vars PROVE Books'
  OBVIOUS
<1> USE NetAssumption
<1>1. CASE Publish
  BY <1>1 DEF Publish, Goes, SenderAt, Books, Sending, Counts, Locks, Messages, link,
      history, budget
<1>2. CASE TakeSendLock
  BY <1>2 DEF TakeSendLock, Goes, SenderAt, Books, Sending, Counts, Locks, Messages, link,
      history, budget
<1>3. CASE SendLockTimeout
  BY <1>3 DEF SendLockTimeout, Goes, SenderAt, Books, Sending, Counts, Locks, Messages,
      link, history, budget
<1>4. CASE CheckClient
  <2>1. CASE client /\ IsUp
    BY <1>4, <2>1 DEF CheckClient, Leave, Goes, SenderAt, Books, Sending, Counts, Locks,
        Messages, link, history, budget
  <2>2. CASE ~(client /\ IsUp)
    BY <1>4, <2>2 DEF CheckClient, Leave, Goes, SenderAt, Books, Sending, Counts, Locks,
        Messages, link, history, budget
  <2> QED BY <2>1, <2>2
<1>5. CASE WriteMessage
  BY <1>5 DEF WriteMessage, SenderAt, Books, Sending, Counts, Locks, Messages, link,
      history, budget
<1>6. CASE WriteFails
  BY <1>6 DEF WriteFails, Leave, SenderAt, Books, Sending, Counts, Locks, Messages, link,
      history, budget
<1>7. CASE AwaitAck
  BY <1>7 DEF AwaitAck, Goes, SenderAt, Books, Sending, Counts, Locks, Messages, link,
      history, budget
<1>8. CASE Woken
  BY <1>8 DEF Woken, Goes, SenderAt, Books, Sending, Counts, Locks, Messages, link,
      history, budget
<1>9. CASE AckTimeout
  BY <1>9 DEF AckTimeout, Leave, SenderAt, Books, Sending, Counts, Locks, Messages, link,
      history, budget
<1>10. CASE Answer
  <2>1. sender.id \in Messages
    BY <1>10 DEF Answer, SenderAt, Sending, Messages
  <2> QED BY <1>10, <2>1 DEF Answer, Books, link, history, budget
<1>11. CASE Connected
  BY <1>11 DEF Connected, Books, Sending, Counts, Locks, Messages, link, history, budget
<1>12. CASE ReadStopping
  BY <1>12 DEF ReadStopping, Books, Sending, Counts, Locks, Messages, link, history, budget
<1>13. CASE Disconnected
  BY <1>13 DEF Disconnected, Books, Sending, Counts, Locks, Messages, link, history, budget
<1>14. CASE TellState
  BY <1>14 DEF TellState, Books, Sending, Counts, Locks, Messages, link, history, budget
<1>15. CASE Start
  BY <1>15 DEF Start, Books, Sending, Counts, Locks, Messages, link, history, budget
<1>16. CASE Stop
  BY <1>16 DEF Stop, Books, Sending, Counts, Locks, Messages, link, history, budget
<1>17. CASE TellDown
  BY <1>17 DEF TellDown, Books, Sending, Counts, Locks, Messages, link, history, budget
<1>18. CASE WakeSender
  BY <1>18 DEF WakeSender, Books, Sending, Counts, Locks, Messages, link, history, budget
<1>19. CASE TakeLock
  BY <1>19 DEF TakeLock, Books, Sending, Counts, Locks, Messages, link, history, budget
<1>20. CASE GiveUp
  BY <1>20 DEF GiveUp, SenderAt, Books, Sending, Counts, Locks, Messages, link, history,
      budget
<1>21. CASE Resume
  BY <1>21 DEF Resume, Books, Sending, Counts, Locks, Messages, link, history, budget
<1>22. CASE TearDown
  BY <1>22 DEF TearDown, Books, Sending, Counts, Locks, Messages, link, history, budget
<1>23. CASE \E id \in Messages : Published(id)
  BY <1>23 DEF Published, Books, Sending, Counts, Locks, Messages, link, history, budget
<1>24. CASE UNCHANGED vars
  BY <1>24 DEF vars, Books, Sending, Counts, Locks, Messages, link, history, budget
<1> QED BY <1>1, <1>2, <1>3, <1>4, <1>5, <1>6, <1>7, <1>8, <1>9, <1>10, <1>11, <1>12,
    <1>13, <1>14, <1>15, <1>16, <1>17, <1>18, <1>19, <1>20, <1>21, <1>22, <1>23, <1>24
    DEF Next, Sender, Esp, Stopper

(* The lock stays with the call that took it, and the client with the lock. *)
LEMMA LocksKept == Sending /\ Counts /\ Locks /\ Stops /\ [Next]_vars => Locks'
<1> SUFFICES ASSUME Sending, Counts, Locks, Stops, [Next]_vars PROVE Locks'
  OBVIOUS
<1> USE NetAssumption
<1>1. CASE Publish
  BY <1>1 DEF Publish, Goes, SenderAt, Sending, Counts, Locks, Stops, link, history, budget
<1>2. CASE TakeSendLock
  BY <1>2 DEF TakeSendLock, Goes, SenderAt, Sending, Counts, Locks, Stops, link, history,
      budget
<1>3. CASE SendLockTimeout
  BY <1>3 DEF SendLockTimeout, Goes, SenderAt, Sending, Counts, Locks, Stops, link,
      history, budget
<1>4. CASE CheckClient
  <2>1. CASE client /\ IsUp
    BY <1>4, <2>1 DEF CheckClient, Leave, Goes, SenderAt, Sending, Counts, Locks, Stops,
        link, history, budget
  <2>2. CASE ~(client /\ IsUp)
    BY <1>4, <2>2 DEF CheckClient, Leave, Goes, SenderAt, Sending, Counts, Locks, Stops,
        link, history, budget
  <2> QED BY <2>1, <2>2
<1>5. CASE WriteMessage
  BY <1>5 DEF WriteMessage, SenderAt, Sending, Counts, Locks, Stops, link, history, budget
<1>6. CASE WriteFails
  BY <1>6 DEF WriteFails, Leave, SenderAt, Sending, Counts, Locks, Stops, link, history,
      budget
<1>7. CASE AwaitAck
  BY <1>7 DEF AwaitAck, Goes, SenderAt, Sending, Counts, Locks, Stops, link, history, budget
<1>8. CASE Woken
  BY <1>8 DEF Woken, Goes, SenderAt, Sending, Counts, Locks, Stops, link, history, budget
<1>9. CASE AckTimeout
  BY <1>9 DEF AckTimeout, Leave, SenderAt, Sending, Counts, Locks, Stops, link, history,
      budget
<1>10. CASE Answer
  BY <1>10 DEF Answer, Leave, SenderAt, Sending, Counts, Locks, Stops, link, history, budget
<1>11. CASE Connected
  BY <1>11 DEF Connected, Sending, Counts, Locks, Stops, link, history, budget
<1>12. CASE ReadStopping
  BY <1>12 DEF ReadStopping, Sending, Counts, Locks, Stops, link, history, budget
<1>13. CASE Disconnected
  BY <1>13 DEF Disconnected, Sending, Counts, Locks, Stops, link, history, budget
<1>14. CASE TellState
  BY <1>14 DEF TellState, Sending, Counts, Locks, Stops, link, history, budget
<1>15. CASE Start
  BY <1>15 DEF Start, Sending, Counts, Locks, Stops, link, history, budget
<1>16. CASE Stop
  BY <1>16 DEF Stop, Sending, Counts, Locks, Stops, link, history, budget
<1>17. CASE TellDown
  BY <1>17 DEF TellDown, Sending, Counts, Locks, Stops, link, history, budget
<1>18. CASE WakeSender
  BY <1>18 DEF WakeSender, Sending, Counts, Locks, Stops, link, history, budget
<1>19. CASE TakeLock
  BY <1>19 DEF TakeLock, Sending, Counts, Locks, Stops, link, history, budget
<1>20. CASE GiveUp
  BY <1>20 DEF GiveUp, SenderAt, Sending, Counts, Locks, Stops, link, history, budget
<1>21. CASE Resume
  BY <1>21 DEF Resume, Sending, Counts, Locks, Stops, link, history, budget
<1>22. CASE TearDown
  BY <1>22 DEF TearDown, Sending, Counts, Locks, Stops, link, history, budget
<1>23. CASE \E id \in Messages : Published(id)
  BY <1>23 DEF Published, Sending, Counts, Locks, Stops, link, history, budget
<1>24. CASE UNCHANGED vars
  BY <1>24 DEF vars, Sending, Counts, Locks, Stops, link, history, budget
<1> QED BY <1>1, <1>2, <1>3, <1>4, <1>5, <1>6, <1>7, <1>8, <1>9, <1>10, <1>11, <1>12,
    <1>13, <1>14, <1>15, <1>16, <1>17, <1>18, <1>19, <1>20, <1>21, <1>22, <1>23, <1>24
    DEF Next, Sender, Esp, Stopper

(* stopping is what the stopper's place says. *)
LEMMA StopsKept == Locks /\ Stops /\ Places /\ [Next]_vars => Stops'
<1> SUFFICES ASSUME Locks, Stops, Places, [Next]_vars PROVE Stops'
  OBVIOUS
<1>1. CASE Publish
  BY <1>1 DEF Publish, Goes, SenderAt, Places, Locks, Stops, link, history, budget
<1>2. CASE TakeSendLock
  BY <1>2 DEF TakeSendLock, Goes, SenderAt, Places, Locks, Stops, link, history, budget
<1>3. CASE SendLockTimeout
  BY <1>3 DEF SendLockTimeout, Goes, SenderAt, Places, Locks, Stops, link, history, budget
<1>4. CASE CheckClient
  <2>1. CASE client /\ IsUp
    BY <1>4, <2>1 DEF CheckClient, Leave, Goes, SenderAt, Places, Locks, Stops, link,
        history, budget
  <2>2. CASE ~(client /\ IsUp)
    BY <1>4, <2>2 DEF CheckClient, Leave, Goes, SenderAt, Places, Locks, Stops, link,
        history, budget
  <2> QED BY <2>1, <2>2
<1>5. CASE WriteMessage
  BY <1>5 DEF WriteMessage, SenderAt, Places, Locks, Stops, link, history, budget
<1>6. CASE WriteFails
  BY <1>6 DEF WriteFails, Leave, SenderAt, Places, Locks, Stops, link, history, budget
<1>7. CASE AwaitAck
  BY <1>7 DEF AwaitAck, Goes, SenderAt, Places, Locks, Stops, link, history, budget
<1>8. CASE Woken
  BY <1>8 DEF Woken, Goes, SenderAt, Places, Locks, Stops, link, history, budget
<1>9. CASE AckTimeout
  BY <1>9 DEF AckTimeout, Leave, SenderAt, Places, Locks, Stops, link, history, budget
<1>10. CASE Answer
  BY <1>10 DEF Answer, Leave, SenderAt, Places, Locks, Stops, link, history, budget
<1>11. CASE Connected
  BY <1>11 DEF Connected, Places, Locks, Stops, link, history, budget
<1>12. CASE ReadStopping
  BY <1>12 DEF ReadStopping, Places, Locks, Stops, link, history, budget
<1>13. CASE Disconnected
  BY <1>13 DEF Disconnected, Places, Locks, Stops, link, history, budget
<1>14. CASE TellState
  BY <1>14 DEF TellState, Places, Locks, Stops, link, history, budget
<1>15. CASE Start
  BY <1>15 DEF Start, Places, Locks, Stops, link, history, budget
<1>16. CASE Stop
  BY <1>16 DEF Stop, Places, Locks, Stops, link, history, budget
<1>17. CASE TellDown
  BY <1>17 DEF TellDown, Places, Locks, Stops, link, history, budget
<1>18. CASE WakeSender
  BY <1>18 DEF WakeSender, Places, Locks, Stops, link, history, budget
<1>19. CASE TakeLock
  BY <1>19 DEF TakeLock, Places, Locks, Stops, link, history, budget
<1>20. CASE GiveUp
  BY <1>20 DEF GiveUp, SenderAt, Places, Locks, Stops, link, history, budget
<1>21. CASE Resume
  BY <1>21 DEF Resume, Places, Locks, Stops, link, history, budget
<1>22. CASE TearDown
  BY <1>22 DEF TearDown, Places, Locks, Stops, link, history, budget
<1>23. CASE \E id \in Messages : Published(id)
  BY <1>23 DEF Published, Places, Locks, Stops, link, history, budget
<1>24. CASE UNCHANGED vars
  BY <1>24 DEF vars, Places, Locks, Stops, link, history, budget
<1> QED BY <1>1, <1>2, <1>3, <1>4, <1>5, <1>6, <1>7, <1>8, <1>9, <1>10, <1>11, <1>12,
    <1>13, <1>14, <1>15, <1>16, <1>17, <1>18, <1>19, <1>20, <1>21, <1>22, <1>23, <1>24
    DEF Next, Sender, Esp, Stopper

(* A wake is an ack unless a stop stands behind it. *)
LEMMA WakesKept == Sending /\ Counts /\ Locks /\ Stops /\ Wakes /\ [Next]_vars => Wakes'
<1> SUFFICES ASSUME Sending, Counts, Locks, Stops, Wakes, [Next]_vars PROVE Wakes'
  OBVIOUS
<1> USE NetAssumption
<1>1. CASE Publish
  BY <1>1 DEF Publish, Goes, SenderAt, Sending, Counts, Locks, Stops, Wakes, InHand,
      Messages, link, history, budget
<1>2. CASE TakeSendLock
  BY <1>2 DEF TakeSendLock, Goes, SenderAt, Sending, Counts, Locks, Stops, Wakes, InHand,
      Messages, link, history, budget
<1>3. CASE SendLockTimeout
  BY <1>3 DEF SendLockTimeout, Goes, SenderAt, Sending, Counts, Locks, Stops, Wakes,
      InHand, Messages, link, history, budget
<1>4. CASE CheckClient
  <2>1. CASE client /\ IsUp
    BY <1>4, <2>1 DEF CheckClient, Leave, Goes, SenderAt, Sending, Counts, Locks, Stops,
        Wakes, InHand, Messages, link, history, budget
  <2>2. CASE ~(client /\ IsUp)
    BY <1>4, <2>2 DEF CheckClient, Leave, Goes, SenderAt, Sending, Counts, Locks, Stops,
        Wakes, InHand, Messages, link, history, budget
  <2> QED BY <2>1, <2>2
<1>5. CASE WriteMessage
  BY <1>5 DEF WriteMessage, SenderAt, Sending, Counts, Locks, Stops, Wakes, InHand,
      Messages, link, history, budget
<1>6. CASE WriteFails
  BY <1>6 DEF WriteFails, Leave, SenderAt, Sending, Counts, Locks, Stops, Wakes, InHand,
      Messages, link, history, budget
<1>7. CASE AwaitAck
  BY <1>7 DEF AwaitAck, Goes, SenderAt, Sending, Counts, Locks, Stops, Wakes, InHand,
      Messages, link, history, budget
<1>8. CASE Woken
  BY <1>8 DEF Woken, Goes, SenderAt, Sending, Counts, Locks, Stops, Wakes, InHand,
      Messages, link, history, budget
<1>9. CASE AckTimeout
  BY <1>9 DEF AckTimeout, Leave, SenderAt, Sending, Counts, Locks, Stops, Wakes, InHand,
      Messages, link, history, budget
<1>10. CASE Answer
  BY <1>10 DEF Answer, Leave, SenderAt, Sending, Counts, Locks, Stops, Wakes, InHand,
      Messages, link, history, budget
<1>11. CASE Connected
  BY <1>11 DEF Connected, Sending, Counts, Locks, Stops, Wakes, InHand, SenderAt, Messages,
      link, history, budget
<1>12. CASE ReadStopping
  BY <1>12 DEF ReadStopping, Sending, Counts, Locks, Stops, Wakes, InHand, SenderAt,
      Messages, link, history, budget
<1>13. CASE Disconnected
  BY <1>13 DEF Disconnected, Sending, Counts, Locks, Stops, Wakes, InHand, SenderAt,
      Messages, link, history, budget
<1>14. CASE TellState
  BY <1>14 DEF TellState, Sending, Counts, Locks, Stops, Wakes, InHand, SenderAt, Messages,
      link, history, budget
<1>15. CASE Start
  BY <1>15 DEF Start, Sending, Counts, Locks, Stops, Wakes, InHand, SenderAt, Messages,
      link, history, budget
<1>16. CASE Stop
  BY <1>16 DEF Stop, Sending, Counts, Locks, Stops, Wakes, InHand, SenderAt, Messages,
      link, history, budget
<1>17. CASE TellDown
  BY <1>17 DEF TellDown, Sending, Counts, Locks, Stops, Wakes, InHand, SenderAt, Messages,
      link, history, budget
<1>18. CASE WakeSender
  BY <1>18 DEF WakeSender, Sending, Counts, Locks, Stops, Wakes, InHand, SenderAt,
      Messages, link, history, budget
<1>19. CASE TakeLock
  BY <1>19 DEF TakeLock, Sending, Counts, Locks, Stops, Wakes, InHand, SenderAt, Messages,
      link, history, budget
<1>20. CASE GiveUp
  BY <1>20 DEF GiveUp, SenderAt, Sending, Counts, Locks, Stops, Wakes, InHand, Messages,
      link, history, budget
<1>21. CASE Resume
  BY <1>21 DEF Resume, Sending, Counts, Locks, Stops, Wakes, InHand, SenderAt, Messages,
      link, history, budget
<1>22. CASE TearDown
  BY <1>22 DEF TearDown, Sending, Counts, Locks, Stops, Wakes, InHand, SenderAt, Messages,
      link, history, budget
<1>23. CASE \E id \in Messages : Published(id)
  <2> PICK id \in Messages : Published(id)
    BY <1>23
  <2>1. UNCHANGED <<sender, sent, stopping, stuck>>
    BY DEF Published, link, budget
  <2>2. pubacked' = pubacked \union {id} /\ acked' = (acked \/ id = awaited)
    BY DEF Published
  <2>3. InHand' = InHand
    BY <2>1 DEF InHand, SenderAt
  <2>4. id = awaited => InHand = id
    BY DEF Sending, InHand, SenderAt, Messages
  <2> QED BY <2>1, <2>2, <2>3, <2>4 DEF Wakes, SenderAt
<1>24. CASE UNCHANGED vars
  BY <1>24 DEF vars, Sending, Counts, Locks, Stops, Wakes, InHand, SenderAt, Messages,
      link, history, budget
<1> QED BY <1>1, <1>2, <1>3, <1>4, <1>5, <1>6, <1>7, <1>8, <1>9, <1>10, <1>11, <1>12,
    <1>13, <1>14, <1>15, <1>16, <1>17, <1>18, <1>19, <1>20, <1>21, <1>22, <1>23, <1>24
    DEF Next, Sender, Esp, Stopper

(* So ESP_OK is answered for acknowledged and for stuck messages only. *)
LEMMA AckedKept == Wakes /\ OkMeansAcked /\ [Next]_vars => OkMeansAcked'
<1> SUFFICES ASSUME Wakes, OkMeansAcked, [Next]_vars PROVE OkMeansAcked'
  OBVIOUS
<1>1. CASE Publish
  BY <1>1 DEF Publish, Goes, SenderAt, Wakes, InHand, OkMeansAcked, link, history, budget
<1>2. CASE TakeSendLock
  BY <1>2 DEF TakeSendLock, Goes, SenderAt, Wakes, InHand, OkMeansAcked, link, history,
      budget
<1>3. CASE SendLockTimeout
  BY <1>3 DEF SendLockTimeout, Goes, SenderAt, Wakes, InHand, OkMeansAcked, link, history,
      budget
<1>4. CASE CheckClient
  <2>1. CASE client /\ IsUp
    BY <1>4, <2>1 DEF CheckClient, Leave, Goes, SenderAt, Wakes, InHand, OkMeansAcked,
        link, history, budget
  <2>2. CASE ~(client /\ IsUp)
    BY <1>4, <2>2 DEF CheckClient, Leave, Goes, SenderAt, Wakes, InHand, OkMeansAcked,
        link, history, budget
  <2> QED BY <2>1, <2>2
<1>5. CASE WriteMessage
  BY <1>5 DEF WriteMessage, SenderAt, Wakes, InHand, OkMeansAcked, link, history, budget
<1>6. CASE WriteFails
  BY <1>6 DEF WriteFails, Leave, SenderAt, Wakes, InHand, OkMeansAcked, link, history,
      budget
<1>7. CASE AwaitAck
  BY <1>7 DEF AwaitAck, Goes, SenderAt, Wakes, InHand, OkMeansAcked, link, history, budget
<1>8. CASE Woken
  BY <1>8 DEF Woken, Goes, SenderAt, Wakes, InHand, OkMeansAcked, link, history, budget
<1>9. CASE AckTimeout
  BY <1>9 DEF AckTimeout, Leave, SenderAt, Wakes, InHand, OkMeansAcked, link, history,
      budget
<1>10. CASE Answer
  BY <1>10 DEF Answer, Leave, SenderAt, Wakes, InHand, OkMeansAcked, link, history, budget
<1>11. CASE Connected
  BY <1>11 DEF Connected, Wakes, InHand, SenderAt, OkMeansAcked, link, history, budget
<1>12. CASE ReadStopping
  BY <1>12 DEF ReadStopping, Wakes, InHand, SenderAt, OkMeansAcked, link, history, budget
<1>13. CASE Disconnected
  BY <1>13 DEF Disconnected, Wakes, InHand, SenderAt, OkMeansAcked, link, history, budget
<1>14. CASE TellState
  BY <1>14 DEF TellState, Wakes, InHand, SenderAt, OkMeansAcked, link, history, budget
<1>15. CASE Start
  BY <1>15 DEF Start, Wakes, InHand, SenderAt, OkMeansAcked, link, history, budget
<1>16. CASE Stop
  BY <1>16 DEF Stop, Wakes, InHand, SenderAt, OkMeansAcked, link, history, budget
<1>17. CASE TellDown
  BY <1>17 DEF TellDown, Wakes, InHand, SenderAt, OkMeansAcked, link, history, budget
<1>18. CASE WakeSender
  BY <1>18 DEF WakeSender, Wakes, InHand, SenderAt, OkMeansAcked, link, history, budget
<1>19. CASE TakeLock
  BY <1>19 DEF TakeLock, Wakes, InHand, SenderAt, OkMeansAcked, link, history, budget
<1>20. CASE GiveUp
  BY <1>20 DEF GiveUp, SenderAt, Wakes, InHand, OkMeansAcked, link, history, budget
<1>21. CASE Resume
  BY <1>21 DEF Resume, Wakes, InHand, SenderAt, OkMeansAcked, link, history, budget
<1>22. CASE TearDown
  BY <1>22 DEF TearDown, Wakes, InHand, SenderAt, OkMeansAcked, link, history, budget
<1>23. CASE \E id \in Messages : Published(id)
  BY <1>23 DEF Published, Wakes, InHand, SenderAt, OkMeansAcked, link, history, budget
<1>24. CASE UNCHANGED vars
  BY <1>24 DEF vars, Wakes, InHand, SenderAt, OkMeansAcked, link, history, budget
<1> QED BY <1>1, <1>2, <1>3, <1>4, <1>5, <1>6, <1>7, <1>8, <1>9, <1>10, <1>11, <1>12,
    <1>13, <1>14, <1>15, <1>16, <1>17, <1>18, <1>19, <1>20, <1>21, <1>22, <1>23, <1>24
    DEF Next, Sender, Esp, Stopper

(* What on_connected reads is what it tells, unless the stop crossed it. *)
LEMMA OfflineKept == Places /\ Stops /\ Offline /\ [Next]_vars => Offline'
<1> SUFFICES ASSUME Places, Stops, Offline, [Next]_vars PROVE Offline'
  OBVIOUS
<1>1. CASE Publish
  BY <1>1 DEF Publish, Goes, SenderAt, Places, Stops, Offline, link, history, budget
<1>2. CASE TakeSendLock
  BY <1>2 DEF TakeSendLock, Goes, SenderAt, Places, Stops, Offline, link, history, budget
<1>3. CASE SendLockTimeout
  BY <1>3 DEF SendLockTimeout, Goes, SenderAt, Places, Stops, Offline, link, history, budget
<1>4. CASE CheckClient
  <2>1. CASE client /\ IsUp
    BY <1>4, <2>1 DEF CheckClient, Leave, Goes, SenderAt, Places, Stops, Offline, link,
        history, budget
  <2>2. CASE ~(client /\ IsUp)
    BY <1>4, <2>2 DEF CheckClient, Leave, Goes, SenderAt, Places, Stops, Offline, link,
        history, budget
  <2> QED BY <2>1, <2>2
<1>5. CASE WriteMessage
  BY <1>5 DEF WriteMessage, SenderAt, Places, Stops, Offline, link, history, budget
<1>6. CASE WriteFails
  BY <1>6 DEF WriteFails, Leave, SenderAt, Places, Stops, Offline, link, history, budget
<1>7. CASE AwaitAck
  BY <1>7 DEF AwaitAck, Goes, SenderAt, Places, Stops, Offline, link, history, budget
<1>8. CASE Woken
  BY <1>8 DEF Woken, Goes, SenderAt, Places, Stops, Offline, link, history, budget
<1>9. CASE AckTimeout
  BY <1>9 DEF AckTimeout, Leave, SenderAt, Places, Stops, Offline, link, history, budget
<1>10. CASE Answer
  BY <1>10 DEF Answer, Leave, SenderAt, Places, Stops, Offline, link, history, budget
<1>11. CASE Connected
  BY <1>11 DEF Connected, Places, Stops, Offline, link, history, budget
<1>12. CASE ReadStopping
  BY <1>12 DEF ReadStopping, Places, Stops, Offline, link, history, budget
<1>13. CASE Disconnected
  BY <1>13 DEF Disconnected, Places, Stops, Offline, link, history, budget
<1>14. CASE TellState
  BY <1>14 DEF TellState, Places, Stops, Offline, link, history, budget
<1>15. CASE Start
  BY <1>15 DEF Start, Places, Stops, Offline, link, history, budget
<1>16. CASE Stop
  BY <1>16 DEF Stop, Places, Stops, Offline, link, history, budget
<1>17. CASE TellDown
  BY <1>17 DEF TellDown, Places, Stops, Offline, link, history, budget
<1>18. CASE WakeSender
  BY <1>18 DEF WakeSender, Places, Stops, Offline, link, history, budget
<1>19. CASE TakeLock
  BY <1>19 DEF TakeLock, Places, Stops, Offline, link, history, budget
<1>20. CASE GiveUp
  BY <1>20 DEF GiveUp, SenderAt, Places, Stops, Offline, link, history, budget
<1>21. CASE Resume
  BY <1>21 DEF Resume, Places, Stops, Offline, link, history, budget
<1>22. CASE TearDown
  BY <1>22 DEF TearDown, Places, Stops, Offline, link, history, budget
<1>23. CASE \E id \in Messages : Published(id)
  BY <1>23 DEF Published, Places, Stops, Offline, link, history, budget
<1>24. CASE UNCHANGED vars
  BY <1>24 DEF vars, Places, Stops, Offline, link, history, budget
<1> QED BY <1>1, <1>2, <1>3, <1>4, <1>5, <1>6, <1>7, <1>8, <1>9, <1>10, <1>11, <1>12,
    <1>13, <1>14, <1>15, <1>16, <1>17, <1>18, <1>19, <1>20, <1>21, <1>22, <1>23, <1>24
    DEF Next, Sender, Esp, Stopper

(* All of it holds of every reachable state. *)
LEMMA IInvHolds == Spec => []LinkIInv
<1>1. LinkIInv /\ [Next]_vars => LinkIInv'
  BY PlacesKept, SendingKept, CountsKept, BooksKept, LocksKept, StopsKept, WakesKept, AckedKept, OfflineKept DEF LinkIInv
<1> QED BY InitIInv, <1>1, PTL DEF Spec

-----------------------------------------------------------------------------
(* The state of the link is well typed, whatever the broker and the stopper do. *)
THEOREM LinkTypeCorrect == Spec => []TypeOK
<1>1. LinkIInv => TypeOK
  BY DEF LinkIInv, TypeOK, Places, Sending, Counts, Books
<1> QED BY IInvHolds, <1>1, PTL

(* net_mqtt_publish answers ESP_OK for a message the broker acknowledged, however
   many stops wake the sender, but for the one a stop gave up on in its write. *)
THEOREM OkIsAcked == Spec => []OkMeansAcked
<1>1. LinkIInv => OkMeansAcked
  BY DEF LinkIInv
<1> QED BY IInvHolds, <1>1, PTL

(* No client is torn down under the task that writes to it or waits on it. *)
THEOREM ClientStays == Spec => []ClientOutlivesSender
<1>1. LinkIInv => ClientOutlivesSender
  BY DEF LinkIInv, Locks, ClientOutlivesSender
<1> QED BY IInvHolds, <1>1, PTL

(* Between a stop and the next start punches are stamped offline, but for the one
   window in which on_connected had read stopping already. *)
THEOREM StampedOffline == Spec => []StampedOfflineOnceStopped
<1>1. LinkIInv => StampedOfflineOnceStopped
  BY DEF LinkIInv, Offline, StampedOfflineOnceStopped
<1> QED BY IInvHolds, <1>1, PTL

-----------------------------------------------------------------------------
(* DOOR ACCESS: one opening and one punch an arrival.                        *)
-----------------------------------------------------------------------------
(* Who is inside a door call, and for what. *)
Calls ==
  /\ call["sync"].who = Nobody
  /\ \A c \in Callers :
       /\ call[c].step = "idle" <=> call[c] = NotCalling
       /\ call[c].step # "idle" => call[c].what # "none"
       /\ mdoor = c <=> call[c].step \in {"stop", "start"}
       /\ call[c].what # "open" => call[c].who = Nobody
  /\ fired.step = "idle" <=> fired = NoCallback

Opening(c) == call[c].what = "open" /\ mdoor = c

(* While the barrier is up, no timer but that of its own hold is running. *)
Raised ==
  arm = "Raised" =>
    /\ fired = NoCallback \/ fired = [for |-> "hold", step |-> "take"]
    /\ mdoor = "free" => alarm \in {"none", "hold"}
    /\ mdoor # "free" => Opening(mdoor)

(* The task in m_door finds the arm as it put it; an opening finds no callback. *)
Inside ==
  \A c \in Callers : mdoor = c =>
    /\ arm = IF call[c].what = "open" THEN "Raised" ELSE "Lowering"
    /\ call[c].what = "open" =>
         /\ fired = NoCallback
         /\ call[c].step = "stop" => alarm \in {"none", "old"}
         /\ call[c].step = "start" => alarm = "none"

Barrier == doorHoles = {} => Raised /\ Inside

(* s_recent is the end of the window's punches; what it lacks lies before a restart. *)
Ring ==
  LET before == Len(punches) - Len(recent) IN
  /\ before >= 0
  /\ \A k \in DOMAIN recent : recent[k] = punches[before + k]
  /\ Len(recent) < KRecent /\ before > 0 => punches[before] = Restarted

(* Who was let in is the last one granted, still there, and stamped or about to be. *)
Stay ==
  /\ visit = "new" => left
  /\ call["attend"].who # Nobody => lastEmployee = call["attend"].who
  /\ visit = "opened" =>
       /\ standing \in People /\ lastEmployee = standing /\ ~left
       /\ StampedRecently(standing) \/ call["attend"].who = standing

USE DoorAssumption

(* A door nobody has come to. *)
LEMMA InitAll ==
  DoorInit => /\ DoorTypeOK /\ Calls /\ Barrier /\ Ring /\ Stay
              /\ OnePunchAWindow /\ OneOpeningAnArrival /\ BarrierKeepsItsTime
<1> SUFFICES ASSUME DoorInit PROVE /\ DoorTypeOK /\ Calls /\ Barrier /\ Ring /\ Stay
              /\ OnePunchAWindow /\ OneOpeningAnArrival /\ BarrierKeepsItsTime
  OBVIOUS
<1> USE DEF DoorInit, NotCalling, NoCallback, Callers
<1>1. DoorTypeOK
  BY DEF DoorTypeOK
<1>2. Calls /\ Barrier /\ Ring /\ Stay
  BY DEF Calls, Barrier, Raised, Inside, Opening, Ring, Stay
<1>3. OnePunchAWindow /\ OneOpeningAnArrival /\ BarrierKeepsItsTime
  BY DEF OnePunchAWindow, OneOpeningAnArrival, BarrierKeepsItsTime
<1> QED
  BY <1>1, <1>2, <1>3

-----------------------------------------------------------------------------
(* The machine's step, which Verdict, Guidance and Leaves have in common. *)

Gone(on, who) == left \/ LeftBy(on, who)
AsksClose == call' = [call EXCEPT !["attend"] = [what |-> "close", step |-> "lock", who |-> Nobody]]
AsksOpen(who) == call' = [call EXCEPT !["attend"] = [what |-> "open", step |-> "lock", who |-> who]]

Grants(on, who, stay) ==
  /\ on = "Match" /\ ~SameArrival(who, Gone(on, who))
  /\ left' = FALSE /\ lastEmployee' = who /\ AsksOpen(who) /\ visit' = OpenedFor(stay)

SaysAlready(on, who, stay) ==
  /\ on = "Match" /\ SameArrival(who, Gone(on, who))
  /\ left' = Gone(on, who) /\ UNCHANGED <<lastEmployee, call>> /\ visit' = Already(stay)

Moves(on, who, stay) ==
  /\ left' = Gone(on, who) /\ UNCHANGED lastEmployee /\ (AsksClose \/ UNCHANGED call) /\ visit' = stay

States == {"Idle", "Detecting", "Granted", "Denied", "Cooldown"}

(* apply lets in, says "already", or moves on; and it leaves the rest alone. *)
LEMMA ApplyCases ==
  ASSUME NEW on, NEW who, NEW live \in BOOLEAN, NEW stay, state \in States,
         left \in BOOLEAN, Apply(on, who, live, stay)
  PROVE  /\ UNCHANGED <<recent, timing, punches>>
         /\ call["attend"] = NotCalling
         /\ state' \in States
         /\ Grants(on, who, stay) \/ SaysAlready(on, who, stay) \/ Moves(on, who, stay)
<1> DEFINE gone == left \/ LeftBy(on, who)
           to == Row(state, IF on = "OffGuide" THEN "FaceSmall" ELSE on)
           already == to[2] = "Grant" /\ SameArrival(who, gone)
           grants == to[2] = "Grant" /\ ~already /\ live
<1>1. /\ to[2] = "Grant" => on = "Match"
      /\ to[1] \in States
  BY DEF Row, States
<1>2. gone \in BOOLEAN /\ gone = Gone(on, who)
  BY DEF LeftBy, Gone
<1>3. /\ UNCHANGED <<recent, timing, punches>>
      /\ call["attend"] = NotCalling
      /\ state' = IF already THEN state ELSE IF to[2] = "Grant" /\ ~live THEN "Denied" ELSE to[1]
      /\ left' = (gone /\ ~grants)
      /\ lastEmployee' = IF grants THEN who ELSE lastEmployee
      /\ IF grants THEN Asks("attend", "open", who)
         ELSE IF to[2] = "Rest" THEN Asks("attend", "close", Nobody) ELSE UNCHANGED call
      /\ visit' = IF already THEN Already(stay) ELSE IF grants THEN OpenedFor(stay) ELSE stay
  BY Zenon DEF Apply
<1> HIDE DEF to, gone
<1>4. state' \in States
  BY <1>1, <1>3 DEF States
<1>5. CASE already
  BY <1>1, <1>2, <1>3, <1>4, <1>5 DEF SaysAlready
<1>6. CASE grants
  BY <1>1, <1>2, <1>3, <1>4, <1>6 DEF Grants, Asks, AsksOpen
<1>7. CASE ~already /\ ~grants
  <2>1. left' = gone
    BY <1>2, <1>3, <1>7
  <2>2. UNCHANGED lastEmployee /\ visit' = stay
    BY <1>3, <1>7
  <2>3. AsksClose \/ UNCHANGED call
    BY <1>3, <1>7, Zenon DEF Asks, AsksClose
  <2> QED
    BY <1>2, <1>3, <1>4, <2>1, <2>2, <2>3, Zenon DEF Moves
<1> QED
  BY <1>3, <1>4, <1>5, <1>6, <1>7

Stays == {"new", "unseen", "opened", "excused", "twice", "sent away"}

(* What all of it comes to: somebody is let in, who was not let in before; or nobody is. *)
LetsIn ==
  /\ call["attend"] = NotCalling /\ AsksOpen(standing)
  /\ standing \in People /\ standing' = standing
  /\ left' = FALSE /\ lastEmployee' = standing
  /\ visit' \in {"opened", "twice"} /\ (visit' = "twice" => visit = "opened" /\ ~(~left /\ lastEmployee = standing /\ StampedRecently(standing)))

Rests ==
  /\ UNCHANGED lastEmployee /\ left' \in BOOLEAN /\ standing' \in People \union {Nobody}
  /\ UNCHANGED call \/ (call["attend"] = NotCalling /\ AsksClose)
  /\ visit' \in Stays /\ (visit' = "twice" => visit = "twice")
  /\ visit' = "sent away" => visit = "sent away" \/ (visit = "new" /\ ~left)
  /\ visit' = "opened" => visit = "opened" /\ standing' = standing
                          /\ (left' = left \/ standing # lastEmployee)
  /\ visit' = "new" => left' \/ (visit = "new" /\ ~left)

Seen == UNCHANGED <<recent, timing, punches>> /\ state' \in States /\ (LetsIn \/ Rests)

(* What attend_task sees and judges touches neither the stamps nor the barrier. *)
LEMMA SeenBy ==
  ASSUME DoorTypeOK, Stay, Verdict \/ Guidance \/ Arrives \/ Leaves
  PROVE  Seen
<1>1. /\ state \in States /\ left \in BOOLEAN /\ visit \in Stays
      /\ standing \in People \union {Nobody} /\ Nobody \notin People
  BY DEF DoorTypeOK, States, Stays
<1> USE DEF Stays
<1>2. ASSUME NEW live \in BOOLEAN, standing # Nobody, Apply("Match", standing, live, visit), UNCHANGED standing
      PROVE  Seen
  <2>1. /\ UNCHANGED <<recent, timing, punches>> /\ call["attend"] = NotCalling /\ state' \in States
        /\ \/ Grants("Match", standing, visit) \/ SaysAlready("Match", standing, visit)
           \/ Moves("Match", standing, visit)
    BY <1>1, <1>2, ApplyCases, Zenon
  <2> USE <1>1, <1>2, <2>1 DEF LeftBy, Gone, SameArrival
  <2>2. CASE Grants("Match", standing, visit)
    BY <2>2 DEF Grants, OpenedFor, Seen, LetsIn
  <2>3. CASE SaysAlready("Match", standing, visit)
    BY <2>3 DEF SaysAlready, Already, Seen, Rests
  <2>4. CASE Moves("Match", standing, visit)
    BY <2>4 DEF Moves, Seen, Rests
  <2> QED
    BY <2>1, <2>2, <2>3, <2>4
<1>3. ASSUME NEW on, NEW stay \in Stays, on # "Match",
             Apply(on, Stranger, TRUE, stay), standing' \in {standing, Nobody},
             stay = "opened" => visit = "opened" /\ ~LeftBy(on, Stranger) /\ standing' = standing,
             stay \in {"twice", "sent away"} => visit = stay,
             stay = "new" => LeftBy(on, Stranger) \/ visit = "new"
      PROVE  Seen
  <2>1. /\ UNCHANGED <<recent, timing, punches>> /\ call["attend"] = NotCalling /\ state' \in States
        /\ \/ Grants(on, Stranger, stay) \/ SaysAlready(on, Stranger, stay) \/ Moves(on, Stranger, stay)
    BY <1>1, <1>3, ApplyCases
  <2>2. Moves(on, Stranger, stay)
    BY <1>3, <2>1 DEF Grants, SaysAlready
  <2>3. left' = (left \/ LeftBy(on, Stranger)) /\ LeftBy(on, Stranger) \in BOOLEAN
    BY <2>2 DEF Moves, Gone, LeftBy
  <2> HIDE DEF LeftBy
  <2> QED
    BY <1>1, <1>3, <2>1, <2>2, <2>3 DEF Moves, Seen, Rests
<1>4. CASE Verdict
  <2>1. ASSUME NEW on \in {"Spoof", "Unknown"}, Apply(on, Stranger, TRUE, Excused(visit)), UNCHANGED standing
        PROVE  Seen
    BY <1>1, <1>3, <2>1 DEF Excused
  <2> QED
    BY <1>2, <1>4, <2>1 DEF Verdict
<1>5. CASE Guidance
  <2>1. ASSUME NEW on \in {"FaceSmall", "PresenceOn", "Timeout"}, Apply(on, Stranger, TRUE, visit), UNCHANGED standing
        PROVE  Seen
    BY <1>1, <1>3, <2>1 DEF LeftBy
  <2>2. ASSUME NEW on \in {"OffGuide", "NoFace", "PresenceOff"}, Apply(on, Stranger, TRUE, "new"), UNCHANGED standing
        PROVE  Seen
    BY <1>1, <1>3, <2>2 DEF LeftBy
  <2> QED
    BY <1>5, <2>1, <2>2 DEF Guidance
<1>6. CASE Arrives
  BY <1>1, <1>6 DEF Arrives, mind, timing, Seen, Rests, Stay
<1>7. CASE Leaves
  <2>1. CASE Apply("NoFace", Stranger, TRUE, "new") /\ standing' = Nobody
    BY <1>1, <1>3, <2>1 DEF LeftBy
  <2>2. CASE /\ standing' = Nobody /\ visit' = "unseen"
             /\ UNCHANGED <<mind, call, timing, punches>>
    BY <1>1, <2>2 DEF mind, timing, Seen, Rests
  <2> QED
    BY <1>7, <2>1, <2>2 DEF Leaves
<1> QED
  BY <1>4, <1>5, <1>6, <1>7

-----------------------------------------------------------------------------
(* One step after the other, for each part of the invariant. *)

CallersStep(c) == TakeDoor(c) \/ DoorTimeout(c) \/ StopTimer(c) \/ StartTimer(c) \/ DoorDone(c)

(* The steps of the door, by who takes them. *)
LEMMA Steps ==
  DoorNext => \/ (Verdict \/ Guidance \/ Arrives \/ Leaves)
              \/ Punch \/ WindowPasses \/ Command \/ (\E c \in Callers : CallersStep(c))
              \/ Fires \/ OnTimer \/ OnTimerAgain \/ DoorRestarts
  BY DEF DoorNext, CallersStep

CallRecord == [what : {"none", "open", "close"}, who : People \union {Nobody},
               step : {"idle", "lock", "stop", "start", "back"}]

Alarms == {"none", "hold", "arrive", "retry", "old"}

(* The door calls stay of their type, and as Calls describes them. *)
LEMMA NextCalls ==
  ASSUME DoorTypeOK, Calls, Stay, [DoorNext]_doorVars
  PROVE  call' \in [Callers -> CallRecord] /\ Calls'
<1> USE DEF Callers, CallRecord, Alarms
<1>1. /\ call \in [Callers -> CallRecord] /\ Nobody \notin People /\ mdoor \in Callers \union {"free"}
      /\ fired \in [for : Alarms, step : {"idle", "take", "stop", "start"}] /\ alarm \in Alarms
  BY DEF DoorTypeOK, Alarms
<1>2. CASE Seen
  <2>1. UNCHANGED <<mdoor, fired>>
    BY <1>2 DEF Seen, timing
  <2>2. CASE UNCHANGED call
    BY <1>1, <2>1, <2>2 DEF Calls
  <2>3. CASE call["attend"] = NotCalling /\ AsksOpen(standing) /\ standing \in People
    BY <1>1, <2>1, <2>3 DEF AsksOpen, Calls, NotCalling
  <2>4. CASE call["attend"] = NotCalling /\ AsksClose
    BY <1>1, <2>1, <2>4 DEF AsksClose, Calls, NotCalling
  <2> QED
    BY <1>2, <2>2, <2>3, <2>4 DEF Seen, LetsIn, Rests
<1>3. CASE Punch
  BY <1>1, <1>3 DEF Punch, timing, Calls, NotCalling
<1>4. CASE WindowPasses \/ UNCHANGED doorVars
  BY <1>1, <1>4 DEF WindowPasses, doorVars, timing, Calls
<1>5. CASE Command
  BY <1>1, <1>5 DEF Command, Asks, timing, Calls, NotCalling
<1>6. ASSUME NEW c \in Callers, CallersStep(c)
      PROVE  call' \in [Callers -> CallRecord] /\ Calls'
  <2> USE <1>1, <1>6 DEF Calls, NotCalling, timing, GoesTo, NoCallback
  <2>1. CASE TakeDoor(c)
    BY <2>1 DEF TakeDoor
  <2>2. CASE DoorTimeout(c)
    BY <2>2 DEF DoorTimeout
  <2>3. CASE StopTimer(c)
    BY <2>3 DEF StopTimer
  <2>4. CASE StartTimer(c)
    BY <2>4 DEF StartTimer
  <2>5. CASE DoorDone(c)
    BY <2>5 DEF DoorDone
  <2> QED
    BY <2>1, <2>2, <2>3, <2>4, <2>5 DEF CallersStep
<1>7. CASE Fires
  BY <1>1, <1>7 DEF Fires, Calls, NoCallback
<1>8. CASE OnTimer
  BY <1>1, <1>8 DEF OnTimer, Calls, NoCallback
<1>9. CASE OnTimerAgain
  BY <1>1, <1>9 DEF OnTimerAgain, Calls, NoCallback
<1>10. CASE DoorRestarts
  BY <1>1, <1>10 DEF DoorRestarts, Calls, NotCalling, NoCallback
<1> QED
  BY SeenBy, Steps, <1>2, <1>3, <1>4, <1>5, <1>6, <1>7, <1>8, <1>9, <1>10

(* What the barrier's variables hold. *)
TimingType ==
  /\ arm \in {"Raised", "Lowering", "Limp"} /\ mdoor \in Callers \union {"free"}
  /\ alarm \in Alarms /\ fired \in [for : Alarms, step : {"idle", "take", "stop", "start"}]
  /\ doorHoles \subseteq {"crossed", "cut", "servo"}

(* The barrier, its timer and its callback keep to their places. *)
LEMMA NextTiming ==
  ASSUME TimingType, Stay, DoorTypeOK, [DoorNext]_doorVars PROVE TimingType'
<1> USE DEF TimingType, Alarms, Callers
<1>1. CASE Seen \/ Punch \/ WindowPasses \/ Command \/ UNCHANGED doorVars
  BY <1>1 DEF Seen, Punch, WindowPasses, Command, doorVars, timing
<1>2. ASSUME NEW c \in Callers, CallersStep(c) PROVE TimingType'
  <2> USE <1>2 DEF timing
  <2>1. CASE TakeDoor(c)
    BY <2>1 DEF TakeDoor
  <2>2. CASE DoorTimeout(c) \/ DoorDone(c)
    BY <2>2 DEF DoorTimeout, DoorDone
  <2>3. CASE StopTimer(c)
    BY <2>3 DEF StopTimer, Stopped
  <2>4. CASE StartTimer(c)
    BY <2>4 DEF StartTimer, Started
  <2> QED
    BY <2>1, <2>2, <2>3, <2>4 DEF CallersStep
<1>3. CASE Fires
  BY <1>3 DEF Fires
<1>4. CASE OnTimer
  BY <1>4 DEF OnTimer, NoCallback
<1>5. CASE OnTimerAgain
  BY <1>5 DEF OnTimerAgain, NoCallback, Stopped, Started
<1>6. CASE DoorRestarts
  BY <1>6 DEF DoorRestarts, NoCallback
<1> QED
  BY SeenBy, Steps, <1>1, <1>2, <1>3, <1>4, <1>5, <1>6

(* What the stamps and the punches hold. *)
StampType ==
  /\ recent \in Seq(People) /\ Len(recent) <= KRecent
  /\ punches \in Seq(People \union {Restarted}) /\ Len(punches) <= MaxPunches

(* The ring and the window keep to their sizes. *)
LEMMA NextStampType ==
  ASSUME StampType, Stay, Ring, DoorTypeOK, [DoorNext]_doorVars PROVE StampType'
<1> USE DEF StampType
<1>1. CASE ~(Punch \/ WindowPasses \/ DoorRestarts)
  BY <1>1, SeenBy, Steps DEF Seen, Command, CallersStep, TakeDoor, DoorTimeout, StopTimer,
     StartTimer, DoorDone, Fires, OnTimer, OnTimerAgain, doorVars, mind, glass
<1>2. CASE Punch
  <2>1. call["attend"].who \in People
    BY <1>2 DEF Punch, DoorTypeOK, Callers
  <2> DEFINE kept == IF Len(recent) = KRecent THEN Tail(recent) ELSE recent
  <2>2. kept \in Seq(People) /\ Len(kept) < KRecent
    OBVIOUS
  <2>3. CASE UNCHANGED <<recent, punches>>
    BY <2>3
  <2>4. CASE /\ Len(punches) < MaxPunches
             /\ punches' = Append(punches, call["attend"].who) /\ recent' = Append(kept, call["attend"].who)
    <3> HIDE DEF kept
    <3> QED
      BY <2>1, <2>2, <2>4
  <2> QED
    BY <1>2, <2>3, <2>4 DEF Punch
<1>3. CASE WindowPasses
  BY <1>3 DEF WindowPasses, Ring
<1>4. CASE DoorRestarts
  BY <1>4 DEF DoorRestarts
<1> QED
  BY <1>1, <1>2, <1>3, <1>4

(* No step leaves the types. *)
LEMMA NextTypeOK ==
  ASSUME DoorTypeOK, Calls, Stay, Ring, [DoorNext]_doorVars PROVE DoorTypeOK'
<1>1. call' \in [Callers -> CallRecord]
  BY NextCalls
<1>2. TimingType' /\ StampType'
  BY NextTiming, NextStampType DEF DoorTypeOK, TimingType, StampType, Alarms
<1>3. /\ state' \in States /\ left' \in BOOLEAN /\ lastEmployee' \in People \union {Stranger}
      /\ standing' \in People \union {Nobody} /\ visit' \in Stays
  <2> USE DEF States, Stays
  <2>0. /\ state \in States /\ left \in BOOLEAN /\ lastEmployee \in People \union {Stranger}
        /\ standing \in People \union {Nobody} /\ visit \in Stays
    BY DEF DoorTypeOK
  <2>1. CASE Seen
    BY <2>0, <2>1 DEF Seen, LetsIn, Rests
  <2>2. CASE Punch \/ WindowPasses \/ DoorRestarts
    BY <2>0, <2>2 DEF Punch, WindowPasses, DoorRestarts, Excused
  <2>3. CASE ~(Seen \/ Punch \/ WindowPasses \/ DoorRestarts)
    BY <2>0, <2>3, SeenBy, Steps DEF Command, CallersStep, TakeDoor, DoorTimeout, StopTimer,
       StartTimer, DoorDone, Fires, OnTimer, OnTimerAgain, doorVars, mind, glass
  <2> QED
    BY <2>1, <2>2, <2>3
<1> QED
  BY <1>1, <1>2, <1>3 DEF DoorTypeOK, CallRecord, TimingType, StampType, States, Stays, Alarms

-----------------------------------------------------------------------------
(* The barrier. *)

(* A raised barrier keeps its timer, or the callback that will lower it. *)
LEMMA NextBarrier ==
  ASSUME DoorTypeOK, Calls, Stay, Barrier, BarrierKeepsItsTime, DoorNext
  PROVE  Barrier' /\ BarrierKeepsItsTime'
<1>1. /\ call \in [Callers -> CallRecord] /\ TimingType /\ doorHoles = {} /\ Raised /\ Inside
      /\ arm # "Limp" => alarm # "none" \/ fired # NoCallback \/ mdoor # "free"
  BY DEF DoorTypeOK, CallRecord, TimingType, Alarms, DoorNext, Barrier, BarrierKeepsItsTime
<1> USE <1>1 DEF Callers, CallRecord, TimingType, Alarms, Calls, Barrier, BarrierKeepsItsTime,
        Raised, Inside, Opening, timing
<1>2. CASE Seen
  <2>1. UNCHANGED timing /\ call'["sync"] = call["sync"]
    BY <1>2 DEF Seen, LetsIn, Rests, AsksOpen, AsksClose
  <2>2. call["attend"].step = "idle" \/ UNCHANGED call
    BY <1>2 DEF Seen, LetsIn, Rests, NotCalling
  <2>3. mdoor # "attend" \/ UNCHANGED call
    BY <2>2
  <2> QED
    BY <2>1, <2>3
<1>3. CASE Punch
  BY <1>3 DEF Punch, NotCalling
<1>4. CASE WindowPasses
  BY <1>4 DEF WindowPasses
<1>5. CASE Command
  BY <1>5 DEF Command, Asks, NotCalling
<1>6. ASSUME NEW c \in Callers, CallersStep(c) PROVE Barrier' /\ BarrierKeepsItsTime'
  <2> USE <1>6 DEF GoesTo
  <2>1. CASE TakeDoor(c)
    BY <2>1 DEF TakeDoor
  <2>2. CASE DoorTimeout(c) \/ DoorDone(c)
    BY <2>2 DEF DoorTimeout, DoorDone, NotCalling
  <2>3. CASE StopTimer(c)
    BY <2>3 DEF StopTimer, Stopped
  <2>4. CASE StartTimer(c)
    BY <2>4 DEF StartTimer, Started
  <2> QED
    BY <2>1, <2>2, <2>3, <2>4 DEF CallersStep
<1>7. CASE Fires
  BY <1>7 DEF Fires, NoCallback
<1>8. CASE OnTimer
  BY <1>8 DEF OnTimer, NoCallback
<1>9. CASE OnTimerAgain
  BY <1>9 DEF OnTimerAgain, NoCallback, Stopped, Started
<1>10. CASE DoorRestarts
  BY <1>10 DEF DoorRestarts, NoCallback, NotCalling
<1> QED
  BY SeenBy, Steps, <1>2, <1>3, <1>4, <1>5, <1>6, <1>7, <1>8, <1>9, <1>10

-----------------------------------------------------------------------------
(* The stamps. *)

(* Only a punch, the window and a restart touch them. *)
LEMMA StampsStay ==
  ASSUME DoorTypeOK, Stay, [DoorNext]_doorVars, ~(Punch \/ WindowPasses \/ DoorRestarts)
  PROVE  UNCHANGED <<recent, punches>>
  BY SeenBy, Steps DEF Seen, Command, CallersStep, TakeDoor, DoorTimeout, StopTimer,
     StartTimer, DoorDone, Fires, OnTimer, OnTimerAgain, doorVars, mind, glass

(* Stamped is to be among the stamps. *)
LEMMA StampedIsIn ==
  ASSUME NEW who, DoorTypeOK
  PROVE  StampedRecently(who) <=> \E k \in DOMAIN recent : recent[k] = who
  BY DEF StampedRecently, Range

(* A name leaves the ring only when as many others as it holds have come. *)
LEMMA NextRing ==
  ASSUME DoorTypeOK, Stay, Ring, OnePunchAWindow, [DoorNext]_doorVars
  PROVE  Ring' /\ OnePunchAWindow'
<1> DEFINE before == Len(punches) - Len(recent)
<1>1. StampType /\ KRecent \in Nat \ {0}
  BY DEF DoorTypeOK, StampType
<1>2. CASE UNCHANGED <<recent, punches>>
  BY <1>2 DEF Ring, OnePunchAWindow
<1>3. ASSUME NEW who \in People, ~StampedRecently(who), punches' = Append(punches, who),
             recent' = Append(IF Len(recent) = KRecent THEN Tail(recent) ELSE recent, who)
      PROVE  Ring' /\ OnePunchAWindow'
  <2> DEFINE kept == IF Len(recent) = KRecent THEN Tail(recent) ELSE recent
  <2>1. \A k \in DOMAIN recent : recent[k] # who
    BY <1>3, StampedIsIn
  <2>2. /\ kept \in Seq(People) /\ Len(kept) < KRecent /\ Len(kept) <= Len(punches)
        /\ \A k \in DOMAIN kept : kept[k] = punches[Len(punches) - Len(kept) + k]
        /\ Len(kept) < KRecent - 1 /\ Len(punches) > Len(kept) => punches[Len(punches) - Len(kept)] = Restarted
    BY <1>1 DEF StampType, Ring
  <2>3. recent' = Append(kept, who)
    BY <1>3
  <2> HIDE DEF kept
  <2>4. Ring'
    <3>1. /\ Len(recent') = Len(kept) + 1 /\ Len(punches') = Len(punches) + 1
          /\ \A k \in 1..Len(kept) : recent'[k] = kept[k]
          /\ \A k \in 1..Len(punches) : punches'[k] = punches[k]
          /\ recent'[Len(kept) + 1] = who /\ punches'[Len(punches) + 1] = who
      <4>1. punches \in Seq(People \union {Restarted}) /\ who \in People \union {Restarted}
        BY <1>1 DEF StampType
      <4>2. Len(recent') = Len(kept) + 1 /\ recent'[Len(kept) + 1] = who
            /\ \A k \in 1..Len(kept) : recent'[k] = kept[k]
        BY <2>2, <2>3, AppendProperties
      <4>3. Len(punches') = Len(punches) + 1 /\ punches'[Len(punches) + 1] = who
            /\ \A k \in 1..Len(punches) : punches'[k] = punches[k]
        BY <1>3, <4>1, AppendProperties
      <4> QED
        BY <4>2, <4>3
    <3> DEFINE left1 == Len(punches) - Len(kept)
    <3>2. left1 \in Nat /\ Len(punches') - Len(recent') = left1
      BY <1>1, <2>2, <3>1 DEF StampType
    <3>3. ASSUME NEW k \in 1..(Len(kept) + 1) PROVE recent'[k] = punches'[left1 + k]
      <4>1. CASE k = Len(kept) + 1
        BY <1>1, <2>2, <3>1, <4>1 DEF StampType
      <4>2. CASE k \in 1..Len(kept)
        <5>1. left1 + k \in 1..Len(punches)
          BY <1>1, <2>2, <4>2 DEF StampType
        <5> QED
          BY <2>2, <3>1, <4>2, <5>1
      <4> QED
        BY <2>2, <4>1, <4>2
    <3>4. Len(recent') < KRecent /\ left1 > 0 => punches'[left1] = Restarted
      BY <1>1, <2>2, <3>1 DEF StampType
    <3>5. DOMAIN recent' = 1..(Len(kept) + 1)
      BY <1>1, <1>3, <2>2, <2>3 DEF StampType
    <3> QED
      BY <3>2, <3>3, <3>4, <3>5 DEF Ring
  <2>5. OnePunchAWindow'
    <3> SUFFICES ASSUME NEW i \in DOMAIN punches', NEW j \in DOMAIN punches', i < j,
                        punches'[i] = punches'[j], punches'[i] # Restarted
                 PROVE  (\E k \in i..j : punches'[k] = Restarted) \/ j - i > KRecent
      BY DEF OnePunchAWindow
    <3>1. CASE j <= Len(punches)
      <4>1. i \in DOMAIN punches /\ j \in DOMAIN punches /\ \A k \in i..j : punches'[k] = punches[k]
        BY <1>1, <1>3, <3>1 DEF StampType
      <4> QED
        BY <1>1, <4>1 DEF OnePunchAWindow, StampType
    <3>2. CASE j = Len(punches) + 1
      <4>1. i \in DOMAIN punches /\ punches[i] = who
        BY <1>1, <1>3, <3>2 DEF StampType
      <4>2. i <= before
        <5>1. CASE i > before
          <6>1. i - before \in DOMAIN recent /\ before + (i - before) = i
            BY <1>1, <4>1, <5>1 DEF StampType, Ring
          <6> QED
            BY <2>1, <4>1, <6>1 DEF Ring
        <5> QED
          BY <1>1, <4>1, <5>1 DEF StampType
      <4>3. CASE Len(recent) = KRecent
        BY <1>1, <3>2, <4>1, <4>2, <4>3 DEF StampType
      <4>4. CASE Len(recent) < KRecent
        BY <1>1, <1>3, <3>2, <4>1, <4>2, <4>4 DEF StampType, Ring
      <4> QED
        BY <1>1, <4>3, <4>4 DEF StampType
    <3> QED
      BY <1>1, <1>3, <3>1, <3>2 DEF StampType
  <2> QED
    BY <2>4, <2>5
<1>4. CASE Punch
  <2>1. call["attend"].who \in People
    BY <1>4 DEF Punch, DoorTypeOK, Callers
  <2> QED
    BY <1>2, <1>3, <1>4, <2>1 DEF Punch
<1>5. CASE WindowPasses
  <2>1. /\ punches # <<>> /\ punches' = Tail(punches)
        /\ recent' = IF Len(recent) = Len(punches) THEN Tail(recent) ELSE recent
    BY <1>5 DEF WindowPasses
  <2>2. /\ Len(punches') = Len(punches) - 1
        /\ \A k \in DOMAIN punches' : punches'[k] = punches[k + 1]
    BY <1>1, <2>1 DEF StampType
  <2>3. Ring'
    <3>1. CASE before = 0
      <4>1. /\ Len(recent') = Len(recent) - 1
            /\ \A k \in DOMAIN recent' : recent'[k] = recent[k + 1] /\ k + 1 \in DOMAIN recent
        BY <1>1, <2>1, <3>1 DEF StampType
      <4> QED
        <5>1. Len(punches') - Len(recent') = 0
          BY <1>1, <2>2, <3>1, <4>1 DEF StampType
        <5>2. ASSUME NEW k \in DOMAIN recent' PROVE recent'[k] = punches'[0 + k]
          <6>0. recent' = Tail(recent) /\ recent # <<>> /\ recent \in Seq(People)
            BY <1>1, <2>1, <3>1 DEF StampType
          <6>1. k \in Int /\ 0 + k = k /\ k + 1 \in DOMAIN recent /\ recent'[k] = recent[k + 1] /\ k \in DOMAIN punches'
            <7>1. recent' \in Seq(People) /\ punches' \in Seq(People \union {Restarted})
              BY <1>1, <2>1, <6>0 DEF StampType
            <7>2. DOMAIN recent' = 1..Len(recent') /\ DOMAIN punches' = 1..Len(punches') /\ Len(recent') \in Nat
              BY <7>1
            <7> QED
              BY <4>1, <5>1, <5>2, <7>2
          <6>2. recent[k + 1] = punches[before + (k + 1)] /\ before + (k + 1) = k + 1
            BY <3>1, <6>1 DEF Ring
          <6> QED
            BY <2>2, <6>1, <6>2
        <5> QED
          BY <5>1, <5>2 DEF Ring
    <3>2. CASE before > 0
      <4>1. UNCHANGED recent
        BY <1>1, <2>1, <3>2 DEF StampType
      <4> QED
        <5>1. before - 1 \in Nat /\ Len(punches') - Len(recent') = before - 1
          BY <1>1, <2>2, <3>2, <4>1 DEF StampType
        <5>2. ASSUME NEW k \in DOMAIN recent' PROVE recent'[k] = punches'[(before - 1) + k]
          <6>1. /\ k \in DOMAIN recent /\ (before - 1) + k \in DOMAIN punches'
                /\ ((before - 1) + k) + 1 = before + k
            BY <1>1, <2>1, <2>2, <3>2, <4>1, <5>2 DEF StampType
          <6> QED
            BY <2>2, <4>1, <6>1 DEF Ring
        <5>3. Len(recent') < KRecent /\ before - 1 > 0 => punches'[before - 1] = Restarted
          <6>1. before - 1 > 0 => before - 1 \in DOMAIN punches' /\ (before - 1) + 1 = before
            BY <1>1, <2>1, <2>2, <3>2, <4>1 DEF StampType
          <6> QED
            BY <2>2, <3>2, <4>1, <6>1 DEF Ring
        <5> QED
          BY <5>1, <5>2, <5>3 DEF Ring
    <3> QED
      BY <1>1, <3>1, <3>2 DEF StampType, Ring
  <2>4. OnePunchAWindow'
    <3> SUFFICES ASSUME NEW i \in DOMAIN punches', NEW j \in DOMAIN punches', i < j,
                        punches'[i] = punches'[j], punches'[i] # Restarted
                 PROVE  (\E k \in i..j : punches'[k] = Restarted) \/ j - i > KRecent
      BY DEF OnePunchAWindow
    <3>1. /\ i + 1 \in DOMAIN punches /\ j + 1 \in DOMAIN punches /\ i \in Int /\ j \in Int
          /\ punches[i + 1] = punches'[i] /\ punches[j + 1] = punches'[j]
      BY <1>1, <2>1, <2>2 DEF StampType
    <3>2. (\E k \in (i + 1)..(j + 1) : punches[k] = Restarted) \/ (j + 1) - (i + 1) > KRecent
      BY <3>1 DEF OnePunchAWindow
    <3>3. ASSUME NEW k \in (i + 1)..(j + 1), punches[k] = Restarted
          PROVE  k - 1 \in i..j /\ punches'[k - 1] = Restarted
      <4>1. k \in Int /\ k - 1 \in i..j /\ (k - 1) + 1 = k
        BY <3>1, <3>3
      <4>2. k - 1 \in DOMAIN punches'
        BY <1>1, <2>1, <2>2, <3>1, <4>1 DEF StampType
      <4> QED
        BY <2>2, <3>3, <4>1, <4>2
    <3> QED
      BY <3>1, <3>2, <3>3
  <2> QED
    BY <2>3, <2>4
<1>6. CASE DoorRestarts
  <2>1. recent' = <<>> /\ IF punches = <<>> THEN UNCHANGED punches ELSE punches' = Append(punches, Restarted)
    BY <1>6 DEF DoorRestarts
  <2>2. Ring'
    BY <1>1, <2>1 DEF StampType, Ring
  <2>3. OnePunchAWindow'
    <3>1. CASE UNCHANGED punches
      BY <3>1 DEF OnePunchAWindow
    <3>2. CASE punches' = Append(punches, Restarted)
      <4> SUFFICES ASSUME NEW i \in DOMAIN punches', NEW j \in DOMAIN punches', i < j,
                          punches'[i] = punches'[j], punches'[i] # Restarted
                   PROVE  (\E k \in i..j : punches'[k] = Restarted) \/ j - i > KRecent
        BY DEF OnePunchAWindow
      <4>1. i \in DOMAIN punches /\ j \in DOMAIN punches /\ \A k \in i..j : punches'[k] = punches[k]
        BY <1>1, <3>2 DEF StampType
      <4> QED
        BY <1>1, <4>1 DEF OnePunchAWindow, StampType
    <3> QED
      BY <2>1, <3>1, <3>2
  <2> QED
    BY <2>2, <2>3
<1> QED
  BY <1>2, <1>4, <1>5, <1>6, StampsStay

-----------------------------------------------------------------------------
(* The stay at the glass. *)

(* What the state machine knows of the one who stands there. *)
LEMMA NextStay ==
  ASSUME DoorTypeOK, Calls, Ring, Stay, OneOpeningAnArrival, [DoorNext]_doorVars
  PROVE  Stay' /\ OneOpeningAnArrival'
<1>0. call \in [Callers -> CallRecord] /\ Nobody \notin People
  BY DEF DoorTypeOK, CallRecord
<1>1. visit \in Stays /\ left \in BOOLEAN /\ standing \in People \union {Nobody}
  BY DEF DoorTypeOK, Stays
<1>9. recent \in Seq(People) /\ punches \in Seq(People \union {Restarted}) /\ KRecent \in Nat \ {0}
  BY DEF DoorTypeOK
<1> USE DEF Callers, Stays
<1>2. CASE Seen
  <2>1. call["attend"] = NotCalling => call["attend"].who = Nobody
    BY <1>0 DEF NotCalling, CallRecord
  <2>2. UNCHANGED recent
    BY <1>2 DEF Seen
  <2>3. \A who : StampedRecently(who)' = StampedRecently(who)
    BY <2>2 DEF StampedRecently
  <2>4. CASE LetsIn
    <3>1. call'["attend"].who = standing
      BY <1>0, <2>4 DEF LetsIn, AsksOpen
    <3>2. visit # "opened" \/ (~left /\ lastEmployee = standing /\ StampedRecently(standing))
      BY <1>0, <1>1, <2>1, <2>4 DEF LetsIn, Stay
    <3> QED
      BY <1>1, <2>4, <3>1, <3>2 DEF LetsIn, Stay, OneOpeningAnArrival
  <2>5. CASE Rests
    <3>1. \/ UNCHANGED call
          \/ call["attend"].who = Nobody /\ call'["attend"].who = Nobody
      <4>1. UNCHANGED call \/ (call["attend"] = NotCalling /\ AsksClose)
        BY <2>5 DEF Rests
      <4>2. AsksClose => call'["attend"].who = Nobody
        BY <1>0 DEF AsksClose, CallRecord
      <4> QED
        BY <2>1, <4>1, <4>2
    <3>2. visit' = "opened" =>
            /\ visit = "opened" /\ UNCHANGED <<standing, left, lastEmployee>>
            /\ StampedRecently(standing)' = StampedRecently(standing)
      BY <2>2, <2>5 DEF Rests, Stay, StampedRecently
    <3>3. visit' = "opened" => standing \in People /\ (StampedRecently(standing) \/ call'["attend"].who = standing)
      BY <3>1, <3>2 DEF Stay
    <3> QED
      BY <1>1, <2>5, <3>1, <3>2, <3>3 DEF Rests, Stay, OneOpeningAnArrival
  <2> QED
    BY <1>2, <2>4, <2>5 DEF Seen
<1>3. CASE Punch
  <2> DEFINE who == call["attend"].who
  <2>1. who \in People /\ call'["attend"].who = Nobody /\ UNCHANGED <<left, lastEmployee, standing>>
    BY <1>0, <1>3 DEF Punch, NotCalling, CallRecord
  <2>2. visit = "opened" => standing = who
    BY <1>0, <2>1 DEF Stay
  <2>3. CASE StampedRecently(who) /\ UNCHANGED <<recent, visit>>
    BY <1>1, <2>1, <2>2, <2>3 DEF Stay, OneOpeningAnArrival, StampedRecently
  <2>4. CASE /\ recent' = Append(IF Len(recent) = KRecent THEN Tail(recent) ELSE recent, who)
             /\ UNCHANGED visit
    <3>1. \E k \in DOMAIN recent' : recent'[k] = who
      <4> DEFINE kept == IF Len(recent) = KRecent THEN Tail(recent) ELSE recent
      <4>1. kept \in Seq(People)
        BY <1>9
      <4>2. recent' = Append(kept, who)
        BY <2>4
      <4> HIDE DEF kept
      <4>3. Len(kept) + 1 \in DOMAIN recent' /\ recent'[Len(kept) + 1] = who
        BY <2>1, <4>1, <4>2, AppendProperties
      <4> QED
        BY <4>3
    <3> QED
      BY <1>1, <2>1, <2>2, <2>4, <3>1 DEF Stay, OneOpeningAnArrival, StampedRecently, Range
  <2>5. CASE visit' = IF standing = who THEN Excused(visit) ELSE visit
    BY <1>1, <2>1, <2>2, <2>5 DEF Stay, OneOpeningAnArrival, Excused
  <2> QED
    BY <1>3, <2>3, <2>4, <2>5 DEF Punch
<1>4. CASE WindowPasses
  <2>1. /\ punches # <<>> /\ recent' = IF Len(recent) = Len(punches) THEN Tail(recent) ELSE recent
        /\ visit' = IF standing = Head(punches) THEN Excused(visit) ELSE visit
        /\ UNCHANGED <<left, lastEmployee, call, standing>>
    BY <1>4 DEF WindowPasses
  <2>2. ASSUME visit' = "opened" PROVE visit = "opened" /\ standing # Head(punches)
    BY <1>1, <2>1, <2>2 DEF Excused
  <2>3. ASSUME visit' = "opened", StampedRecently(standing) PROVE StampedRecently(standing)'
    <3>1. PICK k \in DOMAIN recent : recent[k] = standing
      BY <2>3, StampedIsIn
    <3>2. CASE Len(recent) = Len(punches)
      <4>1. recent # <<>> /\ recent' = Tail(recent) /\ recent \in Seq(People) /\ k \in 1..Len(recent)
        BY <1>9, <2>1, <3>1, <3>2
      <4>2. recent[1] = punches[0 + 1] /\ Head(punches) = punches[1]
        BY <1>9, <2>1, <3>2, <4>1 DEF Ring
      <4>3. k # 1
        BY <2>2, <2>3, <3>1, <4>2
      <4>4. k - 1 \in DOMAIN recent' /\ recent'[k - 1] = recent[k]
        BY <4>1, <4>3
      <4> QED
        BY <2>1, <3>1, <4>4 DEF StampedRecently, Range
    <3>3. CASE Len(recent) # Len(punches)
      BY <2>1, <2>3, <3>3 DEF StampedRecently
    <3> QED
      BY <3>2, <3>3
  <2> QED
    BY <1>1, <2>1, <2>2, <2>3 DEF Stay, OneOpeningAnArrival, Excused
<1>5. CASE DoorRestarts
  BY <1>0, <1>1, <1>5 DEF DoorRestarts, Stay, OneOpeningAnArrival, Excused, NotCalling
<1>6. CASE ~(Seen \/ Punch \/ WindowPasses \/ DoorRestarts)
  <2>1. UNCHANGED <<left, lastEmployee, recent, standing, visit>>
    BY <1>6, SeenBy, Steps DEF Command, CallersStep, TakeDoor, DoorTimeout, StopTimer,
       StartTimer, DoorDone, Fires, OnTimer, OnTimerAgain, doorVars, mind, glass
  <2>2. call'["attend"].who = call["attend"].who
    <3>1. ASSUME NEW c \in Callers, DoorDone(c) PROVE call'["attend"].who = call["attend"].who
      BY <1>0, <3>1 DEF DoorDone, NotCalling
    <3>2. ASSUME NEW c \in Callers, GoesTo(c, "stop") \/ GoesTo(c, "start") \/ GoesTo(c, "back")
          PROVE  call'["attend"].who = call["attend"].who
      BY <1>0, <3>2 DEF GoesTo, CallRecord
    <3>3. Command => call'["attend"].who = call["attend"].who
      BY <1>0 DEF Command, Asks
    <3> QED
      BY <1>6, <3>1, <3>2, <3>3, SeenBy, Steps DEF CallersStep, TakeDoor, DoorTimeout, StopTimer,
         StartTimer, Fires, OnTimer, OnTimerAgain, doorVars
  <2> QED
    BY <2>1, <2>2 DEF Stay, OneOpeningAnArrival, StampedRecently
<1> QED
  BY <1>2, <1>3, <1>4, <1>5, <1>6

-----------------------------------------------------------------------------

DoorIInv == /\ DoorTypeOK /\ Calls /\ Ring /\ Stay /\ Barrier
        /\ OnePunchAWindow /\ OneOpeningAnArrival /\ BarrierKeepsItsTime

(* All of it holds of every reachable state. *)
LEMMA Inductive == DoorSpec => []DoorIInv
<1>1. DoorInit => DoorIInv
  BY InitAll DEF DoorIInv
<1>2. DoorIInv /\ [DoorNext]_doorVars => DoorIInv'
  <2> SUFFICES ASSUME DoorIInv, [DoorNext]_doorVars PROVE DoorIInv'
    OBVIOUS
  <2> USE DEF DoorIInv
  <2>1. DoorTypeOK' /\ Calls'
    BY NextTypeOK, NextCalls
  <2>2. Ring' /\ OnePunchAWindow'
    BY NextRing
  <2>3. Stay' /\ OneOpeningAnArrival'
    BY NextStay
  <2>4. Barrier' /\ BarrierKeepsItsTime'
    <3>1. CASE UNCHANGED doorVars
      BY <3>1 DEF doorVars, timing, Barrier, Raised, Inside, Opening, BarrierKeepsItsTime
    <3> QED
      BY <3>1, NextBarrier
  <2> QED
    BY <2>1, <2>2, <2>3, <2>4
<1> QED
  BY <1>1, <1>2, PTL DEF DoorSpec

(* The machine, the stamps, the timer and both callers keep their type. *)
THEOREM DoorTypeCorrect == DoorSpec => []DoorTypeOK
  BY Inductive, PTL DEF DoorIInv

(* Whoever comes in between, the dedup window holds one punch of each (stamped_recently). *)
THEOREM OnePunch == DoorSpec => []OnePunchAWindow
  BY Inductive, PTL DEF DoorIInv

(* An arrival opens the door once, and nobody is sent away unopened (same_arrival). *)
THEOREM OneOpening == DoorSpec => []OneOpeningAnArrival
  BY Inductive, PTL DEF DoorIInv

(* No earlier hold's timer lowers a later opening's barrier, and none is left up or under *)
(* power with nobody to end it, however open, close and callback interleave (servo_door).  *)
THEOREM BarrierTimed == DoorSpec => []BarrierKeepsItsTime
  BY Inductive, PTL DEF DoorIInv

(***************************************************************************)
(* The clock.                                                              *)
(***************************************************************************)
Sn == step["sntp"]
Ap == step["api"]
Good == {"ntp", "api"}

(* A kiosk that is off runs nothing. *)
Off ==
  ~powered => /\ Sn = "rest" /\ Ap = "rest" /\ alone /\ punching = NotPunching
              /\ source = "none" /\ wall = "unset" /\ ~marker

(* Where the two setters stand with each other: a sync that met nobody has the clock for
   itself, and one that met the other left it in doubt. *)
Meet ==
  /\ Sn \in {"raise", "time"} /\ alone => Ap = "rest" /\ wall = "ntp"
  /\ Sn \in {"raise", "time"} /\ ~alone => "chip" \in doubt
  /\ Sn = "raise" /\ ~alone => "wall" \in doubt
  /\ Sn # "rest" /\ Ap # "rest" => "chip" \in doubt
  /\ Ap = "set" => "wall" \in doubt \/ (source # "ntp" /\ Sn = "rest")

(* What the system clock was set from, by the source. *)
Wall ==
  /\ source \in Good \/ Sn \in {"raise", "time"} \/ Ap \in {"raise", "time"} => wall \in Good
  /\ source = "ntp" /\ "wall" \notin doubt => wall = "ntp"

(* What the chip holds, by the markers. *)
Chip ==
  /\ saved \/ marker \/ Sn = "oscillator" => chip.time \in Good
  /\ "chip" \notin doubt =>
       /\ saved => chip.time = "ntp" \/ Ap \in {"oscillator", "tell"}
       /\ marker => chip.time = "ntp" \/ Ap = "oscillator"
       /\ Sn = "oscillator" => chip.time = "ntp"

(* A record that is not flagged carries what NTP vouches for. *)
Vouched(rec) == rec.flagged \/ (rec.at # "since start" /\ (rec.sure => rec.at = "ntp"))

(* A punch under way is within the bound, the source it read still stands when it is
   stamped, and the records wait as they were stamped. *)
Punched ==
  /\ punching.busy => stamps < MaxStamps
  /\ punching.ntp => punching.busy /\ source = "ntp"
  /\ \A k \in 1 .. Len(backlog) : Vouched(backlog[k])

IInv == ClockTypeOK /\ Off /\ Meet /\ Wall /\ Chip /\ Punched /\ VouchedByNtp /\ PlacedByItsStart

(* Out of the factory nothing is claimed. *)
LEMMA ClockBegins == ClockInit => IInv
<1> SUFFICES ASSUME ClockInit PROVE IInv
  OBVIOUS
<1> USE DEF ClockInit, NotPunching, Setters, Sn, Ap
<1>1. ClockTypeOK
  <2>1. backlog \in Seq(Records)
    OBVIOUS
  <2>2. step \in [Setters -> {"rest", "raise", "set", "time", "oscillator", "tell"}]
    OBVIOUS
  <2>3. chip \in [time : Kinds \ {"unset"}, stopped : BOOLEAN]
    BY DEF Kinds
  <2>4. start \in 0 .. MaxStarts /\ stamps \in 0 .. MaxStamps
    BY ClockAssumption
  <2> QED
    BY <2>1, <2>2, <2>3, <2>4 DEF ClockTypeOK, Kinds
<1>2. Off /\ Meet /\ Wall /\ Chip /\ Punched
  BY DEF Off, Meet, Wall, Chip, Punched, Good
<1>3. VouchedByNtp /\ PlacedByItsStart
  BY DEF VouchedByNtp, PlacedByItsStart
<1> QED
  BY <1>1, <1>2, <1>3 DEF IInv

-----------------------------------------------------------------------------
(* The steps that leave punches alone: the power and the setters. *)

(* What they leave of the punches. *)
Untouched == UNCHANGED <<backlog, rows, stamps>>

(* The records and rows say nothing of the clock. *)
LEMMA RowsStay ==
  ASSUME IInv, Untouched, punching'.ntp => punching'.busy /\ source' = "ntp",
         punching'.busy => stamps < MaxStamps
  PROVE  Punched' /\ VouchedByNtp' /\ PlacedByItsStart'
BY DEF IInv, Untouched, Punched, Vouched, VouchedByNtp, PlacedByItsStart

(* A start believes what NVS says of the chip. *)
LEMMA PowersUpKeeps == ASSUME IInv, PowersUp PROVE IInv'
<1> USE DEF PowersUp, setting, sending, Sn, Ap, NotPunching
<1>1. ClockTypeOK'
  <2>1. chip' \in [time : Kinds \ {"unset"}, stopped : BOOLEAN]
    <3>1. chip \in [time : Kinds \ {"unset"}, stopped : BOOLEAN]
      BY DEF IInv, ClockTypeOK
    <3>2. chip' = chip \/ chip' = [chip EXCEPT !.stopped = TRUE]
      OBVIOUS
    <3> HIDE DEF PowersUp
    <3> QED
      BY <3>1, <3>2
  <2>2. source' \in {"none", "rtc", "ntp", "api"} /\ wall' \in Kinds
    BY <2>1 DEF IInv, ClockTypeOK, Kinds
  <2>3. doubt' \subseteq {"wall", "chip"}
    BY DEF IInv, ClockTypeOK
  <2>4. start' \in 0 .. MaxStarts
    <3>1. start < MaxStarts /\ start' = start + 1
      OBVIOUS
    <3> HIDE DEF PowersUp
    <3>2. start \in 0 .. MaxStarts /\ MaxStarts \in Nat
      BY ClockAssumption DEF IInv, ClockTypeOK
    <3> QED
      BY <3>1, <3>2
  <2> QED
    BY <2>1, <2>2, <2>3, <2>4 DEF IInv, ClockTypeOK
<1>2. Off'
  BY DEF Off
<1>3. Sn = "rest" /\ Ap = "rest" /\ punching = NotPunching
  BY DEF IInv, Off
<1>4. Sn' = "rest" /\ Ap' = "rest"
  BY <1>3
<1>5. Meet'
  BY <1>4 DEF Meet
<1>6. chip'.time = chip.time /\ chip.time \in Kinds \ {"unset"}
  <2>1. chip \in [time : Kinds \ {"unset"}, stopped : BOOLEAN]
    BY DEF IInv, ClockTypeOK
  <2>2. chip' = chip \/ chip' = [chip EXCEPT !.stopped = TRUE]
    OBVIOUS
  <2> HIDE DEF PowersUp
  <2> QED
    BY <2>1, <2>2
<1>7. saved => chip.time \in Good /\ ("chip" \notin doubt => chip.time = "ntp")
  BY <1>3 DEF IInv, Chip
<1>8. "chip" \in doubt => "chip" \in doubt' /\ "wall" \in doubt'
  OBVIOUS
<1>9. Wall'
  BY <1>4, <1>6, <1>7, <1>8 DEF Wall, Good
<1>10. Chip'
  BY <1>4, <1>6, <1>7, <1>8 DEF Chip
<1>11. Punched' /\ VouchedByNtp' /\ PlacedByItsStart'
  BY <1>3, RowsStay DEF Untouched
<1> QED
  BY <1>1, <1>2, <1>5, <1>9, <1>10, <1>11 DEF IInv

(* A cut leaves flash and chip, and doubts the two where a Date was on its way to NVS. *)
LEMMA PowerLostKeeps == ASSUME IInv, PowerLost PROVE IInv'
<1> USE DEF PowerLost, Sn, Ap, NotPunching, Setters
<1>1. ClockTypeOK'
  BY DEF IInv, ClockTypeOK, Kinds
<1>2. Off' /\ Meet' /\ Wall'
  BY DEF Off, Meet, Wall, Good
<1>3. Chip'
  BY DEF IInv, ClockTypeOK, Chip
<1>4. Punched' /\ VouchedByNtp' /\ PlacedByItsStart'
  BY RowsStay DEF Untouched
<1> QED
  BY <1>1, <1>2, <1>3, <1>4 DEF IInv

-----------------------------------------------------------------------------
(* The two setters. *)

(* A sync sets the clock, and meets the other setter or not. *)
LEMMA SntpSetsKeeps == ASSUME IInv, SntpSets PROVE IInv'
<1> USE DEF SntpSets, Unaffected, Gets, Is, sending
<1>1. ClockTypeOK'
  <2>1. step' \in [Setters -> {"rest", "raise", "set", "time", "oscillator", "tell"}]
    BY DEF IInv, ClockTypeOK, Setters
  <2>2. chip' \in [time : Kinds \ {"unset"}, stopped : BOOLEAN]
    BY DEF IInv, ClockTypeOK, Kinds, Wall, Good, Sn, Ap, Setters
  <2>3. wall' \in Kinds /\ source' \in {"none", "rtc", "ntp", "api"} /\ held' \in {"none", "rtc", "api"}
    BY DEF IInv, ClockTypeOK, Kinds
  <2>4. doubt' \subseteq {"wall", "chip"}
    BY DEF IInv, ClockTypeOK
  <2>5. alone' \in BOOLEAN /\ marker' \in BOOLEAN /\ saved' \in BOOLEAN
    BY DEF IInv, ClockTypeOK
  <2> QED
    BY <2>1, <2>2, <2>3, <2>4, <2>5 DEF IInv, ClockTypeOK
<1>2. /\ powered /\ Sn = "rest" /\ Sn' = "raise" /\ Ap' = Ap /\ wall' = "ntp"
      /\ alone' => Ap = "rest"
      /\ ~alone' => {"wall", "chip"} \subseteq doubt'
      /\ Ap # "rest" => {"wall", "chip"} \subseteq doubt'
  BY DEF IInv, ClockTypeOK, Sn, Ap, Setters
<1>3. Off' /\ Meet'
  <2>1. Off'
    BY <1>2 DEF IInv, Off
  <2>2. Meet'
    BY <1>2 DEF IInv, Meet, Good
  <2> QED
    BY <2>1, <2>2
<1>4. Wall'
  BY <1>2 DEF IInv, Meet, Wall, Good
<1>5. Chip'
  BY <1>2 DEF IInv, Meet, Wall, Chip, Good
<1>6. Punched' /\ VouchedByNtp' /\ PlacedByItsStart'
  BY <1>2, RowsStay DEF Untouched, IInv, Punched
<1> QED
  BY <1>1, <1>3, <1>4, <1>5, <1>6 DEF IInv

(* The source rises; alone, it says what the clock holds. *)
LEMMA SntpRaisesKeeps == ASSUME IInv, SntpRaises PROVE IInv'
<1> USE DEF SntpRaises, Unaffected, Gets, Is, sending
<1>1. ClockTypeOK'
  <2>1. step' \in [Setters -> {"rest", "raise", "set", "time", "oscillator", "tell"}]
    BY DEF IInv, ClockTypeOK, Setters
  <2>2. chip' \in [time : Kinds \ {"unset"}, stopped : BOOLEAN]
    BY DEF IInv, ClockTypeOK, Kinds, Wall, Good, Sn, Ap, Setters
  <2>3. wall' \in Kinds /\ source' \in {"none", "rtc", "ntp", "api"} /\ held' \in {"none", "rtc", "api"}
    BY DEF IInv, ClockTypeOK, Kinds
  <2>4. doubt' \subseteq {"wall", "chip"}
    BY DEF IInv, ClockTypeOK
  <2>5. alone' \in BOOLEAN /\ marker' \in BOOLEAN /\ saved' \in BOOLEAN
    BY DEF IInv, ClockTypeOK
  <2> QED
    BY <2>1, <2>2, <2>3, <2>4, <2>5 DEF IInv, ClockTypeOK
<1>2. powered /\ Sn = "raise" /\ Sn' = "time" /\ Ap' = Ap
  BY DEF IInv, ClockTypeOK, Sn, Ap, Setters
<1>3. Off' /\ Meet'
  <2>1. Off'
    BY <1>2 DEF IInv, Off
  <2>2. Meet'
    BY <1>2 DEF IInv, Meet, Good
  <2> QED
    BY <2>1, <2>2
<1>4. Wall'
  BY <1>2 DEF IInv, Meet, Wall, Good
<1>5. Chip'
  BY <1>2 DEF IInv, Meet, Wall, Chip, Good
<1>6. Punched' /\ VouchedByNtp' /\ PlacedByItsStart'
  BY <1>2, RowsStay DEF Untouched, IInv, Punched
<1> QED
  BY <1>1, <1>3, <1>4, <1>5, <1>6 DEF IInv

(* A Date is heard while NTP does not hold the source. *)
LEMMA ApiHearsKeeps == ASSUME IInv, ApiHears PROVE IInv'
<1> USE DEF ApiHears, Unaffected, Gets, Is, sending
<1>1. ClockTypeOK'
  <2>1. step' \in [Setters -> {"rest", "raise", "set", "time", "oscillator", "tell"}]
    BY DEF IInv, ClockTypeOK, Setters
  <2>2. chip' \in [time : Kinds \ {"unset"}, stopped : BOOLEAN]
    BY DEF IInv, ClockTypeOK, Kinds, Wall, Good, Sn, Ap, Setters
  <2>3. wall' \in Kinds /\ source' \in {"none", "rtc", "ntp", "api"} /\ held' \in {"none", "rtc", "api"}
    BY DEF IInv, ClockTypeOK, Kinds
  <2>4. doubt' \subseteq {"wall", "chip"}
    BY DEF IInv, ClockTypeOK
  <2>5. alone' \in BOOLEAN /\ marker' \in BOOLEAN /\ saved' \in BOOLEAN
    BY DEF IInv, ClockTypeOK
  <2> QED
    BY <2>1, <2>2, <2>3, <2>4, <2>5 DEF IInv, ClockTypeOK
<1>2. powered /\ Ap = "rest" /\ Ap' = "set" /\ Sn' = Sn /\ (Sn # "rest" => {"wall", "chip"} \subseteq doubt')
      /\ (Sn \in {"raise", "time"} => ~alone')
  BY DEF IInv, ClockTypeOK, Sn, Ap, Setters
<1>3. Off' /\ Meet'
  <2>1. Off'
    BY <1>2 DEF IInv, Off
  <2>2. Meet'
    BY <1>2 DEF IInv, Meet, Good
  <2> QED
    BY <2>1, <2>2
<1>4. Wall'
  BY <1>2 DEF IInv, Meet, Wall, Good
<1>5. Chip'
  BY <1>2 DEF IInv, Meet, Wall, Chip, Good
<1>6. Punched' /\ VouchedByNtp' /\ PlacedByItsStart'
  BY <1>2, RowsStay DEF Untouched, IInv, Punched
<1> QED
  BY <1>1, <1>3, <1>4, <1>5, <1>6 DEF IInv

(* The Date steps the clock; were it NTP's, the two would have met. *)
LEMMA ApiSetsKeeps == ASSUME IInv, ApiSets PROVE IInv'
<1> USE DEF ApiSets, Unaffected, Gets, Is, sending
<1>1. ClockTypeOK'
  <2>1. step' \in [Setters -> {"rest", "raise", "set", "time", "oscillator", "tell"}]
    BY DEF IInv, ClockTypeOK, Setters
  <2>2. chip' \in [time : Kinds \ {"unset"}, stopped : BOOLEAN]
    BY DEF IInv, ClockTypeOK, Kinds, Wall, Good, Sn, Ap, Setters
  <2>3. wall' \in Kinds /\ source' \in {"none", "rtc", "ntp", "api"} /\ held' \in {"none", "rtc", "api"}
    BY DEF IInv, ClockTypeOK, Kinds
  <2>4. doubt' \subseteq {"wall", "chip"}
    BY DEF IInv, ClockTypeOK
  <2>5. alone' \in BOOLEAN /\ marker' \in BOOLEAN /\ saved' \in BOOLEAN
    BY DEF IInv, ClockTypeOK
  <2> QED
    BY <2>1, <2>2, <2>3, <2>4, <2>5 DEF IInv, ClockTypeOK
<1>2. /\ powered /\ Ap = "set" /\ Sn' = Sn
      /\ \/ Ap' = "rest" /\ wall' = wall
         \/ Ap' = "raise" /\ wall' = "api"
  BY DEF IInv, ClockTypeOK, Sn, Ap, Setters
<1>3. Off' /\ Meet'
  <2>1. Off'
    BY <1>2 DEF IInv, Off
  <2>2. Meet'
    BY <1>2 DEF IInv, Meet, Good
  <2> QED
    BY <2>1, <2>2
<1>4. Wall'
  BY <1>2 DEF IInv, Meet, Wall, Good
<1>5. Chip'
  BY <1>2 DEF IInv, Meet, Wall, Chip, Good
<1>6. Punched' /\ VouchedByNtp' /\ PlacedByItsStart'
  BY <1>2, RowsStay DEF Untouched, IInv, Punched
<1> QED
  BY <1>1, <1>3, <1>4, <1>5, <1>6 DEF IInv

(* The exchange leaves NTP's source alone. *)
LEMMA ApiRaisesKeeps == ASSUME IInv, ApiRaises PROVE IInv'
<1> USE DEF ApiRaises, Unaffected, Gets, Is, sending
<1>1. ClockTypeOK'
  <2>1. step' \in [Setters -> {"rest", "raise", "set", "time", "oscillator", "tell"}]
    BY DEF IInv, ClockTypeOK, Setters
  <2>2. chip' \in [time : Kinds \ {"unset"}, stopped : BOOLEAN]
    BY DEF IInv, ClockTypeOK, Kinds, Wall, Good, Sn, Ap, Setters
  <2>3. wall' \in Kinds /\ source' \in {"none", "rtc", "ntp", "api"} /\ held' \in {"none", "rtc", "api"}
    BY DEF IInv, ClockTypeOK, Kinds
  <2>4. doubt' \subseteq {"wall", "chip"}
    BY DEF IInv, ClockTypeOK
  <2>5. alone' \in BOOLEAN /\ marker' \in BOOLEAN /\ saved' \in BOOLEAN
    BY DEF IInv, ClockTypeOK
  <2> QED
    BY <2>1, <2>2, <2>3, <2>4, <2>5 DEF IInv, ClockTypeOK
<1>2. /\ powered /\ Ap = "raise" /\ Sn' = Sn
      /\ \/ Ap' = "rest" /\ source' = source
         \/ Ap' = "time" /\ source' = "api" /\ source # "ntp"
  BY DEF IInv, ClockTypeOK, Sn, Ap, Setters
<1>3. Off' /\ Meet'
  <2>1. Off'
    BY <1>2 DEF IInv, Off
  <2>2. Meet'
    BY <1>2 DEF IInv, Meet, Good
  <2> QED
    BY <2>1, <2>2
<1>4. Wall'
  BY <1>2 DEF IInv, Meet, Wall, Good
<1>5. Chip'
  BY <1>2 DEF IInv, Meet, Wall, Chip, Good
<1>6. Punched' /\ VouchedByNtp' /\ PlacedByItsStart'
  BY <1>2, RowsStay DEF Untouched, IInv, Punched
<1> QED
  BY <1>1, <1>3, <1>4, <1>5, <1>6 DEF IInv

(* NTP writes the clock to the chip, or fails. *)
LEMMA SntpSetsTimeKeeps == ASSUME IInv, SetsTime("sntp") PROVE IInv'
<1> USE DEF SetsTime, Unaffected, Gets, Is, sending
<1>1. ClockTypeOK'
  <2>1. step' \in [Setters -> {"rest", "raise", "set", "time", "oscillator", "tell"}]
    BY DEF IInv, ClockTypeOK, Setters
  <2>2. chip' \in [time : Kinds \ {"unset"}, stopped : BOOLEAN]
    BY DEF IInv, ClockTypeOK, Kinds, Wall, Good, Sn, Ap, Setters
  <2>3. wall' \in Kinds /\ source' \in {"none", "rtc", "ntp", "api"} /\ held' \in {"none", "rtc", "api"}
    BY DEF IInv, ClockTypeOK, Kinds
  <2>4. doubt' \subseteq {"wall", "chip"}
    BY DEF IInv, ClockTypeOK
  <2>5. alone' \in BOOLEAN /\ marker' \in BOOLEAN /\ saved' \in BOOLEAN
    BY DEF IInv, ClockTypeOK
  <2> QED
    BY <2>1, <2>2, <2>3, <2>4, <2>5 DEF IInv, ClockTypeOK
<1>2. /\ powered /\ Sn = "time" /\ Ap' = Ap
      /\ \/ Sn' = "oscillator" /\ chip'.time = wall
         \/ Sn' = "tell" /\ chip' = chip /\ doubt' = doubt
  BY DEF IInv, ClockTypeOK, Sn, Ap, Setters
<1>3. Off' /\ Meet'
  <2>1. Off'
    BY <1>2 DEF IInv, Off
  <2>2. Meet'
    BY <1>2 DEF IInv, Meet, Good
  <2> QED
    BY <2>1, <2>2
<1>4. Wall'
  BY <1>2 DEF IInv, Meet, Wall, Good
<1>5. Chip'
  BY <1>2 DEF IInv, Meet, Wall, Chip, Good
<1>6. Punched' /\ VouchedByNtp' /\ PlacedByItsStart'
  BY <1>2, RowsStay DEF Untouched, IInv, Punched
<1> QED
  BY <1>1, <1>3, <1>4, <1>5, <1>6 DEF IInv

(* The api writes the clock to the chip, or fails. *)
LEMMA ApiSetsTimeKeeps == ASSUME IInv, SetsTime("api") PROVE IInv'
<1> USE DEF SetsTime, Unaffected, Gets, Is, sending
<1>1. ClockTypeOK'
  <2>1. step' \in [Setters -> {"rest", "raise", "set", "time", "oscillator", "tell"}]
    BY DEF IInv, ClockTypeOK, Setters
  <2>2. chip' \in [time : Kinds \ {"unset"}, stopped : BOOLEAN]
    BY DEF IInv, ClockTypeOK, Kinds, Wall, Good, Sn, Ap, Setters
  <2>3. wall' \in Kinds /\ source' \in {"none", "rtc", "ntp", "api"} /\ held' \in {"none", "rtc", "api"}
    BY DEF IInv, ClockTypeOK, Kinds
  <2>4. doubt' \subseteq {"wall", "chip"}
    BY DEF IInv, ClockTypeOK
  <2>5. alone' \in BOOLEAN /\ marker' \in BOOLEAN /\ saved' \in BOOLEAN
    BY DEF IInv, ClockTypeOK
  <2> QED
    BY <2>1, <2>2, <2>3, <2>4, <2>5 DEF IInv, ClockTypeOK
<1>2. /\ powered /\ Ap = "time" /\ Sn' = Sn
      /\ \/ Ap' = "oscillator" /\ chip'.time = wall
         \/ Ap' = "tell" /\ chip' = chip /\ doubt' = doubt
  BY DEF IInv, ClockTypeOK, Sn, Ap, Setters
<1>3. Off' /\ Meet'
  <2>1. Off'
    BY <1>2 DEF IInv, Off
  <2>2. Meet'
    BY <1>2 DEF IInv, Meet, Good
  <2> QED
    BY <2>1, <2>2
<1>4. Wall'
  BY <1>2 DEF IInv, Meet, Wall, Good
<1>5. Chip'
  BY <1>2 DEF IInv, Meet, Wall, Chip, Good
<1>6. Punched' /\ VouchedByNtp' /\ PlacedByItsStart'
  BY <1>2, RowsStay DEF Untouched, IInv, Punched
<1> QED
  BY <1>1, <1>3, <1>4, <1>5, <1>6 DEF IInv

(* NTP clears the oscillator flag and sets the marker, or leaves both. *)
LEMMA SntpClearsStoppedKeeps == ASSUME IInv, ClearsStopped("sntp") PROVE IInv'
<1> USE DEF ClearsStopped, Unaffected, Gets, Is, sending
<1>1. ClockTypeOK'
  <2>1. step' \in [Setters -> {"rest", "raise", "set", "time", "oscillator", "tell"}]
    BY DEF IInv, ClockTypeOK, Setters
  <2>2. chip' \in [time : Kinds \ {"unset"}, stopped : BOOLEAN]
    BY DEF IInv, ClockTypeOK, Kinds, Wall, Good, Sn, Ap, Setters
  <2>3. wall' \in Kinds /\ source' \in {"none", "rtc", "ntp", "api"} /\ held' \in {"none", "rtc", "api"}
    BY DEF IInv, ClockTypeOK, Kinds
  <2>4. doubt' \subseteq {"wall", "chip"}
    BY DEF IInv, ClockTypeOK
  <2>5. alone' \in BOOLEAN /\ marker' \in BOOLEAN /\ saved' \in BOOLEAN
    BY DEF IInv, ClockTypeOK
  <2> QED
    BY <2>1, <2>2, <2>3, <2>4, <2>5 DEF IInv, ClockTypeOK
<1>2. /\ powered /\ Sn = "oscillator" /\ Ap' = Ap /\ Sn' = "tell" /\ chip'.time = chip.time
      /\ doubt \subseteq doubt'
  BY DEF IInv, ClockTypeOK, Sn, Ap, Setters
<1>3. Off' /\ Meet'
  <2>1. Off'
    BY <1>2 DEF IInv, Off
  <2>2. Meet'
    BY <1>2 DEF IInv, Meet, Good
  <2> QED
    BY <2>1, <2>2
<1>4. Wall'
  BY <1>2 DEF IInv, Meet, Wall, Good
<1>5. Chip'
  BY <1>2 DEF IInv, Meet, Wall, Chip, Good
<1>6. Punched' /\ VouchedByNtp' /\ PlacedByItsStart'
  BY <1>2, RowsStay DEF Untouched, IInv, Punched
<1> QED
  BY <1>1, <1>3, <1>4, <1>5, <1>6 DEF IInv

(* The api clears the oscillator flag and sets the marker, or leaves both. *)
LEMMA ApiClearsStoppedKeeps == ASSUME IInv, ClearsStopped("api") PROVE IInv'
<1> USE DEF ClearsStopped, Unaffected, Gets, Is, sending
<1>1. ClockTypeOK'
  <2>1. step' \in [Setters -> {"rest", "raise", "set", "time", "oscillator", "tell"}]
    BY DEF IInv, ClockTypeOK, Setters
  <2>2. chip' \in [time : Kinds \ {"unset"}, stopped : BOOLEAN]
    BY DEF IInv, ClockTypeOK, Kinds, Wall, Good, Sn, Ap, Setters
  <2>3. wall' \in Kinds /\ source' \in {"none", "rtc", "ntp", "api"} /\ held' \in {"none", "rtc", "api"}
    BY DEF IInv, ClockTypeOK, Kinds
  <2>4. doubt' \subseteq {"wall", "chip"}
    BY DEF IInv, ClockTypeOK
  <2>5. alone' \in BOOLEAN /\ marker' \in BOOLEAN /\ saved' \in BOOLEAN
    BY DEF IInv, ClockTypeOK
  <2> QED
    BY <2>1, <2>2, <2>3, <2>4, <2>5 DEF IInv, ClockTypeOK
<1>2. /\ powered /\ Ap = "oscillator" /\ Sn' = Sn /\ Ap' = "tell" /\ chip'.time = chip.time
      /\ doubt \subseteq doubt'
      /\ saved' = saved /\ (marker' = FALSE \/ (marker' = marker /\ "chip" \in doubt'))
  BY DEF IInv, ClockTypeOK, Sn, Ap, Setters
<1>3. Off' /\ Meet'
  <2>1. Off'
    BY <1>2 DEF IInv, Off
  <2>2. Meet'
    BY <1>2 DEF IInv, Meet, Good
  <2> QED
    BY <2>1, <2>2
<1>4. Wall'
  BY <1>2 DEF IInv, Meet, Wall, Good
<1>5. Chip'
  BY <1>2 DEF IInv, Meet, Wall, Chip, Good
<1>6. Punched' /\ VouchedByNtp' /\ PlacedByItsStart'
  BY <1>2, RowsStay DEF Untouched, IInv, Punched
<1> QED
  BY <1>1, <1>3, <1>4, <1>5, <1>6 DEF IInv

(* NTP has the marker written to NVS, or fails to. *)
LEMMA SntpTellsKeeps == ASSUME IInv, Tells("sntp") PROVE IInv'
<1> USE DEF Tells, Unaffected, Gets, Is, sending
<1>1. ClockTypeOK'
  <2>1. step' \in [Setters -> {"rest", "raise", "set", "time", "oscillator", "tell"}]
    BY DEF IInv, ClockTypeOK, Setters
  <2>2. chip' \in [time : Kinds \ {"unset"}, stopped : BOOLEAN]
    BY DEF IInv, ClockTypeOK, Kinds, Wall, Good, Sn, Ap, Setters
  <2>3. wall' \in Kinds /\ source' \in {"none", "rtc", "ntp", "api"} /\ held' \in {"none", "rtc", "api"}
    BY DEF IInv, ClockTypeOK, Kinds
  <2>4. doubt' \subseteq {"wall", "chip"}
    BY DEF IInv, ClockTypeOK
  <2>5. alone' \in BOOLEAN /\ marker' \in BOOLEAN /\ saved' \in BOOLEAN
    BY DEF IInv, ClockTypeOK
  <2> QED
    BY <2>1, <2>2, <2>3, <2>4, <2>5 DEF IInv, ClockTypeOK
<1>2. /\ powered /\ Sn = "tell" /\ Ap' = Ap /\ Sn' = "rest"
  BY DEF IInv, ClockTypeOK, Sn, Ap, Setters
<1>3. Off' /\ Meet'
  <2>1. Off'
    BY <1>2 DEF IInv, Off
  <2>2. Meet'
    BY <1>2 DEF IInv, Meet, Good
  <2> QED
    BY <2>1, <2>2
<1>4. Wall'
  BY <1>2 DEF IInv, Meet, Wall, Good
<1>5. Chip'
  BY <1>2 DEF IInv, Meet, Wall, Chip, Good
<1>6. Punched' /\ VouchedByNtp' /\ PlacedByItsStart'
  BY <1>2, RowsStay DEF Untouched, IInv, Punched
<1> QED
  BY <1>1, <1>3, <1>4, <1>5, <1>6 DEF IInv

(* The api has the marker written to NVS, or fails to. *)
LEMMA ApiTellsKeeps == ASSUME IInv, Tells("api") PROVE IInv'
<1> USE DEF Tells, Unaffected, Gets, Is, sending
<1>1. ClockTypeOK'
  <2>1. step' \in [Setters -> {"rest", "raise", "set", "time", "oscillator", "tell"}]
    BY DEF IInv, ClockTypeOK, Setters
  <2>2. chip' \in [time : Kinds \ {"unset"}, stopped : BOOLEAN]
    BY DEF IInv, ClockTypeOK, Kinds, Wall, Good, Sn, Ap, Setters
  <2>3. wall' \in Kinds /\ source' \in {"none", "rtc", "ntp", "api"} /\ held' \in {"none", "rtc", "api"}
    BY DEF IInv, ClockTypeOK, Kinds
  <2>4. doubt' \subseteq {"wall", "chip"}
    BY DEF IInv, ClockTypeOK
  <2>5. alone' \in BOOLEAN /\ marker' \in BOOLEAN /\ saved' \in BOOLEAN
    BY DEF IInv, ClockTypeOK
  <2> QED
    BY <2>1, <2>2, <2>3, <2>4, <2>5 DEF IInv, ClockTypeOK
<1>2. /\ powered /\ Ap = "tell" /\ Sn' = Sn /\ Ap' = "rest"
  BY DEF IInv, ClockTypeOK, Sn, Ap, Setters
<1>3. Off' /\ Meet'
  <2>1. Off'
    BY <1>2 DEF IInv, Off
  <2>2. Meet'
    BY <1>2 DEF IInv, Meet, Good
  <2> QED
    BY <2>1, <2>2
<1>4. Wall'
  BY <1>2 DEF IInv, Meet, Wall, Good
<1>5. Chip'
  BY <1>2 DEF IInv, Meet, Wall, Chip, Good
<1>6. Punched' /\ VouchedByNtp' /\ PlacedByItsStart'
  BY <1>2, RowsStay DEF Untouched, IInv, Punched
<1> QED
  BY <1>1, <1>3, <1>4, <1>5, <1>6 DEF IInv

-----------------------------------------------------------------------------
(* The punches. *)

(* The clock, the marker and the chip as they were. *)
LEMMA ClockStays ==
  ASSUME IInv, UNCHANGED <<powered, keeping>>, ~powered => punching' = NotPunching
  PROVE  Off' /\ Meet' /\ Wall' /\ Chip'
BY DEF IInv, keeping, setting, Off, Meet, Wall, Chip, Sn, Ap

(* A punch reads the source. *)
LEMMA ReadsSourceKeeps == ASSUME IInv, ReadsSource PROVE IInv'
<1> USE DEF ReadsSource, sending
<1>1. ClockTypeOK'
  BY DEF IInv, ClockTypeOK, keeping, setting
<1>2. Off' /\ Meet' /\ Wall' /\ Chip'
  BY ClockStays
<1>3. Punched' /\ VouchedByNtp' /\ PlacedByItsStart'
  BY RowsStay DEF Untouched, keeping
<1> QED
  BY <1>1, <1>2, <1>3 DEF IInv

(* What is stamped is vouched for: the source the punch read still stands. *)
LEMMA StampsKeeps == ASSUME IInv, Stamps PROVE IInv'
<1> DEFINE new == [id |-> stamps', start |-> start, flagged |-> ~punching.ntp,
                   at |-> IF source = "none" THEN "since start" ELSE wall,
                   sure |-> punching.ntp /\ "wall" \notin doubt]
<1>1. stamps' \in 1 .. MaxStamps
  <2>1. punching.busy => stamps < MaxStamps
    BY DEF IInv, Punched
  <2>2. stamps \in 0 .. MaxStamps /\ MaxStamps \in Nat
    BY ClockAssumption DEF IInv, ClockTypeOK
  <2>3. stamps' = stamps + 1 /\ punching.busy
    BY DEF Stamps
  <2> QED
    BY <2>1, <2>2, <2>3
<1>2. new \in Records
  <2>1. wall \in Times /\ start \in 0 .. MaxStarts /\ punching.ntp \in BOOLEAN
    BY DEF IInv, ClockTypeOK, Times
  <2> QED
    BY <1>1, <2>1 DEF Records, Times
<1>3. backlog \in Seq(Records) /\ backlog' = Append(backlog, new)
  BY DEF IInv, ClockTypeOK, Stamps
<1>4. Vouched(new)
  <2>1. punching.ntp => source = "ntp"
    BY DEF IInv, Punched
  <2>2. wall # "since start" /\ punching.ntp \in BOOLEAN
    BY DEF IInv, ClockTypeOK, Kinds
  <2>3. source = "ntp" /\ "wall" \notin doubt => wall = "ntp"
    BY DEF IInv, Wall
  <2> QED
    BY <2>1, <2>2, <2>3 DEF Vouched
<1> HIDE DEF new
<1>5. backlog' \in Seq(Records)
  BY <1>2, <1>3, AppendProperties
<1>6. \A k \in 1 .. Len(backlog') : Vouched(backlog'[k])
  <2> SUFFICES ASSUME NEW k \in 1 .. Len(backlog') PROVE Vouched(backlog'[k])
    OBVIOUS
  <2>1. k \in 1 .. Len(backlog) => Vouched(backlog[k])
    BY DEF IInv, Punched
  <2>2. /\ k \in 1 .. Len(backlog) => backlog'[k] = backlog[k]
        /\ k \notin 1 .. Len(backlog) => backlog'[k] = new
    BY <1>2, <1>3, AppendProperties
  <2> QED
    BY <1>4, <2>1, <2>2
<1>7. ClockTypeOK'
  <2>1. stamps' \in 0 .. MaxStamps
    BY <1>1
  <2> QED
    BY <1>5, <2>1 DEF IInv, ClockTypeOK, Stamps, NotPunching, keeping, setting
<1>8. Off' /\ Meet' /\ Wall' /\ Chip'
  BY ClockStays DEF Stamps
<1>9. Punched'
  BY <1>6 DEF Stamps, NotPunching, Punched, Vouched
<1>10. VouchedByNtp' /\ PlacedByItsStart'
  BY DEF IInv, Stamps, VouchedByNtp, PlacedByItsStart
<1> QED
  BY <1>7, <1>8, <1>9, <1>10 DEF IInv

-----------------------------------------------------------------------------
(* sync_task. *)

(* It leaves the clock and the punch that is being taken. *)
LEMMA Beside ==
  ASSUME IInv, UNCHANGED <<powered, keeping, punching>>
  PROVE  Off' /\ Meet' /\ Wall' /\ Chip' /\ (punching'.ntp => punching'.busy /\ source' = "ntp")
         /\ (punching'.busy => stamps < MaxStamps)
<1>1. ~powered => punching' = NotPunching
  BY DEF IInv, Off
<1>2. /\ punching'.ntp => punching'.busy /\ source' = "ntp"
      /\ punching'.busy => stamps < MaxStamps
  BY DEF IInv, Punched, keeping
<1> QED
  BY <1>1, <1>2, ClockStays

(* A round that gives up waiting, begins a drain or ends one sends nothing. *)
LEMMA RoundKeeps == ASSUME IInv, GivesUp \/ DrainBegins \/ DrainEnds PROVE IInv'
<1>1. source \in Good => wall \in Good
  BY DEF IInv, Wall
<1>2. draining' \in {"rest", "no clock", "ntp", "api"}
  BY <1>1 DEF IInv, ClockTypeOK, GivesUp, DrainBegins, DrainEnds, Trusted, Good
<1>3. UNCHANGED <<powered, keeping, punching, backlog, start, stamps, rows>> /\ givenUp' \in BOOLEAN
  BY DEF IInv, ClockTypeOK, GivesUp, DrainBegins, DrainEnds
<1>4. ClockTypeOK'
  BY <1>2, <1>3 DEF IInv, ClockTypeOK, keeping, setting
<1>5. /\ Off' /\ Meet' /\ Wall' /\ Chip'
      /\ punching'.ntp => punching'.busy /\ source' = "ntp"
      /\ punching'.busy => stamps < MaxStamps
  BY <1>3, Beside
<1>6. Punched' /\ VouchedByNtp' /\ PlacedByItsStart'
  BY <1>3, <1>5, RowsStay DEF Untouched
<1> QED
  BY <1>4, <1>5, <1>6 DEF IInv

(* What the server stores of a record that is vouched for and placed. *)
LEMMA StoredKeeps ==
  ASSUME IInv, NEW rec \in Records, Vouched(rec), Place(rec) # "held", draining # "rest", Stored(rec)
  PROVE  /\ VouchedByNtp' /\ PlacedByItsStart'
         /\ rows' \subseteq [id : 1 .. MaxStamps, at : Times, flagged : BOOLEAN, sure : BOOLEAN,
                             ts : Times, own : BOOLEAN, gaveUp : BOOLEAN]
<1> DEFINE new == [id |-> rec.id, at |-> rec.at, flagged |-> rec.flagged,
                   sure |-> rec.sure, ts |-> Place(rec),
                   own |-> rec.at = "since start" /\ rec.start = start,
                   gaveUp |-> givenUp /\ rec.at = "since start"]
<1>1. rows' \subseteq rows \cup {new}
  BY DEF Stored
<1>2. /\ rec.id \in 1 .. MaxStamps /\ rec.at \in Times /\ rec.flagged \in BOOLEAN
      /\ rec.sure \in BOOLEAN
  BY DEF Records
<1>3. draining \in {"no clock", "ntp", "api"} /\ givenUp \in BOOLEAN
  BY DEF IInv, ClockTypeOK
<1>4. /\ Place(rec) = rec.at \/ (draining \in {"ntp", "api"} /\ Place(rec) = draining)
      /\ ~Unclocked(rec) => Place(rec) = rec.at
      /\ Unclocked(rec) /\ Place(rec) = rec.at /\ rec.at # draining => givenUp
  BY <1>3 DEF Place, Unclocked
<1>5. Place(rec) \in Times
  BY <1>2, <1>4 DEF Times, Kinds
<1>6. new \in [id : 1 .. MaxStamps, at : Times, flagged : BOOLEAN, sure : BOOLEAN,
               ts : Times, own : BOOLEAN, gaveUp : BOOLEAN]
  BY <1>2, <1>3, <1>5
<1>7. /\ ~new.flagged => new.at # "since start"
      /\ ~new.flagged /\ new.sure => new.at = "ntp"
  BY DEF Vouched
<1>8. IF new.at # "since start" THEN new.ts = new.at
      ELSE IF new.ts = "since start" THEN new.own => new.gaveUp
      ELSE new.own /\ new.ts \in {"ntp", "api"} /\ new.flagged
  BY <1>3, <1>4 DEF Unclocked, Vouched
<1> HIDE DEF new
<1>9. VouchedByNtp'
  BY <1>1, <1>7 DEF IInv, VouchedByNtp
<1>10. PlacedByItsStart'
  BY <1>1, <1>8 DEF IInv, PlacedByItsStart
<1> QED
  BY <1>1, <1>6, <1>9, <1>10 DEF IInv, ClockTypeOK

(* A record is sent, and the cursor moves past it or the send is not known to have come. *)
LEMMA SendsKeeps == ASSUME IInv, Sends \/ SendFails PROVE IInv'
<1>1. backlog \in Seq(Records) /\ backlog # <<>> /\ draining # "rest" /\ Place(Head(backlog)) # "held"
  BY DEF IInv, ClockTypeOK, Sends, SendFails
<1>2. Head(backlog) \in Records /\ Vouched(Head(backlog))
  <2>1. Head(backlog) = backlog[1] /\ 1 \in 1 .. Len(backlog) /\ Head(backlog) \in Records
    BY <1>1
  <2> QED
    BY <2>1 DEF IInv, Punched
<1>3. UNCHANGED <<powered, keeping, punching, givenUp, start, stamps>>
  BY DEF Sends, SendFails
<1>4. /\ VouchedByNtp' /\ PlacedByItsStart'
      /\ rows' \subseteq [id : 1 .. MaxStamps, at : Times, flagged : BOOLEAN, sure : BOOLEAN,
                          ts : Times, own : BOOLEAN, gaveUp : BOOLEAN]
  <2>1. CASE Stored(Head(backlog))
    BY <1>1, <1>2, <2>1, StoredKeeps
  <2>2. CASE UNCHANGED rows
    BY <2>2 DEF IInv, ClockTypeOK, VouchedByNtp, PlacedByItsStart
  <2> QED
    BY <2>1, <2>2 DEF Sends, SendFails
<1>5. backlog' \in {backlog, Tail(backlog)}
  BY DEF Sends, SendFails
<1>6. backlog' \in Seq(Records) /\ \A k \in 1 .. Len(backlog') : Vouched(backlog'[k])
  <2>1. CASE backlog' = backlog
    BY <1>1, <2>1 DEF IInv, Punched
  <2>2. CASE backlog' = Tail(backlog)
    <3>1. /\ Tail(backlog) \in Seq(Records) /\ Len(Tail(backlog)) = Len(backlog) - 1
          /\ \A k \in 1 .. Len(Tail(backlog)) : Tail(backlog)[k] = backlog[k + 1]
      BY <1>1, HeadTailProperties
    <3>2. \A k \in 1 .. Len(Tail(backlog)) : k + 1 \in 1 .. Len(backlog)
      BY <1>1, <3>1, LenProperties
    <3>3. \A k \in 1 .. Len(Tail(backlog)) : Vouched(Tail(backlog)[k])
      BY <3>1, <3>2 DEF IInv, Punched
    <3> QED
      BY <2>2, <3>1, <3>3
  <2> QED
    BY <1>5, <2>1, <2>2
<1>7. draining' \in {"rest", draining}
  BY DEF Sends, SendFails
<1>8. ClockTypeOK'
  <2>1. draining' \in {"rest", "no clock", "ntp", "api"}
    BY <1>7 DEF IInv, ClockTypeOK
  <2> QED
    BY <1>3, <1>4, <1>6, <2>1 DEF IInv, ClockTypeOK, keeping, setting
<1>9. /\ Off' /\ Meet' /\ Wall' /\ Chip'
      /\ punching'.ntp => punching'.busy /\ source' = "ntp"
      /\ punching'.busy => stamps < MaxStamps
  BY <1>3, Beside
<1>10. Punched'
  BY <1>3, <1>6, <1>9 DEF Punched, Vouched
<1> QED
  BY <1>4, <1>8, <1>9, <1>10 DEF IInv

-----------------------------------------------------------------------------
(* Each step keeps the invariant. *)
LEMMA StepKeeps == ASSUME IInv, [ClockNext]_clockVars PROVE IInv'
<1>1. CASE PowersUp
  BY <1>1, PowersUpKeeps
<1>2. CASE PowerLost
  BY <1>2, PowerLostKeeps
<1>3. CASE SntpSets
  BY <1>3, SntpSetsKeeps
<1>4. CASE SntpRaises
  BY <1>4, SntpRaisesKeeps
<1>5. CASE ApiHears
  BY <1>5, ApiHearsKeeps
<1>6. CASE ApiSets
  BY <1>6, ApiSetsKeeps
<1>7. CASE ApiRaises
  BY <1>7, ApiRaisesKeeps
<1>8. CASE \E task \in Setters : SetsTime(task) \/ ClearsStopped(task) \/ Tells(task)
  BY <1>8, SntpSetsTimeKeeps, ApiSetsTimeKeeps, SntpClearsStoppedKeeps, ApiClearsStoppedKeeps,
     SntpTellsKeeps, ApiTellsKeeps DEF Setters
<1>9. CASE ReadsSource
  BY <1>9, ReadsSourceKeeps
<1>10. CASE Stamps
  BY <1>10, StampsKeeps
<1>11. CASE GivesUp \/ DrainBegins \/ DrainEnds
  BY <1>11, RoundKeeps
<1>12. CASE Sends \/ SendFails
  BY <1>12, SendsKeeps
<1>13. CASE UNCHANGED clockVars
  <2>1. UNCHANGED <<powered, keeping, punching, backlog, start, stamps, rows>>
    BY <1>13 DEF clockVars, sending
  <2>2. ClockTypeOK'
    <3>1. draining' = draining /\ givenUp' = givenUp
      BY <1>13 DEF clockVars, sending
    <3>2. draining' \in {"rest", "no clock", "ntp", "api"} /\ givenUp' \in BOOLEAN
      BY <3>1 DEF IInv, ClockTypeOK
    <3> QED
      BY <2>1, <3>2 DEF IInv, ClockTypeOK, keeping, setting
  <2>3. /\ Off' /\ Meet' /\ Wall' /\ Chip'
        /\ punching'.ntp => punching'.busy /\ source' = "ntp"
        /\ punching'.busy => stamps < MaxStamps
    BY <2>1, Beside
  <2>4. Punched' /\ VouchedByNtp' /\ PlacedByItsStart'
    BY <2>1, <2>3, RowsStay DEF Untouched
  <2> QED
    BY <2>2, <2>3, <2>4 DEF IInv
<1> QED
  BY <1>1, <1>2, <1>3, <1>4, <1>5, <1>6, <1>7, <1>8, <1>9, <1>10, <1>11, <1>12, <1>13 DEF ClockNext

(* The invariant holds along every behaviour. *)
LEMMA Holds == ClockSpec => []IInv
<1>1. ClockInit => IInv
  BY ClockBegins
<1>2. IInv /\ [ClockNext]_clockVars => IInv'
  BY StepKeeps
<1> QED
  BY <1>1, <1>2, PTL DEF ClockSpec

(* Every variable keeps its type, for any number of punches and of starts. *)
THEOREM ClockTypeCorrect == ClockSpec => []ClockTypeOK
<1>1. IInv => ClockTypeOK
  BY DEF IInv
<1> QED
  BY <1>1, Holds, PTL

(* An unflagged punch carries NTP's time, but where the two setters met or a fault left the
   chip and its marker apart: write_record and sys_time together. *)
THEOREM NtpVouched == ClockSpec => []VouchedByNtp
<1>1. IInv => VouchedByNtp
  BY DEF IInv
<1> QED
  BY <1>1, Holds, PTL

(* A count since the start leaves as a time only by the clock of that start: place and
   svc_sync_drain. *)
THEOREM PlacedRight == ClockSpec => []PlacedByItsStart
<1>1. IInv => PlacedByItsStart
  BY DEF IInv
<1> QED
  BY <1>1, Holds, PTL

-----------------------------------------------------------------------------
(* SIDE BY SIDE: the explorations of the kiosk are explorations of its parts. *)
-----------------------------------------------------------------------------

(* Every behaviour of the kiosk's tasks side by side is one of the link, with its fairness, *)
(* of the door and of the roster; every behaviour of sync_task's rounds is one of the roster *)
(* and of the clock, with its fairness. What is proved of a part holds of the exploration.   *)
THEOREM TasksSideBySide ==
  /\ KioskSpec => Spec /\ DoorSpec /\ RosterSpec
  /\ SyncSpec => RosterSpec /\ ClockSpec
<1>1. KioskInit => Init /\ DoorInit /\ RosterInit
  BY DEF KioskInit
<1>2. [KioskNext]_kioskVars => [Next]_vars /\ [DoorNext]_doorVars /\ [RosterNext]_rosterVars
  <2> SUFFICES ASSUME [KioskNext]_kioskVars
               PROVE  /\ Next \/ vars' = vars
                      /\ DoorNext \/ doorVars' = doorVars
                      /\ RosterNext \/ rosterVars' = rosterVars
    OBVIOUS
  <2>1. CASE UNCHANGED kioskVars
    BY <2>1, Zenon DEF kioskVars
  <2>2. CASE KioskNext
    BY <2>2, Zenon DEF KioskNext
  <2> QED
    BY <2>1, <2>2
<1>3. SyncInit => RosterInit /\ ClockInit
  BY DEF SyncInit
<1>4. [SyncNext]_syncVars => [RosterNext]_rosterVars /\ [ClockNext]_clockVars
  <2> SUFFICES ASSUME [SyncNext]_syncVars
               PROVE  /\ RosterNext \/ rosterVars' = rosterVars
                      /\ ClockNext \/ clockVars' = clockVars
    OBVIOUS
  <2>1. CASE UNCHANGED syncVars
    BY <2>1, Zenon DEF syncVars
  <2>2. CASE SyncNext
    BY <2>2, Zenon DEF SyncNext
  <2> QED
    BY <2>1, <2>2
<1>5. KioskSpec => Spec /\ DoorSpec /\ RosterSpec
  BY <1>1, <1>2, PTL DEF KioskSpec, KioskFairness, Spec, DoorSpec, RosterSpec
<1>6. SyncSpec => RosterSpec /\ ClockSpec
  BY <1>3, <1>4, PTL DEF SyncSpec, RosterSpec, ClockSpec
<1> QED
  BY <1>5, <1>6
=============================================================================
