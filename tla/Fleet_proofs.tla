----------------------------- MODULE Fleet_proofs -----------------------------
(* What the backend and a kiosk do with each other, for every number of tickets, claims, commands,
   packs and builds: the commands an administrator sends, the ticket that lets the kiosk in, the
   packs and builds it takes on trial, and the files it keeps all that in. *)
EXTENDS MCComponents, PayAndLeave_proofs, TLAPS

-----------------------------------------------------------------------------
(* COMMANDS: what a row says of a command, and what the kiosk did with it.   *)
-----------------------------------------------------------------------------
CommandRows == OpenRow \union {"none", "DONE", "REJECTED"}
Senders == {"idle", "publishing", "acked", "failed", "over"}
CommandAnswers == [cmd : Cmds, says : {"DONE", "REJECTED"}]

CommandTypes ==
    /\ cmdRow \in [Cmds -> CommandRows]
    /\ sender \in [Cmds -> Senders]
    /\ copies \in [Cmds -> 0..MaxCopies]
    /\ inbox \in Seq(Cmds) /\ Len(inbox) <= InboxDepth
    /\ seen \in Seq(Cmds) /\ Len(seen) <= SeenRing
    /\ ran \in [Cmds -> Nat]
    /\ answers \subseteq CommandAnswers
    /\ cmdHoles \subseteq {"again", "refused"}

\* The kiosk has met a command once it answered it.
Met(c) == \E a \in answers : a.cmd = c

\* No copy of a command is under way, or ever will be.
Gone(c) == copies[c] = 0 /\ c \notin Range(inbox) /\ sender[c] \notin {"idle", "publishing"}

(* What a command has left behind it: an answer DONE was carried out, and one REJECTED was not;
   one that was met is still known by name, or no copy of it is left; one whose sending failed
   never came to the kiosk. *)
Traced(c) ==
    /\ sender[c] = "idle" => copies[c] = 0 /\ c \notin Range(inbox) /\ ran[c] = 0 /\ ~Met(c)
    /\ ran[c] > 0 => Met(c)
    /\ Met(c) => c \in Range(seen) \/ Gone(c)
    /\ [cmd |-> c, says |-> "REJECTED"] \in answers => ran[c] = 0
    /\ sender[c] = "failed" => ran[c] = 0 /\ Gone(c)
    /\ cmdRow[c] = "REJECTED" => ran[c] = 0 /\ (Met(c) \/ Gone(c))

DoneIsRun ==
    \A c \in Cmds : /\ [cmd |-> c, says |-> "DONE"] \in answers => ran[c] > 0
                    /\ cmdRow[c] = "DONE" => ran[c] > 0

CommandInv ==
    /\ CommandTypes
    /\ DoneIsRun
    /\ "again" \notin cmdHoles => \A c \in Cmds : ran[c] < 2
    /\ cmdHoles = {} => \A c \in Cmds : Traced(c)

-----------------------------------------------------------------------------
(* Sequences: what is in a queue, and in a ring that turns.                     *)

\* SeqOf is the sequences of a bounded length.
LEMMA SeqOfIs ==
    ASSUME NEW S, NEW n \in Nat, NEW s \in Seq(S), Len(s) <= n PROVE s \in SeqOf(S, n)
<1>1. Len(s) \in 0 .. n /\ s \in [1 .. Len(s) -> S]
  OBVIOUS
<1> QED BY <1>1 DEF SeqOf

(* The first of a queue, and the rest. *)
LEMMA HeadAndTail ==
    ASSUME NEW S, NEW s \in Seq(S), s # <<>>
    PROVE  /\ Head(s) \in S /\ Head(s) \in Range(s)
           /\ Tail(s) \in Seq(S) /\ Len(Tail(s)) <= Len(s)
           /\ Range(Tail(s)) \subseteq Range(s)
<1>1. Len(s) \in Nat \ {0} /\ Head(s) = s[1] /\ 1 \in DOMAIN s
  OBVIOUS
<1>2. /\ Tail(s) \in Seq(S) /\ Len(Tail(s)) = Len(s) - 1
      /\ \A i \in 1 .. Len(s) - 1 : Tail(s)[i] = s[i + 1]
  OBVIOUS
<1>3. Range(Tail(s)) \subseteq Range(s)
  <2>1. ASSUME NEW i \in DOMAIN Tail(s) PROVE Tail(s)[i] \in Range(s)
    <3>1. i \in 1 .. Len(s) - 1 /\ i + 1 \in DOMAIN s
      BY <1>1, <1>2
    <3> QED BY <1>2, <3>1 DEF Range
  <2> QED BY <2>1 DEF Range
<1> QED BY <1>1, <1>2, <1>3 DEF Range

(* One more at the end of a queue. *)
LEMMA AppendAdds ==
    ASSUME NEW S, NEW s \in Seq(S), NEW c \in S
    PROVE  /\ Append(s, c) \in Seq(S) /\ Len(Append(s, c)) = Len(s) + 1
           /\ Range(Append(s, c)) = Range(s) \cup {c}
<1>1. /\ Append(s, c) \in Seq(S) /\ Len(Append(s, c)) = Len(s) + 1 /\ Len(s) \in Nat
      /\ \A i \in 1 .. Len(s) : Append(s, c)[i] = s[i]
      /\ Append(s, c)[Len(s) + 1] = c
  OBVIOUS
<1>2. DOMAIN Append(s, c) = 1 .. Len(s) + 1 /\ DOMAIN s = 1 .. Len(s)
  BY <1>1
<1>3. Range(Append(s, c)) \subseteq Range(s) \cup {c}
  BY <1>1, <1>2 DEF Range
<1>4. Range(s) \subseteq Range(Append(s, c))
  BY <1>1, <1>2 DEF Range
<1>5. c \in Range(Append(s, c))
  BY <1>1, <1>2 DEF Range
<1> QED BY <1>1, <1>3, <1>4, <1>5

\* The ring takes the new name, and loses one at the most.
LEMMA RingTurns ==
    ASSUME CommandTypes, NEW c \in Cmds
    PROVE  /\ Remember(c) \in Seq(Cmds) /\ Len(Remember(c)) <= SeenRing
           /\ Range(Remember(c)) \subseteq Range(seen) \cup {c}
           /\ c \in Range(Remember(c))
<1>1. seen \in Seq(Cmds) /\ Len(seen) <= SeenRing /\ Len(seen) \in Nat /\ SeenRing \in Nat \ {0}
  BY CommandAssumption DEF CommandTypes
<1> DEFINE longer == Append(seen, c)
<1>2. /\ longer \in Seq(Cmds) /\ Len(longer) = Len(seen) + 1 /\ Range(longer) = Range(seen) \cup {c}
      /\ longer[Len(seen) + 1] = c
  BY <1>1, AppendAdds
<1>3. longer # <<>>
  BY <1>1, <1>2
<1> HIDE DEF longer
<1>4. CASE Len(longer) > SeenRing
  <2>1. Len(Tail(longer)) = Len(seen) /\ Tail(longer)[Len(seen)] = c /\ Len(seen) \in Nat \ {0}
    BY <1>1, <1>2, <1>4
  <2>2. Tail(longer) \in Seq(Cmds) /\ Range(Tail(longer)) \subseteq Range(longer)
    BY <1>2, <1>3, HeadAndTail
  <2>3. c \in Range(Tail(longer))
    <3>1. Len(seen) \in DOMAIN Tail(longer)
      BY <2>1, <2>2
    <3> QED BY <2>1, <3>1 DEF Range
  <2> QED BY <1>1, <1>2, <1>4, <2>1, <2>2, <2>3 DEF Remember, longer
<1>5. CASE ~(Len(longer) > SeenRing)
  BY <1>1, <1>2, <1>5 DEF Remember, longer
<1> QED BY <1>4, <1>5

-----------------------------------------------------------------------------
(* The server's side.                                                          *)

\* The counts are numbers.
LEMMA Counts == ASSUME CommandTypes, NEW d \in Cmds PROVE copies[d] \in Nat /\ ran[d] \in Nat
<1>1. copies[d] \in 0 .. MaxCopies /\ ran[d] \in Nat
  BY DEF CommandTypes
<1> QED BY <1>1

(* What the server does to a row, short of an answer. *)
LEMMA ServerStep ==
    ASSUME CommandInv, cmdHoles = {}, NEW c \in Cmds,
           Send(c) \/ Deliver(c) \/ Published(c) \/ WriteOutcome(c) \/ SenderDies(c)
    PROVE  CommandInv'
<1>0. CommandTypes /\ DoneIsRun /\ (\A d \in Cmds : ran[d] < 2) /\ \A d \in Cmds : Traced(d)
  BY DEF CommandInv
<1> USE DEF CommandTypes, CommandRows, OpenRow, Senders, MaxCopies
<1>1. CommandTypes'
  <2>1. CASE Send(c)
    BY <1>0, <2>1 DEF Send
  <2>2. CASE Deliver(c)
    BY <1>0, <2>2 DEF Deliver
  <2>3. CASE Published(c)
    BY <1>0, <2>3 DEF Published
  <2>4. CASE WriteOutcome(c)
    BY <1>0, <2>4 DEF WriteOutcome
  <2>5. CASE SenderDies(c)
    BY <1>0, <2>5 DEF SenderDies
  <2> QED BY <2>1, <2>2, <2>3, <2>4, <2>5
<1>2. UNCHANGED <<inbox, seen, ran, answers>> /\ \A d \in Cmds : d # c =>
         cmdRow'[d] = cmdRow[d] /\ sender'[d] = sender[d] /\ copies'[d] = copies[d]
  BY <1>0 DEF Send, Deliver, Published, WriteOutcome, SenderDies
<1>3. cmdRow'[c] = "DONE" => cmdRow[c] = "DONE"
  BY <1>0 DEF Send, Deliver, Published, WriteOutcome, SenderDies
<1>4. DoneIsRun' /\ \A d \in Cmds : ran'[d] < 2
  BY <1>0, <1>2, <1>3 DEF DoneIsRun
<1>5. ASSUME cmdHoles' = {}, NEW d \in Cmds PROVE Traced(d)'
  <2>1. CASE d # c
    BY <1>0, <1>2, <2>1 DEF Traced, Met, Gone
  <2>2. CASE d = c
    <3>1. CASE Send(c)
      BY <1>0, <1>2, <2>2, <3>1 DEF Send, Traced, Met, Gone
    <3>2. CASE Deliver(c)
      BY <1>0, <1>2, <2>2, <3>2 DEF Deliver, Traced, Met, Gone
    <3>3. CASE Published(c)
      <4>1. PICK end \in {"acked", "failed"} :
              /\ sender' = [sender EXCEPT ![c] = end]
              /\ end = "failed" => ~(copies[c] + ran[c] > 0 \/ c \in Range(inbox))
        BY <1>5, <3>3 DEF Published
      <4>2. sender[c] = "publishing" /\ sender'[c] = end /\ UNCHANGED <<cmdRow, copies>>
        BY <1>0, <3>3, <4>1 DEF Published
      <4>3. end = "failed" => copies[c] = 0 /\ ran[c] = 0 /\ c \notin Range(inbox)
        <5>1. copies[c] \in Nat /\ ran[c] \in Nat
          BY <1>0, Counts
        <5> QED BY <4>1, <5>1
      <4>4. Traced(c)
        BY <1>0
      <4>5. end = "failed" => Gone(c)'
        BY <1>2, <4>2, <4>3 DEF Gone
      <4>6. Gone(c) => Gone(c)'
        BY <1>2, <4>2 DEF Gone
      <4>7. Met(c)' <=> Met(c)
        BY <1>2 DEF Met
      <4> QED BY <1>2, <2>2, <4>2, <4>3, <4>4, <4>5, <4>6, <4>7 DEF Traced
    <3>4. CASE WriteOutcome(c)
      BY <1>0, <1>2, <2>2, <3>4 DEF WriteOutcome, Traced, Met, Gone
    <3>5. CASE SenderDies(c)
      BY <1>0, <1>2, <2>2, <3>5 DEF SenderDies, Traced, Met, Gone
    <3> QED BY <3>1, <3>2, <3>3, <3>4, <3>5
  <2> QED BY <2>1, <2>2
<1> QED BY <1>1, <1>4, <1>5 DEF CommandInv

(* An answer closes an open row with what the kiosk did. *)
LEMMA OnAnswerStep == ASSUME CommandInv, cmdHoles = {}, OnAnswer PROVE CommandInv'
<1>0. CommandTypes /\ DoneIsRun /\ (\A d \in Cmds : ran[d] < 2) /\ \A d \in Cmds : Traced(d)
  BY DEF CommandInv
<1>1. PICK a \in answers : cmdRow' = [cmdRow EXCEPT ![a.cmd] = a.says]
  BY DEF OnAnswer
<1>2. /\ a.cmd \in Cmds /\ a.says \in {"DONE", "REJECTED"} /\ a = [cmd |-> a.cmd, says |-> a.says]
      /\ UNCHANGED <<sender, copies, inbox, seen, ran, answers, cmdHoles>>
  BY <1>0, <1>1 DEF CommandTypes, CommandAnswers, OnAnswer
<1>3. CommandTypes'
  BY <1>0, <1>1, <1>2 DEF CommandTypes, CommandRows
<1>4. \A d \in Cmds : cmdRow'[d] = IF d = a.cmd THEN a.says ELSE cmdRow[d]
  BY <1>0, <1>1, <1>2 DEF CommandTypes
<1>5. DoneIsRun'
  BY <1>0, <1>2, <1>4 DEF DoneIsRun
<1>6. Met(a.cmd)
  BY <1>1 DEF Met
<1>7. ASSUME NEW d \in Cmds PROVE Traced(d)'
  BY <1>0, <1>2, <1>4, <1>6 DEF Traced, Met, Gone
<1> QED BY <1>0, <1>2, <1>3, <1>5, <1>7 DEF CommandInv

-----------------------------------------------------------------------------
(* The kiosk's.                                                                *)

(* A copy comes off the link, into the queue or nowhere. *)
LEMMA ReceiveStep == ASSUME CommandInv, cmdHoles = {}, NEW c \in Cmds, Receive(c) PROVE CommandInv'
<1>0. CommandTypes /\ DoneIsRun /\ (\A d \in Cmds : ran[d] < 2) /\ \A d \in Cmds : Traced(d)
  BY DEF CommandInv
<1>1. /\ copies[c] > 0 /\ copies' = [copies EXCEPT ![c] = copies[c] - 1]
      /\ inbox' = inbox \/ (Len(inbox) < InboxDepth /\ inbox' = Append(inbox, c))
      /\ UNCHANGED <<cmdRow, sender, seen, ran, answers, cmdHoles>>
  BY DEF Receive
<1>2. inbox' \in Seq(Cmds) /\ Len(inbox') <= InboxDepth /\ Range(inbox') \subseteq Range(inbox) \cup {c}
  <2>1. inbox \in Seq(Cmds) /\ Len(inbox) <= InboxDepth /\ Len(inbox) \in Nat /\ InboxDepth \in Nat
    BY <1>0, CommandAssumption DEF CommandTypes
  <2>2. /\ Append(inbox, c) \in Seq(Cmds) /\ Len(Append(inbox, c)) = Len(inbox) + 1
        /\ Range(Append(inbox, c)) = Range(inbox) \cup {c}
    BY <2>1, AppendAdds
  <2>3. CASE inbox' = inbox
    BY <2>1, <2>3
  <2>4. CASE Len(inbox) < InboxDepth /\ inbox' = Append(inbox, c)
    BY <2>1, <2>2, <2>4
  <2> QED BY <1>1, <2>3, <2>4
<1>3. CommandTypes'
  BY <1>0, <1>1, <1>2 DEF CommandTypes, MaxCopies
<1>4. \A d \in Cmds : d # c => copies'[d] = copies[d]
  BY <1>0, <1>1 DEF CommandTypes
<1>5. ASSUME NEW d \in Cmds PROVE Traced(d)'
  <2>1. CASE d # c
    BY <1>0, <1>1, <1>2, <1>4, <2>1 DEF Traced, Met, Gone
  <2>2. CASE d = c
    <3>1. ~Gone(c) /\ sender[c] # "idle"
      <4>1. copies[c] \in Nat /\ Traced(c)
        BY <1>0 DEF CommandTypes
      <4> QED BY <1>1, <4>1 DEF Gone, Traced
    <3> QED BY <1>0, <1>1, <2>2, <3>1 DEF Traced, Met
  <2> QED BY <2>1, <2>2
<1> QED BY <1>0, <1>1, <1>3, <1>5 DEF CommandInv, DoneIsRun

(* A command met before is dropped. *)
LEMMA TakeRepeatStep == ASSUME CommandInv, cmdHoles = {}, TakeRepeat PROVE CommandInv'
<1>0. CommandTypes /\ DoneIsRun /\ (\A d \in Cmds : ran[d] < 2) /\ \A d \in Cmds : Traced(d)
  BY DEF CommandInv
<1>1. inbox # <<>> /\ inbox' = Tail(inbox) /\ UNCHANGED <<cmdRow, sender, copies, seen, ran, answers, cmdHoles>>
  BY DEF TakeRepeat
<1>2. inbox' \in Seq(Cmds) /\ Len(inbox') <= InboxDepth /\ Range(inbox') \subseteq Range(inbox)
  BY <1>0, <1>1, HeadAndTail, CommandAssumption DEF CommandTypes
<1>3. CommandTypes'
  BY <1>0, <1>1, <1>2 DEF CommandTypes
<1>4. ASSUME NEW d \in Cmds PROVE Traced(d)'
  BY <1>0, <1>1, <1>2 DEF Traced, Met, Gone
<1> QED BY <1>0, <1>1, <1>3, <1>4 DEF CommandInv, DoneIsRun

\* A command taken for the first time: nothing was answered to it, and it did not run.
LEMMA FirstTaken ==
    ASSUME CommandInv, cmdHoles = {}, inbox # <<>>, ~AlreadyRan(Head(inbox))
    PROVE  /\ Head(inbox) \in Cmds /\ Head(inbox) \in Range(inbox)
           /\ ~Met(Head(inbox)) /\ ran[Head(inbox)] = 0
           /\ sender[Head(inbox)] \notin {"idle", "failed"} /\ cmdRow[Head(inbox)] # "REJECTED"
<1>1. Head(inbox) \in Cmds /\ Head(inbox) \in Range(inbox)
  BY HeadAndTail DEF CommandInv, CommandTypes
<1>2. Traced(Head(inbox)) /\ ~Gone(Head(inbox)) /\ ran[Head(inbox)] \in Nat
  BY <1>1 DEF CommandInv, Gone, CommandTypes
<1> QED BY <1>1, <1>2 DEF Traced, AlreadyRan

\* What Forgetting leaves unsaid: no copy of these names is about.
LEMMA ForgetsNothingAbout ==
    ASSUME NEW names, NEW left, Forgetting(names, left) = {}
    PROVE  \A d \in names : ~(copies[d] > 0) /\ sender[d] # "publishing" /\ d \notin Range(left)
  BY DEF Forgetting

\* A name that goes out of the ring with no copy about is gone.
LEMMA OutOfTheRing ==
    ASSUME CommandTypes, NEW names, Forgetting(names, inbox') = {}, NEW d \in Cmds, Traced(d), Met(d),
           d \in names, UNCHANGED <<copies, sender>>
    PROVE  Gone(d)'
<1>1. ~(copies[d] > 0) /\ sender[d] # "publishing" /\ d \notin Range(inbox')
  BY ForgetsNothingAbout
<1>2. copies[d] \in Nat /\ sender[d] # "idle"
  BY Counts DEF Traced
<1> QED BY <1>1, <1>2 DEF Gone

\* The other commands, when one is taken or the ring is lost.
LEMMA OthersTraced ==
    ASSUME CommandTypes, NEW names, Forgetting(names, inbox') = {}, NEW d \in Cmds, Traced(d),
           UNCHANGED <<copies, sender, cmdRow>>, ran'[d] = ran[d],
           \A says \in {"DONE", "REJECTED"} : [cmd |-> d, says |-> says] \in answers' <=> [cmd |-> d, says |-> says] \in answers,
           Met(d)' <=> Met(d), Range(inbox') \subseteq Range(inbox), Range(seen) \ names \subseteq Range(seen')
    PROVE  Traced(d)'
<1>1. Gone(d) => Gone(d)'
  BY DEF Gone
<1>2. Met(d) => d \in Range(seen') \/ Gone(d)'
  BY <1>1, OutOfTheRing DEF Traced
<1>3. sender[d] = "idle" => d \notin Range(inbox')
  BY DEF Traced
<1> QED BY <1>1, <1>2, <1>3 DEF Traced

\* A command answered in this step.
LEMMA AnswerAdds ==
    ASSUME CommandTypes, NEW c \in Cmds, NEW said \in {"DONE", "REJECTED"},
           answers' = answers \union {[cmd |-> c, says |-> said]}
    PROVE  /\ answers' \subseteq CommandAnswers /\ Met(c)'
           /\ \A d \in Cmds : d # c => (Met(d)' <=> Met(d))
           /\ \A d \in Cmds, says \in {"DONE", "REJECTED"} :
                 d # c => ([cmd |-> d, says |-> says] \in answers' <=> [cmd |-> d, says |-> says] \in answers)
           /\ ~Met(c) => \A says \in {"DONE", "REJECTED"} : [cmd |-> c, says |-> says] \in answers' => says = said
  BY DEF CommandTypes, CommandAnswers, Met

(* A command taken for the first time: its name goes into the ring, and what is forgotten with it is a hole or gone. *)
LEMMA TakeStep ==
    ASSUME CommandInv, cmdHoles = {}, inbox # <<>>, NEW c \in Cmds, c = Head(inbox), ~AlreadyRan(c),
           NEW said \in {"DONE", "REJECTED"}, answers' = answers \union {[cmd |-> c, says |-> said]},
           said = "DONE" => ran' = [ran EXCEPT ![c] = ran[c] + 1],
           said = "REJECTED" => UNCHANGED ran,
           UNCHANGED <<cmdRow, sender, copies>>,
           inbox' \in Seq(Cmds), Len(inbox') <= InboxDepth, Range(inbox') \subseteq Range(inbox),
           seen' \in Seq(Cmds), Len(seen') <= SeenRing,
           NEW names, cmdHoles' = Forgetting(names, inbox'), Range(seen) \ names \subseteq Range(seen'),
           c \in Range(seen') \/ c \in names
    PROVE  CommandInv'
<1>0. CommandTypes /\ DoneIsRun /\ (\A d \in Cmds : ran[d] < 2) /\ \A d \in Cmds : Traced(d)
  BY DEF CommandInv
<1>1. /\ ~Met(c) /\ ran[c] = 0 /\ sender[c] \notin {"idle", "failed"} /\ cmdRow[c] # "REJECTED"
  BY FirstTaken
<1>2. /\ answers' \subseteq CommandAnswers /\ Met(c)'
      /\ \A d \in Cmds : d # c => (Met(d)' <=> Met(d))
      /\ \A d \in Cmds, says \in {"DONE", "REJECTED"} :
            d # c => ([cmd |-> d, says |-> says] \in answers' <=> [cmd |-> d, says |-> says] \in answers)
      /\ \A says \in {"DONE", "REJECTED"} : [cmd |-> c, says |-> says] \in answers' => says = said
  BY <1>0, <1>1, AnswerAdds
<1>3. /\ ran' \in [Cmds -> Nat] /\ \A d \in Cmds : d # c => ran'[d] = ran[d]
      /\ ran'[c] = IF said = "DONE" THEN 1 ELSE 0
  <2>1. ran \in [Cmds -> Nat] /\ ran[c] + 1 = 1
    BY <1>0, <1>1 DEF CommandTypes
  <2>2. CASE said = "DONE"
    BY <1>1, <2>1, <2>2
  <2>3. CASE said = "REJECTED"
    BY <1>1, <2>1, <2>3
  <2> QED BY <2>2, <2>3
<1>4. CommandTypes'
  <2>1. cmdHoles' \subseteq {"again", "refused"}
    BY <1>0 DEF CommandTypes, Forgetting
  <2> QED BY <1>0, <1>2, <1>3, <2>1 DEF CommandTypes
<1>5. DoneIsRun' /\ \A d \in Cmds : ran'[d] < 2
  <2>1. ASSUME NEW d \in Cmds, d # c
        PROVE  /\ [cmd |-> d, says |-> "DONE"] \in answers' => ran'[d] > 0
               /\ cmdRow'[d] = "DONE" => ran'[d] > 0
               /\ ran'[d] < 2
    BY <1>0, <1>2, <1>3, <2>1 DEF DoneIsRun
  <2>2. /\ [cmd |-> c, says |-> "DONE"] \in answers' => ran'[c] > 0
        /\ cmdRow'[c] = "DONE" => ran'[c] > 0
        /\ ran'[c] < 2
    <3>1. cmdRow[c] # "DONE"
      <4>1. ~(ran[c] > 0)
        BY <1>1
      <4> QED BY <1>0, <4>1 DEF DoneIsRun
    <3>2. [cmd |-> c, says |-> "DONE"] \in answers' => said = "DONE"
      BY <1>2
    <3> QED BY <1>3, <3>1, <3>2
  <2> QED BY <2>1, <2>2 DEF DoneIsRun
<1>6. ASSUME cmdHoles' = {}, NEW d \in Cmds PROVE Traced(d)'
  <2>1. CASE d # c
    BY <1>0, <1>2, <1>3, <1>6, <2>1, OthersTraced
  <2>2. CASE d = c
    <3>1. c \in Range(seen') \/ Gone(c)'
      <4>1. CASE c \in names
        <5>1. ~(copies[c] > 0) /\ sender[c] # "publishing" /\ c \notin Range(inbox')
          BY <1>6, <4>1, ForgetsNothingAbout
        <5>2. copies[c] \in Nat
          BY <1>0, Counts
        <5> QED BY <1>1, <5>1, <5>2 DEF Gone
      <4> QED BY <4>1
    <3>2. [cmd |-> c, says |-> "REJECTED"] \in answers' => ran'[c] = 0
      BY <1>2, <1>3
    <3> QED BY <1>1, <1>2, <2>2, <3>1, <3>2 DEF Traced
  <2> QED BY <2>1, <2>2
<1> QED BY <1>4, <1>5, <1>6 DEF CommandInv

(* It is refused, or carried out. *)
LEMMA TakeCommandStep == ASSUME CommandInv, cmdHoles = {}, TakeCommand PROVE CommandInv'
<1>1. PICK c, names : c = Head(inbox) /\ names = Range(seen) \ Range(Remember(c))
  OBVIOUS
<1>2. CommandTypes /\ inbox # <<>> /\ ~AlreadyRan(c) /\ c \in Cmds
  BY <1>1, HeadAndTail DEF TakeCommand, CommandInv, CommandTypes
<1>3. PICK said \in {"DONE", "REJECTED"} :
        /\ answers' = answers \union {[cmd |-> c, says |-> said]}
        /\ said = "DONE" => ran' = [ran EXCEPT ![c] = ran[c] + 1]
        /\ said = "REJECTED" => UNCHANGED ran
  BY <1>1 DEF TakeCommand
<1>4. /\ UNCHANGED <<cmdRow, sender, copies>> /\ inbox' = Tail(inbox) /\ seen' = Remember(c)
      /\ cmdHoles' = Forgetting(names, inbox')
  BY <1>1 DEF TakeCommand
<1>5. inbox' \in Seq(Cmds) /\ Len(inbox') <= InboxDepth /\ Range(inbox') \subseteq Range(inbox)
  BY <1>2, <1>4, HeadAndTail, CommandAssumption DEF CommandTypes
<1>6. seen' \in Seq(Cmds) /\ Len(seen') <= SeenRing /\ c \in Range(seen')
  BY <1>2, <1>4, RingTurns
<1>7. Range(seen) \ names \subseteq Range(seen')
  BY <1>1, <1>4
<1> QED BY <1>1, <1>2, <1>3, <1>4, <1>5, <1>6, <1>7, TakeStep

\* Nothing is left of an empty sequence.
LEMMA NothingLeft == Range(<<>>) = {} /\ <<>> \in Seq(Cmds) /\ Len(<<>>) = 0
  BY DEF Range

(* A restart it asked for forgets ring and queue. *)
LEMMA TakeRebootStep == ASSUME CommandInv, cmdHoles = {}, TakeReboot PROVE CommandInv'
<1>1. PICK c, names : c = Head(inbox) /\ names = Range(Append(seen, c))
  OBVIOUS
<1>2. CommandTypes /\ inbox # <<>> /\ ~AlreadyRan(c) /\ c \in Cmds
  BY <1>1, HeadAndTail DEF TakeReboot, CommandInv, CommandTypes
<1>3. /\ answers' = answers \union {[cmd |-> c, says |-> "DONE"]} /\ ran' = [ran EXCEPT ![c] = ran[c] + 1]
      /\ UNCHANGED <<cmdRow, sender, copies>> /\ inbox' = <<>> /\ seen' = <<>>
      /\ cmdHoles' = Forgetting(names, inbox')
  BY <1>1 DEF TakeReboot, Forget
<1>4. names = Range(seen) \cup {c}
  BY <1>1, <1>2, AppendAdds DEF CommandTypes
<1>5. /\ inbox' \in Seq(Cmds) /\ Len(inbox') <= InboxDepth /\ Range(inbox') \subseteq Range(inbox)
      /\ seen' \in Seq(Cmds) /\ Len(seen') <= SeenRing
  BY <1>3, NothingLeft, CommandAssumption
<1> QED BY <1>1, <1>2, <1>3, <1>4, <1>5, TakeStep

(* A restart it did not ask for does the same. *)
LEMMA PowerStep == ASSUME CommandInv, cmdHoles = {}, KioskLosesPower PROVE CommandInv'
<1>0. CommandTypes /\ DoneIsRun /\ (\A d \in Cmds : ran[d] < 2) /\ \A d \in Cmds : Traced(d)
  BY DEF CommandInv
<1>1. PICK names : names = Range(seen)
  OBVIOUS
<1>2. /\ UNCHANGED <<cmdRow, sender, copies, ran, answers>> /\ inbox' = <<>> /\ seen' = <<>>
      /\ cmdHoles' = Forgetting(names, inbox')
  BY <1>1 DEF KioskLosesPower, Forget
<1>3. Range(inbox') \subseteq Range(inbox) /\ Range(seen) \ names \subseteq Range(seen')
  BY <1>1, <1>2, NothingLeft
<1>4. CommandTypes'
  <2>1. cmdHoles' \subseteq {"again", "refused"}
    BY <1>0, <1>2 DEF CommandTypes, Forgetting
  <2> QED BY <1>0, <1>2, <2>1, NothingLeft, CommandAssumption DEF CommandTypes
<1>5. ASSUME cmdHoles' = {}, NEW d \in Cmds PROVE Traced(d)'
  <2>1. Met(d)' <=> Met(d)
    BY <1>2 DEF Met
  <2> QED BY <1>0, <1>2, <1>3, <1>5, <2>1, OthersTraced
<1> QED BY <1>0, <1>2, <1>4, <1>5 DEF CommandInv, DoneIsRun

(* No command sent. *)
LEMMA CommandInvInit == CommandInit => CommandInv
<1> SUFFICES ASSUME CommandInit PROVE CommandInv
  OBVIOUS
<1>1. CommandTypes
  BY NothingLeft, CommandAssumption DEF CommandInit, CommandTypes, CommandRows, Senders, MaxCopies
<1>2. \A c \in Cmds : Traced(c)
  BY NothingLeft DEF CommandInit, Traced, Met
<1> QED BY <1>1, <1>2 DEF CommandInit, CommandInv, DoneIsRun

(* Every step keeps the invariant. *)
LEMMA CommandInvStep == ASSUME CommandInv, [CommandNext]_commandVars PROVE CommandInv'
<1>1. CASE UNCHANGED commandVars
  BY <1>1 DEF commandVars, CommandInv, CommandTypes, DoneIsRun, Traced, Met, Gone
<1>2. CASE CommandNext
  BY <1>2, ServerStep, OnAnswerStep, ReceiveStep, TakeRepeatStep, TakeCommandStep, TakeRebootStep, PowerStep
     DEF CommandNext
<1> QED BY <1>1, <1>2

(* The inductive invariant: what a command has left behind it, up to the first hole. *)
THEOREM CommandInvariant == CommandSpec => []CommandInv
  BY CommandInvInit, CommandInvStep, PTL DEF CommandSpec

(* Rows, copies, queue and ring hold what they may hold, for any commands and any depths. *)
THEOREM CommandTypeCorrect == CommandSpec => []CommandTypeOK
<1>1. CommandInv => CommandTypeOK
  <2> SUFFICES ASSUME CommandInv PROVE CommandTypeOK
    OBVIOUS
  <2>1. inbox \in SeqOf(Cmds, InboxDepth) /\ seen \in SeqOf(Cmds, SeenRing)
    BY SeqOfIs, CommandAssumption DEF CommandInv, CommandTypes
  <2> QED BY <2>1 DEF CommandInv, CommandTypes, CommandTypeOK, CommandRows, Senders, CommandAnswers
<1> QED BY <1>1, CommandInvariant, PTL

(* A row read DONE was carried out, one read REJECTED was not, and none ran twice, but through the two holes. *)
THEOREM ToldTruly == CommandSpec => []CommandToldTruly
<1>1. CommandInv => CommandToldTruly
  BY DEF CommandInv, CommandToldTruly, DoneIsRun, Traced
<1> QED BY <1>1, CommandInvariant, PTL

-----------------------------------------------------------------------------
(* TICKET: a kiosk let in stays in, and its faces go with a dead ticket.     *)
-----------------------------------------------------------------------------
Kinds == {"none", "register", "check", "renew", "dial"}
CallSteps == Final \union {"idle", "over", "sent", "read", "admitted", "held"}
Calls == [kind : Kinds, card : Nat, step : CallSteps, saw : Rows, gift : Tickets, overtaken : BOOLEAN]
Flash == [ticket : Tickets, claim : 0..MaxClaims, versioned : BOOLEAN, faces : BOOLEAN]

TicketTypes ==
    /\ device \in Rows
    /\ calls \in [now : Calls, late : Calls]
    /\ signed \in Tickets /\ lapsed \in 0..signed /\ revoked \in 0..signed
    /\ nvs \in Flash /\ nvs.ticket <= signed /\ nvs.claim <= drawn /\ drawn \in 0..MaxClaims
    /\ approving \in BOOLEAN /\ needsTicket \in BOOLEAN
    /\ broker \in {"off", "dialling", "open"} /\ wipe \in {"none", "queued", "saved"}
    /\ ticketHoles \subseteq {"late", "crossed", "unwiped", "claimed"}

WithTicket == {"dial", "check", "renew"}

\* The ticket before the row's is older, and both were signed.
RowHolds ==
    /\ device.token <= signed
    /\ device.prev # 0 => device.prev < device.token

\* What an exchange carries, and what it may bring.
CallHolds(e) ==
    /\ e.kind = "none" => e.step \in {"idle", "over"}
    /\ e.kind \in WithTicket => e.card \in 1..signed
    /\ e.kind = "register" => e.card \in 1..MaxClaims
    /\ e.step \in {"admitted", "held"} => e.kind = "renew"

\* The exchange the kiosk waits on is about the ticket it has, or asks for one.
NowHolds ==
    /\ CallHolds(calls.now)
    /\ calls.now.overtaken = FALSE
    /\ calls.now.kind \in WithTicket => calls.now.card = nvs.ticket /\ ~needsTicket
    /\ calls.now.kind \in {"check", "renew"} => broker = "off"
    /\ calls.now.kind = "register" => needsTicket
    /\ needsTicket => nvs.ticket = 0 /\ broker = "off"
    /\ broker # "off" => nvs.ticket # 0
    /\ calls.now.step = "yes" /\ calls.now.kind \in {"register", "renew"} => calls.now.gift \in 1..signed
    /\ calls.now.step # "over"

(* The one it gave up on is no newer than the ticket it has or is about to have; and until the
   kiosk asks for another ticket it is about the very one it has, or the kiosk has none. *)
LateHolds ==
    LET e == calls.late IN
    /\ CallHolds(e)
    /\ e.step \notin Final
    /\ e.kind \in WithTicket =>
         /\ nvs.ticket = 0 \/ e.card <= nvs.ticket
         /\ calls.now.step = "yes" /\ calls.now.kind \in {"register", "renew"} => e.card < calls.now.gift
    /\ e.kind = "renew" /\ ~e.overtaken =>
         nvs.ticket \in {0, e.card} /\ calls.now.kind \notin {"register", "renew"}
    /\ e.kind = "register" /\ ~e.overtaken => nvs.ticket = 0 /\ calls.now.kind = "none"

Stands(k) == k > lapsed /\ k > revoked => device.status = "APPROVED" /\ k \in {device.token, device.prev}

GiftStands ==
    calls.now.step = "yes" /\ calls.now.kind \in {"register", "renew"} => Stands(calls.now.gift)

\* A ticket about to be collected is for a row still approved.
Collects(e) ==
    e.kind = "register" /\ e.step = "read" /\ e.saw.status = "APPROVED" /\ e.saw.token = 0 /\ ~e.overtaken
        => device.status = "APPROVED"

LetInHolds ==
    /\ RowHolds /\ NowHolds /\ LateHolds
    /\ Stands(nvs.ticket) /\ GiftStands
    /\ \A i \in {"now", "late"} : Collects(calls[i])
    /\ ApprovedMayCollect
    /\ approving => device.token # 0 \/ device.claim # 0

WipeHolds ==
    /\ FacesFollowTicket
    /\ wipe = "saved" => ~nvs.faces

TicketInv ==
    /\ TicketTypes
    /\ WipeHolds
    /\ ticketHoles \intersect {"late", "crossed"} = {} => LetInHolds

-----------------------------------------------------------------------------
(* The records.                                                                *)

CallsIn == calls \in [now : Calls, late : Calls]

(* The bounds are positive numbers. *)
LEMMA Bounds ==
    /\ MaxTickets \in Nat \ {0} /\ MaxClaims \in Nat \ {0} /\ Attempts \in Nat \ {0}
    /\ Tickets \subseteq Nat /\ 0 \in Tickets
  BY TicketAssumption DEF Tickets

(* No row is a row of its type. *)
LEMMA NoRowIs ==
    /\ NoRow \in Rows /\ NoRow.status = "none" /\ NoRow.token = 0 /\ NoRow.prev = 0 /\ NoRow.claim = 0
    /\ NoRow.wrong = 0
  BY Bounds DEF NoRow, Rows

(* So is no call, and one that is over. *)
LEMMA NoCallIs ==
    /\ NoCall \in Calls /\ NoCall.kind = "none" /\ NoCall.step = "idle" /\ NoCall.card = 0 /\ NoCall.gift = 0
    /\ NoCall.overtaken = FALSE
    /\ Over \in Calls /\ Over.kind = "none" /\ Over.step = "over" /\ Over.overtaken = FALSE
<1>1. NoCall \in Calls /\ NoCall.kind = "none" /\ NoCall.step = "idle" /\ NoCall.card = 0 /\ NoCall.gift = 0
      /\ NoCall.overtaken = FALSE
  BY NoRowIs, Bounds DEF NoCall, Calls, Kinds, CallSteps
<1> QED BY <1>1 DEF Over, Calls, CallSteps

\* A new row waits with its code.
LEMMA NewRowIs ==
    ASSUME NEW claim \in 0..MaxClaims
    PROVE  /\ [NoRow EXCEPT !.status = "PENDING", !.claim = claim] \in Rows
           /\ [NoRow EXCEPT !.status = "PENDING", !.claim = claim].status = "PENDING"
           /\ [NoRow EXCEPT !.status = "PENDING", !.claim = claim].token = 0
           /\ [NoRow EXCEPT !.status = "PENDING", !.claim = claim].prev = 0
           /\ [NoRow EXCEPT !.status = "PENDING", !.claim = claim].claim = claim
  BY NoRowIs DEF Rows, NoRow

\* One exchange changes, the other stands.
Changes(i, e) ==
    /\ calls' \in [now : Calls, late : Calls] /\ calls'[i] = e
    /\ \A j \in {"now", "late"} : j # i => calls'[j] = calls[j]

(* A write to one exchange leaves the other. *)
LEMMA CallChanges ==
    ASSUME CallsIn, NEW i \in {"now", "late"}, NEW e \in Calls, calls' = [calls EXCEPT ![i] = e]
    PROVE  Changes(i, e)
  BY DEF CallsIn, Changes

\* The answer to an exchange.
LEMMA RepliesIs ==
    ASSUME CallsIn, NEW i \in {"now", "late"}, NEW step \in CallSteps, NEW gift \in Tickets,
           Replies(i, step, gift)
    PROVE  /\ i = "late" => Changes("late", Over)
           /\ i = "now" => \E e \in Calls :
                 /\ Changes("now", e) /\ e.kind = calls.now.kind /\ e.card = calls.now.card
                 /\ e.step = step /\ e.gift = gift /\ e.overtaken = calls.now.overtaken
<1>1. CASE i = "late"
  <2>1. calls' = [calls EXCEPT !["late"] = Over]
    BY <1>1 DEF Replies
  <2> QED BY <1>1, <2>1, NoCallIs, CallChanges
<1>2. CASE i = "now"
  <2>1. PICK e : e = [calls["now"] EXCEPT !.step = step, !.gift = gift, !.saw = NoRow]
    OBVIOUS
  <2>2. calls["now"] \in Calls
    BY DEF CallsIn
  <2>3. /\ e \in Calls /\ e.kind = calls["now"].kind /\ e.card = calls["now"].card /\ e.step = step
        /\ e.gift = gift /\ e.overtaken = calls["now"].overtaken
    BY <2>1, <2>2, NoRowIs DEF Calls
  <2>4. calls' = [calls EXCEPT !["now"] = e]
    BY <1>2, <2>1 DEF Replies
  <2>5. Changes("now", e)
    BY <2>3, <2>4, CallChanges
  <2> QED BY <1>2, <2>3, <2>5 DEF CallsIn
<1> QED BY <1>1, <1>2

(* The types of an exchange. *)
LEMMA CallsAre ==
    ASSUME TicketTypes, NEW i \in {"now", "late"}
    PROVE  /\ CallsIn /\ calls[i] \in Calls /\ calls[i].saw \in Rows /\ calls[i].card \in Nat
           /\ calls[i].kind \in Kinds /\ calls[i].step \in CallSteps /\ calls[i].gift \in Tickets
           /\ calls[i].overtaken \in BOOLEAN
           /\ DOMAIN calls = {"now", "late"}
  BY DEF TicketTypes, CallsIn, Calls

\* The fields of the row.
LEMMA RowIs ==
    ASSUME NEW r \in Rows
    PROVE  /\ r.status \in {"none", "PENDING", "APPROVED", "REVOKED"} /\ r.token \in Tickets /\ r.prev \in Tickets
           /\ r.token \in Nat /\ r.prev \in Nat
           /\ r.claim \in 0..MaxClaims /\ r.wrong \in 0..Attempts
  BY Bounds DEF Rows

\* Two fields of an exchange at once.
LEMMA TwoFields ==
    ASSUME CallsIn, NEW i \in {"now", "late"}, NEW step, NEW saw,
           calls' = [calls EXCEPT ![i].step = step, ![i].saw = saw]
    PROVE  calls' = [calls EXCEPT ![i] = [calls[i] EXCEPT !.step = step, !.saw = saw]]
  BY DEF CallsIn, Calls

-----------------------------------------------------------------------------
(* The server, one exchange a step further: what the exchange becomes.          *)

\* Nothing a handler does reaches the kiosk's flash, its tasks or the clock of the tickets.
ServerOnly == UNCHANGED <<lapsed, revoked, nvs, needsTicket, wipe, drawn>>

\* A row a handler has read.
LEMMA ReadIs ==
    ASSUME TicketTypes, NEW i \in {"now", "late"}, ReadDevice(i)
    PROVE  \E e \in Calls :
             /\ Changes(i, e) /\ e.kind = calls[i].kind /\ e.card = calls[i].card /\ e.saw = device
             /\ e.overtaken = calls[i].overtaken
             /\ \/ calls[i].step = "sent" /\ e.step = "read"
                \/ calls[i].step = "admitted" /\ e.step = "held"
<1>1. CallsIn /\ calls[i] \in Calls /\ device \in Rows
  BY CallsAre DEF TicketTypes
<1>2. PICK step \in {"read", "held"} :
        /\ calls[i].step = (IF step = "read" THEN "sent" ELSE "admitted")
        /\ calls' = [calls EXCEPT ![i].step = step, ![i].saw = device]
  <2>1. PICK onto \in {<<"sent", "read">>, <<"admitted", "held">>} :
          calls[i].step = onto[1] /\ calls' = [calls EXCEPT ![i].step = onto[2], ![i].saw = device]
    BY DEF ReadDevice
  <2>2. onto[2] \in {"read", "held"} /\ onto[1] = (IF onto[2] = "read" THEN "sent" ELSE "admitted")
    OBVIOUS
  <2> QED BY <2>1, <2>2
<1>3. PICK saw, e : saw = device /\ e = [calls[i] EXCEPT !.step = step, !.saw = saw]
  OBVIOUS
<1>4. step \in CallSteps
  BY DEF CallSteps
<1>5. calls' = [calls EXCEPT ![i] = e]
  BY <1>1, <1>2, <1>3, TwoFields
<1>6. e \in Calls /\ e.kind = calls[i].kind /\ e.card = calls[i].card /\ e.saw = device /\ e.step = step
      /\ e.overtaken = calls[i].overtaken
  BY <1>1, <1>3, <1>4 DEF Calls
<1> QED BY <1>1, <1>2, <1>5, <1>6, CallChanges

\* The row as each write leaves it.
LEMMA RowRetires ==
    ASSUME NEW r \in Rows
    PROVE  /\ [r EXCEPT !.prev = 0] \in Rows
           /\ [r EXCEPT !.prev = 0].token = r.token /\ [r EXCEPT !.prev = 0].prev = 0
           /\ [r EXCEPT !.prev = 0].status = r.status /\ [r EXCEPT !.prev = 0].claim = r.claim
  BY Bounds DEF Rows

(* A ticket collected: no ticket before it, and the code is spent. *)
LEMMA RowCollected ==
    ASSUME NEW r \in Rows, NEW a \in Tickets
    PROVE  /\ [r EXCEPT !.token = a, !.prev = 0, !.claim = 0] \in Rows
           /\ [r EXCEPT !.token = a, !.prev = 0, !.claim = 0].token = a
           /\ [r EXCEPT !.token = a, !.prev = 0, !.claim = 0].prev = 0
           /\ [r EXCEPT !.token = a, !.prev = 0, !.claim = 0].status = r.status
<1>1. 0 \in Tickets /\ 0 \in 0..MaxClaims
  BY Bounds
<1> QED BY <1>1 DEF Rows

(* A new code in place of the old. *)
LEMMA RowRenamed ==
    ASSUME NEW r \in Rows, NEW c \in 0..MaxClaims
    PROVE  /\ [r EXCEPT !.claim = c, !.wrong = 0] \in Rows
           /\ [r EXCEPT !.claim = c, !.wrong = 0].token = r.token
           /\ [r EXCEPT !.claim = c, !.wrong = 0].prev = r.prev
           /\ [r EXCEPT !.claim = c, !.wrong = 0].status = r.status
           /\ [r EXCEPT !.claim = c, !.wrong = 0].claim = c
<1>1. 0 \in 0..Attempts
  BY Bounds
<1> QED BY <1>1 DEF Rows

(* An approval changes the status and the count of wrong codes. *)
LEMMA RowApproved ==
    ASSUME NEW r \in Rows
    PROVE  /\ [r EXCEPT !.status = "APPROVED", !.wrong = 0] \in Rows
           /\ [r EXCEPT !.status = "APPROVED", !.wrong = 0].token = r.token
           /\ [r EXCEPT !.status = "APPROVED", !.wrong = 0].prev = r.prev
           /\ [r EXCEPT !.status = "APPROVED", !.wrong = 0].status = "APPROVED"
           /\ [r EXCEPT !.status = "APPROVED", !.wrong = 0].claim = r.claim
<1>1. 0 \in 0..Attempts
  BY Bounds
<1> QED BY <1>1 DEF Rows

(* A handler's step that gives out no ticket keeps a kiosk let in, if the row it leaves does. *)
LEMMA QuietServe ==
    ASSUME TicketTypes, LetInHolds, TicketTypes', ServerOnly,
           NEW i \in {"now", "late"}, NEW e \in Calls, Changes(i, e), signed <= signed',
           broker' = broker \/ (broker = "open" /\ broker' = "dialling"),
           i = "now" => /\ e.kind = calls.now.kind /\ e.card = calls.now.card /\ e.overtaken = FALSE
                        /\ e.step # "over" /\ ~(e.step = "yes" /\ e.kind \in {"register", "renew"}),
           i = "late" => /\ e.step \notin Final
                         /\ \/ e.kind = "none"
                            \/ e.kind = calls.late.kind /\ e.card = calls.late.card
                               /\ e.overtaken = calls.late.overtaken,
           CallHolds(e), Collects(e)', \A j \in {"now", "late"} : j # i => Collects(calls[j])',
           RowHolds', Stands(nvs.ticket)', i = "late" => GiftStands', ApprovedMayCollect',
           approving' => device'.token # 0 \/ device'.claim # 0
    PROVE  LetInHolds'
<1>0. signed \in Nat /\ signed' \in Nat /\ UNCHANGED nvs /\ UNCHANGED needsTicket
  BY Bounds DEF TicketTypes, ServerOnly
<1>1. \A f \in Calls : CallHolds(f) => CallHolds(f)'
  <2>1. 1..signed \subseteq 1..signed'
    BY <1>0
  <2> QED BY <2>1 DEF CallHolds
<1>2. CASE i = "now"
  <2>1. calls'.now = e /\ calls'.late = calls.late
    BY <1>2 DEF Changes
  <2>2. NowHolds'
    <3>1. NowHolds
      BY DEF LetInHolds
    <3>2. CallHolds(e)'
      BY <1>1
    <3> QED BY <1>0, <1>2, <2>1, <3>1, <3>2 DEF NowHolds, CallHolds
  <2>3. LateHolds'
    <3>1. LateHolds /\ CallHolds(calls.late) /\ calls.late \in Calls
      BY CallsAre DEF LetInHolds, LateHolds
    <3>2. CallHolds(calls.late)'
      BY <1>1, <2>1, <3>1 DEF CallHolds
    <3> QED BY <1>0, <1>2, <2>1, <3>1, <3>2 DEF LateHolds
  <2>4. GiftStands'
    BY <1>2, <2>1 DEF GiftStands
  <2>5. \A j \in {"now", "late"} : Collects(calls[j])'
    BY <1>2, <2>1 DEF Collects
  <2> QED BY <2>2, <2>3, <2>4, <2>5 DEF LetInHolds
<1>3. CASE i = "late"
  <2>1. calls'.late = e /\ calls'.now = calls.now
    BY <1>3 DEF Changes
  <2>2. NowHolds'
    <3>1. NowHolds /\ CallHolds(calls.now) /\ calls.now \in Calls
      BY CallsAre DEF LetInHolds, NowHolds
    <3>2. CallHolds(calls.now)'
      BY <1>1, <2>1, <3>1 DEF CallHolds
    <3>3. 1..signed \subseteq 1..signed'
      BY <1>0
    <3> QED BY <1>0, <1>3, <2>1, <3>1, <3>2, <3>3 DEF NowHolds
  <2>3. LateHolds'
    <3>1. LateHolds
      BY DEF LetInHolds
    <3>2. CallHolds(e)'
      BY <1>1
    <3> QED BY <1>0, <1>3, <2>1, <3>1, <3>2 DEF LateHolds, CallHolds, WithTicket
  <2>5. \A j \in {"now", "late"} : Collects(calls[j])'
    BY <1>3, <2>1 DEF Collects
  <2> QED BY <1>3, <2>2, <2>3, <2>5 DEF LetInHolds
<1> QED BY <1>2, <1>3

\* A ticket in the answer: the newest signed, and the row stands by it.
LEMMA GiftServe ==
    ASSUME TicketTypes, LetInHolds, TicketTypes', ServerOnly, NEW e \in Calls, Changes("now", e),
           signed' = signed + 1,
           broker' = broker \/ (broker = "open" /\ broker' = "dialling"),
           e.kind = calls.now.kind /\ e.card = calls.now.card /\ e.overtaken = FALSE /\ e.step = "yes",
           e.gift = signed', e.kind \in {"register", "renew"},
           RowHolds', Stands(nvs.ticket)', Stands(signed)', Collects(calls.late)', ApprovedMayCollect',
           approving' => device'.token # 0 \/ device'.claim # 0
    PROVE  LetInHolds'
<1>0. signed \in Nat /\ signed' \in Nat /\ UNCHANGED nvs /\ UNCHANGED needsTicket
      /\ 1..signed \subseteq 1..signed' /\ signed' \in 1..signed'
  BY Bounds DEF TicketTypes, ServerOnly
<1>1. \A f \in Calls : CallHolds(f) => CallHolds(f)'
  BY <1>0 DEF CallHolds
<1>2. calls'.now = e /\ calls'.late = calls.late /\ calls.now \in Calls /\ calls.late \in Calls
  BY CallsAre DEF Changes
<1>3. CallHolds(e)
  BY DEF LetInHolds, NowHolds, CallHolds, WithTicket
<1>4. NowHolds'
  <2>1. NowHolds
    BY DEF LetInHolds
  <2>2. CallHolds(calls.now)'
    BY <1>1, <1>2, <1>3 DEF CallHolds
  <2> QED BY <1>0, <1>2, <2>1, <2>2 DEF NowHolds
<1>5. LateHolds'
  <2>1. LateHolds /\ CallHolds(calls.late)
    BY DEF LetInHolds, LateHolds
  <2>2. CallHolds(calls.late)'
    BY <1>1, <1>2, <2>1 DEF CallHolds
  <2>3. calls.late.kind \in WithTicket => calls.late.card < signed'
    BY <1>0, <2>1 DEF CallHolds
  <2> QED BY <1>0, <1>2, <2>1, <2>2, <2>3 DEF LateHolds
<1>6. GiftStands'
  BY <1>2 DEF GiftStands, Stands
<1>7. \A j \in {"now", "late"} : Collects(calls[j])'
  BY <1>2 DEF Collects
<1> QED BY <1>4, <1>5, <1>6, <1>7 DEF LetInHolds

-----------------------------------------------------------------------------
(* The server's handlers.                                                      *)

LetInStill == ticketHoles' \intersect {"late", "crossed"} = {} => LetInHolds'

(* A handler's step keeps the types. *)
LEMMA ServeTypes ==
    ASSUME TicketTypes, ServerOnly, NEW i \in {"now", "late"}, NEW e \in Calls, Changes(i, e),
           device' \in Rows, signed' \in Tickets, signed <= signed', UNCHANGED approving,
           broker' = broker \/ (broker = "open" /\ broker' = "dialling"),
           ticketHoles' \subseteq {"late", "crossed", "unwiped", "claimed"}
    PROVE  TicketTypes'
<1>1. /\ nvs' \in Flash /\ nvs'.ticket <= signed' /\ nvs'.claim <= drawn' /\ drawn' \in 0..MaxClaims
      /\ lapsed' \in 0..signed' /\ revoked' \in 0..signed'
  <2>1. signed \in Nat /\ signed' \in Nat /\ nvs.ticket \in Nat
    BY Bounds DEF TicketTypes, Flash
  <2> QED BY <2>1 DEF TicketTypes, ServerOnly
<1> QED BY <1>1 DEF TicketTypes, ServerOnly, Changes

\* What stands, and what a row that keeps its status, its tickets and its code keeps.
LEMMA RowSame ==
    ASSUME TicketTypes, LetInHolds, ServerOnly, signed' = signed, UNCHANGED <<device, approving>>
    PROVE  /\ RowHolds' /\ Stands(nvs.ticket)' /\ ApprovedMayCollect'
           /\ approving' => device'.token # 0 \/ device'.claim # 0
           /\ UNCHANGED calls.now => GiftStands'
           /\ \A e \in Calls : Collects(e) => Collects(e)'
  BY DEF LetInHolds, ServerOnly, RowHolds, Stands, ApprovedMayCollect, GiftStands, Collects

(* A handler reads the row: what it saw is the row as it is. *)
LEMMA ReadDeviceStep ==
    ASSUME TicketTypes, LetInHolds, ticketHoles = {}, NEW i \in {"now", "late"}, ReadDevice(i), ServerOnly,
           UNCHANGED broker
    PROVE  TicketTypes' /\ LetInStill
<1>1. UNCHANGED <<device, signed, approving, ticketHoles>> /\ signed \in Nat
  BY Bounds DEF ReadDevice, serverSide, TicketTypes
<1>2. PICK e \in Calls :
        /\ Changes(i, e) /\ e.kind = calls[i].kind /\ e.card = calls[i].card /\ e.saw = device
        /\ e.overtaken = calls[i].overtaken
        /\ \/ calls[i].step = "sent" /\ e.step = "read"
           \/ calls[i].step = "admitted" /\ e.step = "held"
  BY ReadIs
<1>3. TicketTypes'
  BY <1>1, <1>2, ServeTypes DEF TicketTypes
<1>4. CallHolds(calls[i]) /\ calls[i] \in Calls /\ (i = "now" => calls[i].overtaken = FALSE)
  BY CallsAre DEF LetInHolds, NowHolds, LateHolds
<1>5. CallHolds(e)
  BY <1>2, <1>4 DEF CallHolds, WithTicket
<1>6. Collects(e)'
  BY <1>1, <1>2 DEF Collects
<1>7. \A j \in {"now", "late"} : j # i => Collects(calls[j])'
  BY <1>1, <1>2, RowSame, CallsAre DEF LetInHolds, Changes, Collects
<1>8. i = "late" => GiftStands'
  BY <1>1, <1>2, RowSame DEF Changes, GiftStands
<1>9. /\ RowHolds' /\ Stands(nvs.ticket)' /\ ApprovedMayCollect'
      /\ approving' => device'.token # 0 \/ device'.claim # 0
  BY <1>1, RowSame
<1>10. e.step \in {"read", "held"} /\ e.step \notin Final /\ signed <= signed'
  BY <1>1, <1>2 DEF Final
<1>11. LetInHolds'
  BY <1>1, <1>2, <1>3, <1>4, <1>5, <1>6, <1>7, <1>8, <1>9, <1>10, QuietServe
<1> QED BY <1>3, <1>11 DEF LetInStill

\* A ticket of 0 stands for nothing.
LEMMA NoneStands == ASSUME TicketTypes PROVE Stands(0)
  BY Bounds DEF TicketTypes, Stands

\* The old ticket is retired by nobody who still needs it.
LEMMA RetiringIsSafe ==
    ASSUME TicketTypes, LetInHolds, ServerOnly, NEW i \in {"now", "late"}, calls[i].kind \in WithTicket,
           calls[i].step = "read", UNCHANGED signed,
           calls[i].card = device.token, device' = [device EXCEPT !.prev = 0]
    PROVE  /\ RowHolds' /\ Stands(nvs.ticket)' /\ ApprovedMayCollect'
           /\ device'.token = device.token /\ device'.claim = device.claim /\ device'.status = device.status
           /\ i = "late" /\ UNCHANGED calls.now => GiftStands'
<1>1. /\ device \in Rows /\ signed \in Nat /\ nvs.ticket \in Nat /\ lapsed \in Nat /\ revoked \in Nat
      /\ UNCHANGED <<nvs, lapsed, revoked>>
      /\ calls.now.gift \in Nat
  BY Bounds, CallsAre DEF TicketTypes, ServerOnly, Flash
<1>2. /\ device'.token = device.token /\ device'.claim = device.claim /\ device'.status = device.status
      /\ device'.prev = 0
  BY <1>1, RowRetires
<1>3. /\ device.token \in Nat /\ device.prev \in Nat /\ device.prev # 0 => device.prev < device.token
      /\ device.token <= signed /\ ApprovedMayCollect
  BY <1>1, RowIs DEF LetInHolds, RowHolds
<1>4. RowHolds' /\ ApprovedMayCollect'
  BY <1>2, <1>3 DEF RowHolds, ApprovedMayCollect
<1>5. device.token \in 1..signed
  BY DEF LetInHolds, NowHolds, LateHolds, CallHolds
<1>6. Stands(nvs.ticket)'
  <2>1. Stands(nvs.ticket)
    BY DEF LetInHolds
  <2>2. CASE i = "now"
    <3>1. nvs.ticket = device.token
      BY <2>2 DEF LetInHolds, NowHolds
    <3> QED BY <1>1, <1>2, <2>1, <3>1 DEF Stands
  <2>3. CASE i = "late"
    <3>1. nvs.ticket = 0 \/ device.token <= nvs.ticket
      BY <2>3 DEF LetInHolds, LateHolds
    <3>2. nvs.ticket # device.prev \/ nvs.ticket = 0
      BY <1>1, <1>3, <1>5, <3>1
    <3> QED BY <1>1, <1>2, <2>1, <3>2 DEF Stands
  <2> QED BY <2>2, <2>3
<1>7. ASSUME i = "late", UNCHANGED calls.now PROVE GiftStands'
  <2>1. SUFFICES ASSUME calls.now.step = "yes", calls.now.kind \in {"register", "renew"}
                 PROVE  Stands(calls.now.gift)'
    BY <1>7 DEF GiftStands
  <2>2. Stands(calls.now.gift)
    BY <2>1 DEF LetInHolds, GiftStands
  <2>3. device.token < calls.now.gift
    BY <1>7, <2>1 DEF LetInHolds, LateHolds
  <2>4. calls.now.gift # device.prev /\ calls.now.gift # device.token
    BY <1>1, <1>3, <1>5, <2>3
  <2> QED BY <1>1, <1>7, <2>2, <2>4 DEF Stands
<1> QED BY <1>2, <1>4, <1>6, <1>7

\* The answer without a ticket: who waits is told, and nobody hears a late one.
LEMMA ToldIs ==
    ASSUME TicketTypes, LetInHolds, NEW i \in {"now", "late"}, NEW step \in {"yes", "no", "wait", "spent", "error"},
           Told(i, step), step = "yes" => calls[i].kind \notin {"register", "renew"},
           calls[i].step = "read" \/ calls[i].step = "held"
    PROVE  \E e \in Calls :
             /\ Changes(i, e) /\ CallHolds(e) /\ ~(e.kind = "register" /\ e.step = "read")
             /\ i = "now" => /\ e.kind = calls.now.kind /\ e.card = calls.now.card /\ e.overtaken = FALSE
                             /\ e.step # "over" /\ ~(e.step = "yes" /\ e.kind \in {"register", "renew"})
             /\ i = "late" => e.step \notin Final /\ e.kind = "none"
<1>1. CallsIn /\ step \in CallSteps /\ 0 \in Tickets /\ Replies(i, step, 0)
  BY CallsAre, Bounds DEF Told, CallSteps, Final
<1>2. CASE i = "late"
  <2>1. Changes("late", Over)
    BY <1>1, <1>2, RepliesIs
  <2>2. CallHolds(Over) /\ Over.step \notin Final
    BY NoCallIs DEF CallHolds, WithTicket, Final
  <2> QED BY <1>2, <2>1, <2>2, NoCallIs
<1>3. CASE i = "now"
  <2>1. PICK e \in Calls :
          /\ Changes("now", e) /\ e.kind = calls.now.kind /\ e.card = calls.now.card
          /\ e.step = step /\ e.overtaken = calls.now.overtaken
    BY <1>1, <1>3, RepliesIs
  <2>2. CallHolds(calls.now) /\ calls.now.overtaken = FALSE /\ calls.now \in Calls
    BY CallsAre DEF LetInHolds, NowHolds
  <2>3. calls.now.kind # "none"
    BY <1>3, <2>2 DEF CallHolds
  <2>4. CallHolds(e)
    BY <2>1, <2>2, <2>3 DEF CallHolds, WithTicket
  <2> QED BY <1>3, <2>1, <2>2, <2>4
<1> QED BY <1>2, <1>3

(* admitDevice, which may retire the ticket before. *)
LEMMA AdmitStep ==
    ASSUME TicketTypes, LetInHolds, ticketHoles = {}, NEW i \in {"now", "late"}, Admit(i), ServerOnly,
           UNCHANGED broker
    PROVE  TicketTypes' /\ LetInStill
<1>1. /\ UNCHANGED <<signed, approving, ticketHoles>> /\ signed \in Nat /\ calls[i].step = "read"
      /\ calls[i].kind \in WithTicket /\ calls[i] \in Calls /\ CallsIn
  BY Bounds, CallsAre DEF Admit, WithTicket, TicketTypes
<1>2. \/ device' = device
      \/ device' = [device EXCEPT !.prev = 0] /\ calls[i].card = device.token
  BY DEF Admit, Retires
<1>3. PICK e \in Calls :
        /\ Changes(i, e) /\ CallHolds(e) /\ ~(e.kind = "register" /\ e.step = "read")
        /\ i = "now" => /\ e.kind = calls.now.kind /\ e.card = calls.now.card /\ e.overtaken = FALSE
                        /\ e.step # "over" /\ ~(e.step = "yes" /\ e.kind \in {"register", "renew"})
        /\ i = "late" => /\ e.step \notin Final
                         /\ \/ e.kind = "none"
                            \/ e.kind = calls.late.kind /\ e.card = calls.late.card
                               /\ e.overtaken = calls.late.overtaken
  <2>1. CASE Told(i, "no") \/ (calls[i].kind # "renew" /\ Told(i, "yes"))
    BY <1>1, <2>1, ToldIs, NoRowIs DEF WithTicket
  <2>2. CASE calls' = [calls EXCEPT ![i].step = "admitted", ![i].saw = NoRow] /\ calls[i].kind = "renew"
    <3>1. PICK e : e = [calls[i] EXCEPT !.step = "admitted", !.saw = NoRow]
      OBVIOUS
    <3>2. "admitted" \in CallSteps
      BY DEF CallSteps
    <3>3. e \in Calls /\ e.kind = "renew" /\ e.card = calls[i].card /\ e.overtaken = calls[i].overtaken
          /\ e.step = "admitted"
      BY <1>1, <2>2, <3>1, <3>2, NoRowIs DEF Calls
    <3>4. calls' = [calls EXCEPT ![i] = e]
      BY <1>1, <2>2, <3>1, TwoFields
    <3>5. Changes(i, e)
      BY <1>1, <3>3, <3>4, CallChanges
    <3>6. CallHolds(calls[i]) /\ (i = "now" => calls[i].overtaken = FALSE)
      BY DEF LetInHolds, NowHolds, LateHolds
    <3>7. CallHolds(e)
      BY <1>1, <2>2, <3>3, <3>6 DEF CallHolds, WithTicket
    <3>8. e.step \notin Final
      BY <3>3 DEF Final
    <3> QED BY <2>2, <3>3, <3>5, <3>6, <3>7, <3>8
  <2> QED BY <2>1, <2>2 DEF Admit
<1>4. device' \in Rows /\ device'.token = device.token /\ device'.claim = device.claim /\ device'.status = device.status
  BY <1>2, RowRetires DEF TicketTypes
<1>5. TicketTypes'
  BY <1>1, <1>3, <1>4, ServeTypes DEF TicketTypes
<1>6. /\ RowHolds' /\ Stands(nvs.ticket)' /\ ApprovedMayCollect'
      /\ i = "late" => GiftStands'
  <2>1. i = "late" => UNCHANGED calls.now
    BY <1>3 DEF Changes
  <2> QED BY <1>1, <1>2, <2>1, RowSame, RetiringIsSafe
<1>7. approving' => device'.token # 0 \/ device'.claim # 0
  BY <1>1, <1>4 DEF LetInHolds
<1>8. Collects(e)' /\ \A j \in {"now", "late"} : j # i => Collects(calls[j])'
  BY <1>3, <1>4 DEF Collects, LetInHolds, Changes
<1>9. signed <= signed'
  BY <1>1
<1>10. LetInHolds'
  BY <1>1, <1>3, <1>5, <1>6, <1>7, <1>8, <1>9, QuietServe
<1> QED BY <1>5, <1>10 DEF LetInStill

\* A ticket in the answer.
LEMMA GiftIs ==
    ASSUME TicketTypes, LetInHolds, NEW i \in {"now", "late"}, NEW gift \in Tickets, Replies(i, "yes", gift)
    PROVE  /\ i = "late" => Changes("late", Over)
           /\ i = "now" => \E e \in Calls :
                 /\ Changes("now", e) /\ e.kind = calls.now.kind /\ e.card = calls.now.card /\ e.overtaken = FALSE
                 /\ e.step = "yes" /\ e.gift = gift
<1>1. CallsIn /\ "yes" \in CallSteps /\ calls.now.overtaken = FALSE
  BY CallsAre DEF CallSteps, Final, LetInHolds, NowHolds
<1> QED BY <1>1, RepliesIs

\* The end of an exchange given up on, whatever it wrote, if the kiosk asked for nothing since.
LEMMA LateServe ==
    ASSUME TicketTypes, LetInHolds, TicketTypes', ServerOnly, Changes("late", Over), signed <= signed',
           broker' = broker \/ (broker = "open" /\ broker' = "dialling"),
           RowHolds', Stands(nvs.ticket)', GiftStands', Collects(calls.now)', ApprovedMayCollect',
           approving' => device'.token # 0 \/ device'.claim # 0
    PROVE  LetInHolds'
<1>1. Over \in Calls /\ Over.kind = "none" /\ Over.step \notin Final /\ CallHolds(Over) /\ Collects(Over)'
  BY NoCallIs DEF Final, CallHolds, WithTicket, Collects
<1>2. PICK over : over = Over
  OBVIOUS
<1>3. \A j \in {"now", "late"} : j # "late" => Collects(calls[j])'
  OBVIOUS
<1>4. over \in Calls /\ over.kind = "none" /\ over.step \notin Final /\ CallHolds(over) /\ Collects(over)'
      /\ Changes("late", over)
  BY <1>1, <1>2 DEF Collects
<1>5. ASSUME NEW i \in {"now", "late"}, i = "late" PROVE LetInHolds'
  BY <1>3, <1>4, <1>5, QuietServe
<1> QED BY <1>5

\* A handler that only answers, without a ticket.
LEMMA OnlyTells ==
    ASSUME TicketTypes, LetInHolds, ticketHoles = {}, NEW i \in {"now", "late"},
           NEW step \in {"no", "wait", "spent", "error"}, Told(i, step), calls[i].step = "read" \/ calls[i].step = "held",
           UNCHANGED <<signed, approving, ticketHoles, broker>>, ServerOnly,
           device' \in Rows, RowHolds', Stands(nvs.ticket)', i = "late" => GiftStands', ApprovedMayCollect',
           approving' => device'.token # 0 \/ device'.claim # 0, device'.status = device.status \/ device.status = "none"
    PROVE  TicketTypes' /\ LetInStill
<1>1. PICK e \in Calls :
        /\ Changes(i, e) /\ CallHolds(e) /\ ~(e.kind = "register" /\ e.step = "read")
        /\ i = "now" => /\ e.kind = calls.now.kind /\ e.card = calls.now.card /\ e.overtaken = FALSE
                        /\ e.step # "over" /\ ~(e.step = "yes" /\ e.kind \in {"register", "renew"})
        /\ i = "late" => e.step \notin Final /\ e.kind = "none"
  BY ToldIs
<1>2. signed \in Nat /\ signed <= signed'
  BY Bounds DEF TicketTypes
<1>3. TicketTypes'
  BY <1>1, <1>2, ServeTypes DEF TicketTypes
<1>4. Collects(e)' /\ \A j \in {"now", "late"} : j # i => Collects(calls[j])'
  BY <1>1 DEF Collects, LetInHolds, Changes
<1>5. LetInHolds'
  BY <1>1, <1>2, <1>3, <1>4, QuietServe
<1> QED BY <1>3, <1>5 DEF LetInStill

(* register, for a machine that waits. *)
LEMMA HoldPendingStep ==
    ASSUME TicketTypes, LetInHolds, ticketHoles = {}, NEW i \in {"now", "late"}, HoldPending(i), ServerOnly,
           UNCHANGED broker
    PROVE  TicketTypes' /\ LetInStill
<1>1. /\ UNCHANGED <<signed, approving, ticketHoles>> /\ calls[i].step = "read" /\ calls[i].kind = "register"
      /\ \E step \in {"wait", "spent"} : Told(i, step)
      /\ device' = device \/ device' = [device EXCEPT !.claim = calls[i].card, !.wrong = 0]
  BY DEF HoldPending
<1>2. calls[i].card \in 1..MaxClaims /\ calls[i].card \in 0..MaxClaims /\ device \in Rows
  BY <1>1, Bounds DEF LetInHolds, NowHolds, LateHolds, CallHolds, TicketTypes
<1>3. CASE device' = device
  BY <1>1, <1>2, <1>3, RowSame, OnlyTells, ToldIs DEF GiftStands, Changes
<1>4. CASE device' = [device EXCEPT !.claim = calls[i].card, !.wrong = 0]
  <2>1. /\ device' \in Rows /\ device'.token = device.token /\ device'.prev = device.prev
        /\ device'.status = device.status /\ device'.claim # 0
    <3>1. PICK c \in 0..MaxClaims : c = calls[i].card /\ c # 0
      BY <1>2
    <3>2. device' = [device EXCEPT !.claim = c, !.wrong = 0]
      BY <1>4, <3>1
    <3> QED BY <1>2, <3>1, <3>2, RowRenamed
  <2>2. i = "late" => UNCHANGED calls.now
    BY <1>1, ToldIs DEF Changes
  <2>3. RowHolds' /\ Stands(nvs.ticket)' /\ (i = "late" => GiftStands') /\ ApprovedMayCollect'
    BY <1>1, <2>1, <2>2 DEF LetInHolds, RowHolds, Stands, GiftStands, ApprovedMayCollect, ServerOnly
  <2> QED BY <1>1, <2>1, <2>3, OnlyTells
<1> QED BY <1>1, <1>3, <1>4

(* register, for a machine the server has not met. *)
LEMMA RegisterNewStep ==
    ASSUME TicketTypes, LetInHolds, ticketHoles = {}, NEW i \in {"now", "late"}, RegisterNew(i), ServerOnly,
           UNCHANGED broker
    PROVE  TicketTypes' /\ LetInStill
<1>1. /\ UNCHANGED <<signed, approving, ticketHoles>> /\ calls[i].step = "read" /\ calls[i].kind = "register"
      /\ \E step \in {"wait", "error"} : Told(i, step)
      /\ \/ device' = device
         \/ device' = [NoRow EXCEPT !.status = "PENDING", !.claim = calls[i].card] /\ device.status = "none"
  BY DEF RegisterNew
<1>2. calls[i].card \in 1..MaxClaims /\ calls[i].card \in 0..MaxClaims /\ device \in Rows /\ signed \in Nat
  BY <1>1, Bounds DEF LetInHolds, NowHolds, LateHolds, CallHolds, TicketTypes
<1>3. i = "late" => UNCHANGED calls.now
  BY <1>1, ToldIs DEF Changes
<1>4. CASE device' = device
  BY <1>1, <1>2, <1>3, <1>4, RowSame, OnlyTells
<1>5. CASE device' = [NoRow EXCEPT !.status = "PENDING", !.claim = calls[i].card] /\ device.status = "none"
  <2>1. /\ device' \in Rows /\ device'.token = 0 /\ device'.prev = 0 /\ device'.status = "PENDING" /\ device'.claim # 0
    <3>1. PICK c \in 0..MaxClaims : c = calls[i].card /\ c # 0
      BY <1>2
    <3>2. device' = [NoRow EXCEPT !.status = "PENDING", !.claim = c]
      BY <1>5, <3>1
    <3> QED BY <3>1, <3>2, NewRowIs
  <2>2. RowHolds' /\ Stands(nvs.ticket)' /\ (i = "late" => GiftStands') /\ ApprovedMayCollect'
    BY <1>1, <1>2, <1>3, <1>5, <2>1 DEF LetInHolds, RowHolds, Stands, GiftStands, ApprovedMayCollect, ServerOnly
  <2> QED BY <1>1, <1>5, <2>1, <2>2, OnlyTells
<1> QED BY <1>1, <1>4, <1>5

(* register, for one approved with a ticket or put out: it has no ticket that stands. *)
LEMMA RegisterAgainStep ==
    ASSUME TicketTypes, LetInHolds, ticketHoles = {}, NEW i \in {"now", "late"}, RegisterAgain(i), ServerOnly
    PROVE  TicketTypes' /\ LetInStill
<1>1. /\ UNCHANGED <<signed, approving>> /\ ticketHoles' = Overtaken(i)
      /\ calls[i].step = "read" /\ calls[i].kind = "register" /\ Told(i, "wait")
      /\ device' = [NoRow EXCEPT !.status = "PENDING", !.claim = calls[i].card]
      /\ broker' = broker \/ (broker = "open" /\ broker' = "dialling")
  BY DEF RegisterAgain
<1>2. calls[i].card \in 1..MaxClaims /\ calls[i].card \in 0..MaxClaims /\ device \in Rows
      /\ signed \in Nat /\ signed <= signed'
  BY <1>1, Bounds DEF LetInHolds, NowHolds, LateHolds, CallHolds, TicketTypes
<1>3. /\ device' \in Rows /\ device'.token = 0 /\ device'.prev = 0 /\ device'.status = "PENDING" /\ device'.claim # 0
  <2>1. PICK c \in 0..MaxClaims : c = calls[i].card /\ c # 0
    BY <1>2
  <2>2. device' = [NoRow EXCEPT !.status = "PENDING", !.claim = c]
    BY <1>1, <2>1
  <2> QED BY <2>1, <2>2, NewRowIs
<1>4. PICK e \in Calls :
        /\ Changes(i, e) /\ CallHolds(e) /\ ~(e.kind = "register" /\ e.step = "read")
        /\ i = "now" => /\ e.kind = calls.now.kind /\ e.card = calls.now.card /\ e.overtaken = FALSE
                        /\ e.step # "over" /\ ~(e.step = "yes" /\ e.kind \in {"register", "renew"})
        /\ i = "late" => e.step \notin Final /\ e.kind = "none"
  BY <1>1, ToldIs
<1>5. TicketTypes'
  <2>1. ticketHoles' \subseteq {"late", "crossed", "unwiped", "claimed"}
    BY <1>1 DEF Overtaken
  <2> QED BY <1>1, <1>2, <1>3, <1>4, <2>1, ServeTypes DEF TicketTypes
<1>6. ASSUME ticketHoles' \intersect {"late", "crossed"} = {} PROVE LetInHolds'
  <2>1. ~calls[i].overtaken
    BY <1>1, <1>6 DEF Overtaken
  <2>2. nvs.ticket = 0 /\ \A j \in {"now", "late"} : j # i /\ calls[j].kind = "register" => calls[j].overtaken
    <3>1. CASE i = "now"
      BY <1>1, <3>1 DEF LetInHolds, NowHolds, LateHolds
    <3>2. CASE i = "late"
      BY <1>1, <2>1, <3>2 DEF LetInHolds, LateHolds
    <3> QED BY <3>1, <3>2
  <2>3. Stands(nvs.ticket)'
    <3>1. nvs'.ticket = 0 /\ lapsed' \in Nat
      BY <2>2, Bounds DEF ServerOnly, TicketTypes
    <3> QED BY <3>1 DEF Stands
  <2>4. i = "late" => GiftStands'
    BY <1>1, <1>4, <2>1 DEF LetInHolds, LateHolds, GiftStands, Changes
  <2>5. Collects(e)' /\ \A j \in {"now", "late"} : j # i => Collects(calls[j])'
    BY <1>4, <2>2 DEF Collects, Changes
  <2>6. RowHolds' /\ ApprovedMayCollect'
    BY <1>1, <1>2, <1>3 DEF RowHolds, ApprovedMayCollect
  <2> QED BY <1>1, <1>2, <1>3, <1>4, <1>5, <2>3, <2>4, <2>5, <2>6, QuietServe
<1> QED BY <1>5, <1>6 DEF LetInStill

(* register, for one approved: the ticket given stands, for the row is still approved. *)
LEMMA CollectStep ==
    ASSUME TicketTypes, LetInHolds, ticketHoles = {}, NEW i \in {"now", "late"}, Collect(i), ServerOnly
    PROVE  TicketTypes' /\ LetInStill
<1>0. calls[i].step = "read" /\ calls[i].kind = "register" /\ calls[i].saw.status = "APPROVED"
      /\ calls[i].saw.token = 0 /\ UNCHANGED approving
  BY DEF Collect
<1>1. CASE Told(i, "wait") /\ UNCHANGED <<device, signed, ticketHoles, broker>>
  <2>1. i = "late" => UNCHANGED calls.now
    BY <1>0, <1>1, ToldIs DEF Changes
  <2> QED BY <1>0, <1>1, <2>1, RowSame, OnlyTells DEF TicketTypes
<1>2. CASE /\ signed < MaxTickets /\ signed' = signed + 1
           /\ device' = [device EXCEPT !.token = signed + 1, !.prev = 0, !.claim = 0]
           /\ Replies(i, "yes", signed + 1)
           /\ ticketHoles' = Overtaken(i)
           /\ broker' = IF broker = "open" THEN "dialling" ELSE broker
  <2>1. PICK gift \in Tickets : gift = signed + 1 /\ gift = signed' /\ gift # 0
    BY <1>2, Bounds DEF TicketTypes, Tickets
  <2>2. device \in Rows /\ signed \in Nat /\ signed <= signed'
    BY <1>2, Bounds DEF TicketTypes
  <2>3. device' \in Rows /\ device'.token = gift /\ device'.prev = 0 /\ device'.status = device.status
    BY <1>2, <2>1, <2>2, RowCollected
  <2>4. /\ i = "late" => Changes("late", Over)
        /\ i = "now" => \E e \in Calls :
              /\ Changes("now", e) /\ e.kind = calls.now.kind /\ e.card = calls.now.card /\ e.overtaken = FALSE
              /\ e.step = "yes" /\ e.gift = gift
    BY <1>2, <2>1, GiftIs
  <2>5. TicketTypes'
    <3>1. ticketHoles' \subseteq {"late", "crossed", "unwiped", "claimed"}
      BY <1>2 DEF Overtaken
    <3>2. \E e \in Calls : Changes(i, e)
      BY <2>4, NoCallIs
    <3> QED BY <1>0, <1>2, <2>1, <2>2, <2>3, <3>1, <3>2, ServeTypes
  <2>6. RowHolds' /\ ApprovedMayCollect' /\ device'.token # 0
    BY <2>1, <2>2, <2>3 DEF RowHolds, ApprovedMayCollect, TicketTypes, Tickets
  <2>7. \A j \in {"now", "late"} : j # i => Collects(calls[j])'
    BY <2>3, <2>4 DEF LetInHolds, Collects, Changes
  <2>8. ASSUME ticketHoles' \intersect {"late", "crossed"} = {} PROVE LetInHolds'
    <3>1. ~calls[i].overtaken
      BY <1>2, <2>8 DEF Overtaken
    <3>2. nvs.ticket = 0
      BY <1>0, <3>1 DEF LetInHolds, NowHolds, LateHolds
    <3>3. Stands(nvs.ticket)'
      <4>1. nvs'.ticket = 0 /\ lapsed' \in Nat
        BY <3>2, Bounds DEF ServerOnly, TicketTypes
      <4> QED BY <4>1 DEF Stands
    <3>4. device.status = "APPROVED"
      BY <1>0, <3>1 DEF LetInHolds, Collects
    <3>5. CASE i = "now"
      <4>1. PICK e \in Calls :
              /\ Changes("now", e) /\ e.kind = calls.now.kind /\ e.card = calls.now.card /\ e.overtaken = FALSE
              /\ e.step = "yes" /\ e.gift = gift
        BY <2>4, <3>5
      <4>2. Stands(signed)'
        BY <2>1, <2>3, <3>4 DEF Stands
      <4> QED BY <1>0, <1>2, <2>1, <2>5, <2>6, <2>7, <3>3, <3>5, <4>1, <4>2, GiftServe
    <3>6. CASE i = "late"
      <4>1. GiftStands'
        BY <1>0, <2>4, <3>1, <3>6 DEF LetInHolds, LateHolds, GiftStands, Changes
      <4> QED BY <1>2, <2>2, <2>4, <2>5, <2>6, <2>7, <3>3, <3>6, <4>1, LateServe
    <3> QED BY <3>5, <3>6
  <2> QED BY <2>5, <2>8 DEF LetInStill
<1> QED BY <1>1, <1>2 DEF Collect

(* renew: the fresh ticket stands, and the one presented as the one before. *)
LEMMA RenewStep ==
    ASSUME TicketTypes, LetInHolds, ticketHoles = {}, NEW i \in {"now", "late"}, Renew(i), ServerOnly,
           UNCHANGED broker
    PROVE  TicketTypes' /\ LetInStill
<1>0. calls[i].step = "held" /\ calls[i].kind = "renew" /\ UNCHANGED approving
  BY DEF Renew, LetInHolds, NowHolds, LateHolds, CallHolds
<1>1. CASE Told(i, "no") /\ UNCHANGED <<device, signed, ticketHoles>>
  <2>1. i = "late" => UNCHANGED calls.now
    BY <1>0, <1>1, ToldIs DEF Changes
  <2> QED BY <1>0, <1>1, <2>1, RowSame, OnlyTells DEF TicketTypes
<1>2. CASE /\ calls[i].card \in {calls[i].saw.token, calls[i].saw.prev}
           /\ device.status = "APPROVED" /\ signed < MaxTickets /\ signed' = signed + 1
           /\ device' = [device EXCEPT !.token = signed + 1, !.prev = PrevAfter(calls[i])]
           /\ Replies(i, "yes", signed + 1)
           /\ ticketHoles' = Overtaken(i)
  <2>1. PICK gift \in Tickets : gift = signed + 1 /\ gift = signed' /\ gift # 0
    BY <1>2, Bounds DEF TicketTypes, Tickets
  <2>2. device \in Rows /\ signed \in Nat /\ signed <= signed'
    BY <1>2, Bounds DEF TicketTypes
  <2>3. PrevAfter(calls[i]) = calls[i].card /\ calls[i].card \in 1..signed /\ calls[i].card \in Tickets
    <3>1. PrevAfter(calls[i]) = calls[i].card
      BY <1>2 DEF PrevAfter
    <3>2. calls[i].card \in 1..signed
      BY <1>0 DEF LetInHolds, NowHolds, LateHolds, CallHolds, WithTicket
    <3> QED BY <3>1, <3>2, Bounds DEF TicketTypes, Tickets
  <2>4. /\ device' \in Rows /\ device'.token = gift /\ device'.prev = calls[i].card
        /\ device'.status = "APPROVED"
    <3>1. PICK before \in Tickets : before = calls[i].card
      BY <2>3
    <3>2. device' = [device EXCEPT !.token = gift, !.prev = before]
      BY <1>2, <2>1, <2>3, <3>1
    <3>3. device.status = "APPROVED"
      BY <1>2
    <3>4. device' \in Rows /\ device'.token = gift /\ device'.prev = before /\ device'.status = device.status
      BY <2>1, <2>2, <3>1, <3>2 DEF Rows
    <3> QED BY <3>1, <3>3, <3>4
  <2>5. /\ i = "late" => Changes("late", Over)
        /\ i = "now" => \E e \in Calls :
              /\ Changes("now", e) /\ e.kind = calls.now.kind /\ e.card = calls.now.card /\ e.overtaken = FALSE
              /\ e.step = "yes" /\ e.gift = gift
    BY <1>2, <2>1, GiftIs
  <2>6. TicketTypes'
    <3>1. ticketHoles' \subseteq {"late", "crossed", "unwiped", "claimed"}
      BY <1>2 DEF Overtaken
    <3>2. \E e \in Calls : Changes(i, e)
      BY <2>5, NoCallIs
    <3> QED BY <1>0, <1>2, <2>1, <2>2, <2>4, <3>1, <3>2, ServeTypes
  <2>7. RowHolds' /\ ApprovedMayCollect' /\ device'.token # 0
    BY <2>1, <2>2, <2>3, <2>4 DEF RowHolds, ApprovedMayCollect
  <2>8. \A j \in {"now", "late"} : j # i => Collects(calls[j])'
    BY <2>4, <2>5 DEF LetInHolds, Collects, Changes
  <2>9. ASSUME ticketHoles' \intersect {"late", "crossed"} = {} PROVE LetInHolds'
    <3>1. ~calls[i].overtaken
      BY <1>2, <2>9 DEF Overtaken
    <3>2. nvs.ticket \in {0, calls[i].card}
      BY <1>0, <3>1 DEF LetInHolds, NowHolds, LateHolds, WithTicket
    <3>3. Stands(nvs.ticket)'
      <4>1. nvs'.ticket \in {0, calls[i].card} /\ lapsed' \in Nat
        BY <3>2, Bounds DEF ServerOnly, TicketTypes
      <4> QED BY <2>4, <4>1 DEF Stands
    <3>4. CASE i = "now"
      <4>1. PICK e \in Calls :
              /\ Changes("now", e) /\ e.kind = calls.now.kind /\ e.card = calls.now.card /\ e.overtaken = FALSE
              /\ e.step = "yes" /\ e.gift = gift
        BY <2>5, <3>4
      <4>2. Stands(signed)'
        BY <2>1, <2>4 DEF Stands
      <4> QED BY <1>0, <1>2, <2>1, <2>6, <2>7, <2>8, <3>3, <3>4, <4>1, <4>2, GiftServe
    <3>5. CASE i = "late"
      <4>1. GiftStands'
        BY <1>0, <2>5, <3>1, <3>5 DEF LetInHolds, LateHolds, GiftStands, Changes
      <4> QED BY <1>2, <2>2, <2>5, <2>6, <2>7, <2>8, <3>3, <3>5, <4>1, LateServe
    <3> QED BY <3>4, <3>5
  <2> QED BY <2>6, <2>9 DEF LetInStill
<1> QED BY <1>1, <1>2 DEF Renew

\* A handler of the server's, whichever it is.
LEMMA ServeStep ==
    ASSUME TicketTypes, LetInHolds, ticketHoles = {}, NEW i \in {"now", "late"}, Serve(i)
    PROVE  TicketTypes' /\ LetInStill
<1>1. ServerOnly
  BY DEF Serve, ServerOnly
<1>2. CASE (ReadDevice(i) \/ Admit(i) \/ Renew(i) \/ RegisterNew(i) \/ HoldPending(i)) /\ UNCHANGED broker
  BY <1>1, <1>2, ReadDeviceStep, AdmitStep, RenewStep, RegisterNewStep, HoldPendingStep
<1>3. CASE RegisterAgain(i) \/ Collect(i)
  BY <1>1, <1>3, RegisterAgainStep, CollectStep
<1> QED BY <1>2, <1>3 DEF Serve

-----------------------------------------------------------------------------
(* The administrator, and the clock of the tickets.                            *)

(* approve() has read a row with a code. *)
LEMMA ApproveReadsStep ==
    ASSUME TicketTypes, LetInHolds, ApproveReads
    PROVE  TicketTypes' /\ LetInHolds'
<1>1. /\ UNCHANGED <<signed, lapsed, revoked, calls, kioskSide, ticketHoles>>
      /\ device.claim # 0 /\ device.wrong < Attempts /\ device \in Rows
  BY DEF ApproveReads, TicketTypes
<1>2. /\ device' \in Rows /\ device'.token = device.token /\ device'.prev = device.prev
      /\ device'.status = device.status /\ device'.claim = device.claim /\ approving' \in BOOLEAN
  <2>1. CASE device' = [device EXCEPT !.wrong = @ + 1] /\ UNCHANGED approving
    <3>1. PICK wrong \in 0..Attempts : wrong = device.wrong + 1
      BY <1>1, RowIs, Bounds
    <3>2. device' = [device EXCEPT !.wrong = wrong]
      BY <1>1, <2>1, <3>1 DEF Rows
    <3> QED BY <1>1, <2>1, <3>2 DEF Rows, TicketTypes
  <2>2. CASE approving' = TRUE /\ UNCHANGED device
    BY <1>1, <2>2
  <2> QED BY <2>1, <2>2 DEF ApproveReads
<1>3. TicketTypes'
  BY <1>1, <1>2 DEF TicketTypes, kioskSide
<1>4. LetInHolds'
  BY <1>1, <1>2 DEF LetInHolds, RowHolds, NowHolds, LateHolds, CallHolds, Stands, GiftStands, Collects,
     ApprovedMayCollect, kioskSide
<1> QED BY <1>3, <1>4

(* What it writes leaves the tickets and the code. *)
LEMMA ApproveWritesStep ==
    ASSUME TicketTypes, LetInHolds, ApproveWrites
    PROVE  TicketTypes' /\ LetInHolds'
<1>1. /\ UNCHANGED <<signed, lapsed, revoked, calls, kioskSide, ticketHoles>>
      /\ approving /\ approving' = FALSE /\ device \in Rows
      /\ device' = [device EXCEPT !.status = "APPROVED", !.wrong = 0]
  BY DEF ApproveWrites, TicketTypes
<1>2. /\ device' \in Rows /\ device'.token = device.token /\ device'.prev = device.prev
      /\ device'.status = "APPROVED" /\ device'.claim = device.claim
  BY <1>1, RowApproved
<1>3. TicketTypes'
  BY <1>1, <1>2 DEF TicketTypes, kioskSide
<1>4. LetInHolds'
  BY <1>1, <1>2 DEF LetInHolds, RowHolds, NowHolds, LateHolds, CallHolds, Stands, GiftStands, Collects,
     ApprovedMayCollect, kioskSide
<1> QED BY <1>3, <1>4

(* A machine put out keeps nothing that stands; what was read before is a hole where it may be
   written after. *)
LEMMA RevokeStep ==
    ASSUME TicketTypes, LetInHolds, Revoke
    PROVE  TicketTypes' /\ LetInStill
<1>1. /\ UNCHANGED <<signed, lapsed, approving, calls, nvs, needsTicket, wipe, drawn>>
      /\ revoked' = signed /\ device \in Rows /\ signed \in Nat /\ nvs.ticket \in Nat
      /\ broker' = broker \/ (broker = "open" /\ broker' = "dialling")
      /\ device' = [device EXCEPT !.status = "REVOKED", !.token = 0, !.prev = 0]
  BY Bounds DEF Revoke, TicketTypes, Flash
<1>2. device' \in Rows /\ device'.status = "REVOKED" /\ device'.token = 0 /\ device'.prev = 0
  BY <1>1, Bounds DEF Rows
<1>3. TicketTypes'
  <2>1. ticketHoles' \subseteq {"late", "crossed", "unwiped", "claimed"}
    BY DEF Revoke, TicketTypes
  <2>2. revoked' \in 0..signed'
    BY <1>1
  <2> QED BY <1>1, <1>2, <2>1, <2>2 DEF TicketTypes
<1>4. ASSUME ticketHoles' \intersect {"late", "crossed"} = {} PROVE LetInHolds'
  <2>1. ~approving /\ \A i \in {"now", "late"} : ~(calls[i].kind = "register" /\ calls[i].step = "read")
    BY <1>4, CallsAre DEF Revoke
  <2>2. Stands(nvs.ticket)'
    BY <1>1 DEF Stands, TicketTypes
  <2>3. GiftStands'
    BY <1>1 DEF GiftStands, Stands, LetInHolds, NowHolds
  <2>4. \A i \in {"now", "late"} : Collects(calls[i])'
    BY <1>1, <2>1 DEF Collects
  <2>5. RowHolds' /\ ApprovedMayCollect' /\ ~approving'
    BY <1>1, <1>2, <2>1 DEF RowHolds, ApprovedMayCollect
  <2>6. NowHolds' /\ LateHolds'
    BY <1>1 DEF LetInHolds, NowHolds, LateHolds, CallHolds
  <2> QED BY <2>2, <2>3, <2>4, <2>5, <2>6 DEF LetInHolds
<1> QED BY <1>3, <1>4 DEF LetInStill

(* A ticket that runs out is no longer promised anything. *)
LEMMA LapseStep ==
    ASSUME TicketTypes, LetInHolds, Lapse
    PROVE  TicketTypes' /\ LetInHolds'
<1>1. /\ UNCHANGED <<serverSide, revoked, calls, kioskSide, ticketHoles>>
      /\ lapsed' = lapsed + 1 /\ lapsed < signed /\ lapsed \in 0..signed /\ signed \in Nat
  BY Bounds DEF Lapse, TicketTypes
<1>2. lapsed' \in 0..signed' /\ signed' = signed
  BY <1>1 DEF serverSide
<1>3. TicketTypes'
  BY <1>1, <1>2 DEF TicketTypes, serverSide, kioskSide
<1>4. nvs.ticket \in Nat /\ calls.now.gift \in Nat
  BY Bounds, CallsAre DEF TicketTypes, Flash
<1>5. Stands(nvs.ticket)' /\ GiftStands'
  BY <1>1, <1>4 DEF LetInHolds, Stands, GiftStands, serverSide, kioskSide
<1>6. LetInHolds'
  BY <1>1, <1>5 DEF LetInHolds, RowHolds, NowHolds, LateHolds, CallHolds, Collects, ApprovedMayCollect,
     serverSide, kioskSide
<1> QED BY <1>3, <1>6

-----------------------------------------------------------------------------
(* The kiosk.                                                                  *)

\* The row, the tickets signed and those put out stay as they are while the kiosk steps.
Away == UNCHANGED <<serverSide, lapsed, revoked>>

(* What is said of the row alone stays true while the kiosk steps. *)
LEMMA RowStays ==
    ASSUME LetInHolds, Away
    PROVE  /\ RowHolds' /\ ApprovedMayCollect' /\ (approving' => device'.token # 0 \/ device'.claim # 0)
           /\ \A k : Stands(k) => Stands(k)'
           /\ \A e : (Collects(e) => Collects(e)') /\ (CallHolds(e) => CallHolds(e)')
  BY DEF LetInHolds, Away, serverSide, RowHolds, ApprovedMayCollect, Stands, Collects, CallHolds

\* An exchange the kiosk no longer waits on, for a kiosk whose ticket is k.
LateAt(e, k) ==
    /\ CallHolds(e) /\ e.step \notin Final /\ Collects(e)
    /\ e.kind \in WithTicket => k = 0 \/ e.card <= k
    /\ e.kind = "renew" /\ ~e.overtaken => k \in {0, e.card}
    /\ e.kind = "register" /\ ~e.overtaken => k = 0

(* The exchange given up on, for the ticket the kiosk has. *)
LEMMA LateIs ==
    ASSUME TicketTypes, LetInHolds
    PROVE  calls.late \in Calls /\ LateAt(calls.late, nvs.ticket)
  BY CallsAre DEF LetInHolds, LateHolds, LateAt

\* What is left of an exchange holds what the kiosk's ticket needs of it.
LEMMA AbandonedIs ==
    ASSUME TicketTypes, LetInHolds
    PROVE  Abandoned \in Calls /\ LateAt(Abandoned, nvs.ticket)
<1>1. CASE Abandoned = calls.late
  BY <1>1, LateIs
<1>2. CASE /\ calls.now.step \notin {"idle"} \union Final
           /\ Abandoned = [calls.now EXCEPT !.kind = IF @ = "check" THEN "dial" ELSE @]
  <2>1. calls.now \in Calls /\ NowHolds /\ Collects(calls.now) /\ nvs.ticket \in Nat
    BY CallsAre, Bounds DEF LetInHolds, TicketTypes, Flash
  <2>2. PICK kind \in Kinds : kind = IF calls.now.kind = "check" THEN "dial" ELSE calls.now.kind
    BY <2>1 DEF Calls, Kinds
  <2>3. PICK a : a = Abandoned
    OBVIOUS
  <2>4. a = [calls.now EXCEPT !.kind = kind]
    BY <1>2, <2>1, <2>2, <2>3 DEF Calls
  <2>5. /\ a \in Calls /\ a.kind = kind /\ a.card = calls.now.card /\ a.step = calls.now.step
        /\ a.saw = calls.now.saw /\ a.overtaken = FALSE
    BY <2>1, <2>4 DEF Calls, NowHolds
  <2>6. CallHolds(a)
    BY <2>1, <2>2, <2>5 DEF NowHolds, CallHolds, WithTicket
  <2>7. Collects(a)
    BY <2>1, <2>2, <2>5 DEF Collects, NowHolds
  <2>8. a.step \notin Final
    BY <1>2, <2>5
  <2>9. a.kind \in WithTicket => a.card = nvs.ticket
    BY <2>1, <2>2, <2>5 DEF NowHolds, WithTicket
  <2>10. a.kind = "register" => nvs.ticket = 0
    BY <2>1, <2>2, <2>5 DEF NowHolds
  <2>11. LateAt(a, nvs.ticket)
    BY <2>1, <2>6, <2>7, <2>8, <2>9, <2>10 DEF LateAt, WithTicket
  <2> QED BY <2>3, <2>5, <2>11
<1> QED BY <1>1, <1>2 DEF Abandoned

\* A ticket that comes is newer than what the exchange given up on is about.
LEMMA NewerThanLate ==
    ASSUME TicketTypes, LetInHolds, calls.now.step = "yes", calls.now.kind \in {"register", "renew"},
           LateAt(calls.late, nvs.ticket), NEW gift, gift = calls.now.gift
    PROVE  LateAt(calls.late, gift)
<1>1. PICK e : e = calls.late
  OBVIOUS
<1>2. /\ e.kind \in WithTicket => e.card < gift
      /\ e.kind = "renew" => e.overtaken
      /\ e.kind = "register" => e.overtaken
      /\ e.overtaken \in BOOLEAN /\ e.card \in Nat /\ gift \in Nat
  BY <1>1, CallsAre, Bounds DEF LetInHolds, LateHolds
<1>3. CallHolds(e) /\ e.step \notin Final /\ Collects(e)
  BY <1>1 DEF LateAt
<1>4. LateAt(e, gift)
  BY <1>2, <1>3 DEF LateAt
<1> QED BY <1>1, <1>4

\* The kiosk ends its exchange, with the ticket it had, another, or none.
LEMMA Ended ==
    ASSUME TicketTypes, LetInHolds, Away, NEW a \in Calls, LateAt(a, nvs'.ticket),
           calls'.now = NoCall, calls'.late = a, Stands(nvs'.ticket),
           needsTicket' => nvs'.ticket = 0 /\ broker' = "off",
           broker' # "off" => nvs'.ticket # 0
    PROVE  LetInHolds'
<1>1. NowHolds'
  <2>1. CallHolds(calls.now)'
    BY NoCallIs DEF CallHolds, WithTicket
  <2> QED BY <2>1, NoCallIs DEF NowHolds, WithTicket
<1>2. LateHolds'
  <2>1. CallHolds(a)'
    BY RowStays DEF LateAt
  <2> QED BY <2>1, NoCallIs DEF LateHolds, LateAt, CallHolds
<1>3. GiftStands'
  BY NoCallIs DEF GiftStands
<1>4. Stands(nvs.ticket)'
  <2>1. PICK k : k = nvs'.ticket
    OBVIOUS
  <2>2. Stands(k)'
    BY <2>1, RowStays DEF Stands
  <2> QED BY <2>1, <2>2 DEF Stands
<1>5. \A i \in {"now", "late"} : Collects(calls[i])'
  <2>1. Collects(a)'
    BY RowStays DEF LateAt
  <2>2. Collects(NoCall)'
    BY NoCallIs DEF Collects
  <2> QED BY <2>1, <2>2 DEF Collects
<1> QED BY <1>1, <1>2, <1>3, <1>4, <1>5, RowStays DEF LetInHolds

\* The kiosk begins one, with its ticket or for one.
LEMMA BeganIs ==
    ASSUME TicketTypes, LetInHolds, Away, NEW kind \in Kinds, NEW card \in Nat, Began(kind, card),
           nvs'.ticket = nvs.ticket, needsTicket' = needsTicket, broker' \in {broker, "off"},
           kind \in WithTicket \union {"register"},
           kind \in WithTicket => card = nvs.ticket /\ card # 0,
           kind = "register" => card \in 1..MaxClaims /\ needsTicket,
           kind \in {"check", "renew"} => broker' = "off"
    PROVE  calls' \in [now : Calls, late : Calls] /\ LetInHolds'
<1>1. PICK a \in Calls : a = Abandoned /\ LateAt(a, nvs.ticket)
  BY AbandonedIs
<1>2. PICK e : e = [NoCall EXCEPT !.kind = kind, !.card = card, !.step = "sent"]
  OBVIOUS
<1>3. /\ e \in Calls /\ e.kind = kind /\ e.card = card /\ e.step = "sent" /\ e.overtaken = FALSE
  BY <1>2, NoCallIs DEF Calls, CallSteps
<1>4. PICK l : l = IF a.kind # "none" /\ kind \in {"register", "renew"} THEN [a EXCEPT !.overtaken = TRUE] ELSE a
  OBVIOUS
<1>5. /\ l \in Calls /\ l.kind = a.kind /\ l.card = a.card /\ l.step = a.step /\ l.saw = a.saw
      /\ a.overtaken => l.overtaken
      /\ a.kind # "none" /\ kind \in {"register", "renew"} => l.overtaken
  BY <1>4 DEF Calls
<1>6. calls'.now = e /\ calls'.late = l /\ calls' \in [now : Calls, late : Calls]
  <2>1. calls' = [now |-> e, late |-> l]
    BY <1>1, <1>2, <1>4 DEF Began
  <2> QED BY <1>3, <1>5, <2>1
<1>7. nvs.ticket \in 0..signed /\ signed \in Nat /\ signed' = signed
  <2>1. nvs.ticket \in Nat /\ signed \in Nat /\ nvs.ticket <= signed
    BY Bounds DEF TicketTypes, Flash
  <2> QED BY <2>1 DEF Away, serverSide
<1>8. CallHolds(e) /\ CallHolds(l)
  <2>1. CallHolds(e)
    BY <1>3, <1>7 DEF CallHolds, WithTicket
  <2>2. CallHolds(l)
    BY <1>1, <1>5 DEF CallHolds, LateAt
  <2> QED BY <2>1, <2>2
<1>9. NowHolds'
  <2>1. CallHolds(calls.now)'
    BY <1>6, <1>7, <1>8 DEF CallHolds
  <2>2. NowHolds
    BY DEF LetInHolds
  <2> QED BY <1>3, <1>6, <1>7, <2>1, <2>2 DEF NowHolds, WithTicket
<1>10. LateHolds'
  <2>1. CallHolds(calls.late)'
    BY <1>6, <1>7, <1>8 DEF CallHolds
  <2>2. l.kind = "renew" /\ ~l.overtaken => nvs'.ticket \in {0, l.card} /\ kind \notin {"register", "renew"}
    BY <1>1, <1>5 DEF LateAt
  <2>3. ~(l.kind = "register" /\ ~l.overtaken)
    BY <1>1, <1>5 DEF LateAt, WithTicket
  <2>4. l.step \notin Final /\ (l.kind \in WithTicket => nvs'.ticket = 0 \/ l.card <= nvs'.ticket)
    BY <1>1, <1>5 DEF LateAt
  <2> QED BY <1>3, <1>6, <2>1, <2>2, <2>3, <2>4 DEF LateHolds
<1>11. GiftStands'
  BY <1>3, <1>6 DEF GiftStands
<1>12. Stands(nvs.ticket)'
  <2>1. PICK k : k = nvs.ticket
    OBVIOUS
  <2>2. Stands(k)'
    BY <2>1, RowStays DEF LetInHolds
  <2> QED BY <2>1, <2>2 DEF Stands
<1>13. \A i \in {"now", "late"} : Collects(calls[i])'
  <2>1. Collects(l)
    BY <1>1, <1>5 DEF LateAt, Collects
  <2>2. Collects(e)
    BY <1>3 DEF Collects
  <2>3. Collects(l)' /\ Collects(e)'
    BY <2>1, <2>2, RowStays
  <2> QED BY <1>6, <2>3 DEF Collects
<1> QED BY <1>6, <1>9, <1>10, <1>11, <1>12, <1>13, RowStays DEF LetInHolds

(* net_task starts the client, or asks for a ticket. *)
LEMMA StartNetStep ==
    ASSUME TicketTypes, LetInHolds, StartNet
    PROVE  TicketTypes' /\ LetInHolds'
<1>1. /\ UNCHANGED <<serverSide, lapsed, revoked, calls, nvs, wipe, drawn, ticketHoles>> /\ calls.now = NoCall
      /\ broker' \in {"off", "dialling"} /\ needsTicket' \in BOOLEAN
      /\ needsTicket' => nvs.ticket = 0 /\ broker' = "off"
      /\ broker' # "off" => nvs.ticket # 0
  <2>1. needsTicket \in BOOLEAN /\ ~needsTicket /\ broker = "off"
    BY DEF StartNet, TicketTypes
  <2>2. CASE nvs.ticket = 0
    BY <2>1, <2>2 DEF StartNet
  <2>3. CASE nvs.ticket # 0
    BY <2>1, <2>3 DEF StartNet
  <2> QED BY <2>2, <2>3
<1>2. TicketTypes'
  BY <1>1 DEF TicketTypes, serverSide
<1>3. LetInHolds'
  <2>1. Stands(nvs'.ticket) /\ calls.late \in Calls /\ LateAt(calls.late, nvs'.ticket) /\ Away
    BY <1>1, LateIs DEF LetInHolds, Away
  <2> QED BY <1>1, <2>1, Ended
<1> QED BY <1>2, <1>3

(* The client dials with the ticket. *)
LEMMA DialStep ==
    ASSUME TicketTypes, LetInHolds, Dial
    PROVE  TicketTypes' /\ LetInHolds'
<1>1. /\ UNCHANGED <<serverSide, lapsed, revoked, kioskSide, ticketHoles>> /\ Began("dial", nvs.ticket)
      /\ nvs.ticket # 0 /\ broker = "dialling" /\ nvs.ticket \in Nat
  BY Bounds DEF Dial, TicketTypes, Flash
<1>2. ~needsTicket /\ "dial" \in Kinds
  BY <1>1 DEF LetInHolds, NowHolds, Kinds
<1>3. calls' \in [now : Calls, late : Calls] /\ LetInHolds'
  BY <1>1, <1>2, BeganIs DEF Away, kioskSide, WithTicket
<1>4. TicketTypes'
  BY <1>1, <1>3 DEF TicketTypes, serverSide, kioskSide
<1> QED BY <1>3, <1>4

(* A registration carries the code in flash. *)
LEMMA AskToRegisterStep ==
    ASSUME TicketTypes, LetInHolds, AskToRegister
    PROVE  TicketTypes' /\ LetInHolds'
<1>1. /\ UNCHANGED <<serverSide, lapsed, revoked, needsTicket, broker, wipe, ticketHoles>>
      /\ Began("register", nvs'.claim) /\ needsTicket
      /\ nvs' = [nvs EXCEPT !.claim = IF @ = 0 THEN drawn + 1 ELSE @]
      /\ IF nvs.claim = 0 THEN drawn < MaxClaims /\ drawn' = drawn + 1 ELSE UNCHANGED drawn
      /\ nvs \in Flash /\ drawn \in 0..MaxClaims /\ nvs.claim <= drawn
  BY DEF AskToRegister, TicketTypes
<1>2. PICK claim : claim = IF nvs.claim = 0 THEN drawn + 1 ELSE nvs.claim
  OBVIOUS
<1>3. drawn' \in 0..MaxClaims /\ claim \in 1..MaxClaims /\ claim <= drawn' /\ nvs.claim \in 0..MaxClaims
  <2>1. nvs.claim \in 0..MaxClaims /\ MaxClaims \in Nat
    BY <1>1, Bounds DEF Flash
  <2> QED BY <1>1, <1>2, <2>1
<1>4. nvs' \in Flash /\ nvs'.claim = claim /\ nvs'.ticket = nvs.ticket /\ claim \in Nat
  <2>1. nvs' = [nvs EXCEPT !.claim = claim] /\ claim \in 0..MaxClaims /\ claim \in Nat
    BY <1>1, <1>2, <1>3, Bounds DEF Flash
  <2> QED BY <1>1, <2>1 DEF Flash
<1>5. calls' \in [now : Calls, late : Calls] /\ LetInHolds'
  <2>1. Began("register", claim) /\ "register" \in Kinds /\ Away
    BY <1>1, <1>4 DEF Kinds, Away
  <2> QED BY <1>1, <1>3, <1>4, <2>1, BeganIs DEF WithTicket
<1>6. TicketTypes'
  BY <1>1, <1>3, <1>4, <1>5 DEF TicketTypes, serverSide
<1> QED BY <1>5, <1>6

(* A check or a renewal carries the ticket in flash. *)
LEMMA AskWithTicketStep ==
    ASSUME TicketTypes, LetInHolds, AskWithTicket
    PROVE  TicketTypes' /\ LetInHolds'
<1>1. PICK kind \in {"check", "renew"} : Began(kind, nvs.ticket)
  BY DEF AskWithTicket
<1>2. /\ UNCHANGED <<serverSide, lapsed, revoked, nvs, needsTicket, wipe, drawn, ticketHoles>>
      /\ broker' = "off" /\ ~needsTicket /\ nvs.ticket # 0 /\ nvs.ticket \in Nat
  BY Bounds DEF AskWithTicket, TicketTypes, Flash
<1>3. kind \in Kinds /\ kind \in WithTicket /\ kind # "register" /\ Away
  BY <1>2 DEF Kinds, WithTicket, Away
<1>4. calls' \in [now : Calls, late : Calls] /\ LetInHolds'
  BY <1>1, <1>2, <1>3, BeganIs
<1>5. TicketTypes'
  BY <1>2, <1>4 DEF TicketTypes, serverSide
<1> QED BY <1>4, <1>5

(* What the kiosk no longer waits on may still be served. *)
LEMMA GiveUpStep ==
    ASSUME TicketTypes, LetInHolds, GiveUp
    PROVE  TicketTypes' /\ LetInHolds'
<1>1. /\ UNCHANGED <<serverSide, lapsed, revoked, nvs, needsTicket, wipe, drawn, ticketHoles>>
      /\ calls' = [now |-> NoCall, late |-> Abandoned]
      /\ calls.now.kind \in {"register", "check", "renew"}
      /\ broker' = IF calls.now.kind = "register" THEN broker ELSE "dialling"
  BY DEF GiveUp
<1>2. PICK a \in Calls : a = Abandoned /\ LateAt(a, nvs.ticket)
  BY AbandonedIs
<1>3. calls' = [now |-> NoCall, late |-> a] /\ NoCall \in Calls
  BY <1>1, <1>2, NoCallIs
<1>4. /\ needsTicket' => nvs'.ticket = 0 /\ broker' = "off"
      /\ broker' # "off" => nvs'.ticket # 0
  <2>1. \/ nvs.ticket = calls.now.card /\ calls.now.card # 0 /\ ~needsTicket
        \/ calls.now.kind = "register"
    BY <1>1 DEF LetInHolds, NowHolds, CallHolds, WithTicket
  <2> QED BY <1>1, <2>1 DEF LetInHolds, NowHolds
<1>5. LetInHolds'
  BY <1>1, <1>2, <1>3, <1>4, Ended DEF Away, LetInHolds
<1>6. TicketTypes'
  BY <1>1, <1>3 DEF TicketTypes, serverSide
<1> QED BY <1>5, <1>6

(* The ticket that comes stands. *)
LEMMA HearRegisterStep ==
    ASSUME TicketTypes, LetInHolds, HearRegister
    PROVE  TicketTypes' /\ LetInHolds' /\ (nvs'.ticket = 0 => nvs.ticket = 0)
<1>1. /\ UNCHANGED <<serverSide, lapsed, revoked, wipe, drawn, ticketHoles>>
      /\ calls.now.kind = "register" /\ calls.now.step \in Final
      /\ calls' = [calls EXCEPT !.now = NoCall] /\ nvs \in Flash
  BY DEF HearRegister, TicketTypes
<1>2. calls'.now = NoCall /\ calls'.late = calls.late /\ calls' \in [now : Calls, late : Calls]
  BY <1>1, NoCallIs DEF TicketTypes
<1>3. needsTicket /\ nvs.ticket = 0 /\ broker = "off" /\ signed \in Nat /\ 0 \in 0..MaxClaims
  BY <1>1, Bounds DEF LetInHolds, NowHolds, TicketTypes
<1>4. Away /\ calls.late \in Calls /\ LateAt(calls.late, nvs.ticket)
  BY <1>1, LateIs DEF Away
<1>5. CASE /\ calls.now.step = "yes" /\ needsTicket' = FALSE /\ broker' = "dialling"
           /\ nvs' = [nvs EXCEPT !.ticket = calls.now.gift, !.claim = 0]
  <2>1. PICK gift \in Tickets : gift = calls.now.gift /\ gift \in 1..signed /\ Stands(gift)
    BY <1>1, <1>5, CallsAre DEF LetInHolds, NowHolds, GiftStands
  <2>2. nvs' = [nvs EXCEPT !.ticket = gift, !.claim = 0]
    BY <1>5, <2>1
  <2>3. nvs' \in Flash /\ nvs'.ticket = gift /\ nvs'.claim = 0 /\ gift # 0 /\ gift <= signed
    <3>1. gift # 0 /\ gift <= signed
      BY <1>3, <2>1
    <3>2. nvs' \in Flash /\ nvs'.ticket = gift /\ nvs'.claim = 0
      BY <1>1, <1>3, <2>1, <2>2 DEF Flash
    <3> QED BY <3>1, <3>2
  <2>4. LateAt(calls.late, gift)
    BY <1>1, <1>4, <1>5, <2>1, NewerThanLate
  <2>5. LetInHolds'
    BY <1>2, <1>4, <1>5, <2>1, <2>3, <2>4, Ended
  <2>6. nvs'.claim <= drawn
    BY <2>3 DEF TicketTypes
  <2>7. TicketTypes'
    BY <1>1, <1>2, <1>5, <2>3, <2>6 DEF TicketTypes, serverSide
  <2> QED BY <2>3, <2>5, <2>7
<1>6. CASE UNCHANGED <<needsTicket, broker>> /\ nvs' \in {nvs, [nvs EXCEPT !.claim = 0]}
  <2>1. nvs' \in Flash /\ nvs'.ticket = 0 /\ nvs'.claim <= drawn
    <3>1. nvs.claim <= drawn /\ 0 <= drawn
      BY DEF TicketTypes
    <3> QED BY <1>1, <1>3, <1>6, <3>1 DEF Flash
  <2>2. LetInHolds'
    BY <1>2, <1>3, <1>4, <1>6, <2>1, NoneStands, Ended
  <2>3. TicketTypes'
    BY <1>1, <1>2, <1>3, <1>6, <2>1 DEF TicketTypes, serverSide
  <2> QED BY <1>3, <2>2, <2>3
<1> QED BY <1>5, <1>6 DEF HearRegister

(* So does the one a renewal brings. *)
LEMMA HearGoodStep ==
    ASSUME TicketTypes, LetInHolds, HearGood
    PROVE  TicketTypes' /\ LetInHolds' /\ nvs'.ticket # 0
<1>1. /\ UNCHANGED <<serverSide, lapsed, revoked, needsTicket, wipe, drawn, ticketHoles>>
      /\ calls.now.kind # "register" /\ calls.now.step \in {"yes", "no"}
      /\ calls.now.step = "no" => calls.now.kind = "dial"
      /\ calls' = [calls EXCEPT !.now = NoCall] /\ nvs \in Flash
      /\ broker' \in {"open", "dialling"}
      /\ nvs' = IF calls.now.kind = "renew" THEN [nvs EXCEPT !.ticket = calls.now.gift] ELSE nvs
  BY DEF HearGood, TicketTypes
<1>2. calls'.now = NoCall /\ calls'.late = calls.late /\ calls' \in [now : Calls, late : Calls]
  BY <1>1, NoCallIs DEF TicketTypes
<1>3. /\ calls.now.kind \in WithTicket /\ ~needsTicket /\ nvs.ticket # 0 /\ signed \in Nat
      /\ CallHolds(calls.now)
  <2>1. CallHolds(calls.now) /\ calls.now.kind \in Kinds /\ NowHolds
    BY CallsAre DEF LetInHolds, NowHolds
  <2>2. calls.now.kind \in WithTicket
    BY <1>1, <2>1 DEF CallHolds, Kinds, WithTicket
  <2> QED BY <2>1, <2>2, Bounds DEF NowHolds, CallHolds, TicketTypes
<1>4. Away /\ calls.late \in Calls /\ LateAt(calls.late, nvs.ticket)
  BY <1>1, LateIs DEF Away
<1>5. CASE calls.now.kind = "renew"
  <2>1. PICK gift \in Tickets : gift = calls.now.gift /\ gift \in 1..signed /\ Stands(gift)
    BY <1>1, <1>5, CallsAre DEF LetInHolds, NowHolds, GiftStands
  <2>2. nvs' = [nvs EXCEPT !.ticket = gift]
    BY <1>1, <1>5, <2>1
  <2>3. nvs' \in Flash /\ nvs'.ticket = gift /\ nvs'.claim = nvs.claim /\ gift # 0 /\ gift <= signed
    BY <1>1, <1>3, <2>1, <2>2 DEF Flash
  <2>4. LateAt(calls.late, gift)
    BY <1>1, <1>4, <1>5, <2>1, NewerThanLate
  <2>5. LetInHolds'
    BY <1>1, <1>2, <1>3, <1>4, <2>1, <2>3, <2>4, Ended
  <2>6. TicketTypes'
    BY <1>1, <1>2, <2>3 DEF TicketTypes, serverSide
  <2> QED BY <2>3, <2>5, <2>6
<1>6. CASE nvs' = nvs
  <2>1. LetInHolds'
    BY <1>1, <1>2, <1>3, <1>4, <1>6, Ended DEF LetInHolds
  <2>2. TicketTypes'
    BY <1>1, <1>2, <1>6 DEF TicketTypes, serverSide
  <2> QED BY <1>3, <1>6, <2>1, <2>2
<1> QED BY <1>1, <1>5, <1>6

(* A dead ticket is forgotten. *)
LEMMA TicketDiedStep ==
    ASSUME TicketTypes, LetInHolds, TicketDied
    PROVE  TicketTypes' /\ LetInHolds'
<1>1. /\ UNCHANGED <<serverSide, lapsed, revoked, broker, drawn>>
      /\ calls.now.kind \in {"check", "renew"}
      /\ calls' = [calls EXCEPT !.now = NoCall] /\ nvs \in Flash
      /\ nvs' = [nvs EXCEPT !.ticket = 0, !.claim = 0] /\ needsTicket' = TRUE
      /\ wipe' \in {wipe, "queued"}
      /\ ticketHoles' \subseteq ticketHoles \union {"unwiped"}
  BY DEF TicketDied, TicketTypes
<1>2. calls'.now = NoCall /\ calls'.late = calls.late /\ calls' \in [now : Calls, late : Calls]
  BY <1>1, NoCallIs DEF TicketTypes
<1>3. nvs' \in Flash /\ nvs'.ticket = 0 /\ nvs'.claim = 0
  <2>1. 0 \in Tickets /\ 0 \in 0..MaxClaims
    BY Bounds
  <2> QED BY <1>1, <2>1 DEF Flash
<1>4. LateAt(calls.late, 0) /\ calls.late \in Calls
  <2>1. calls.late \in Calls /\ LateAt(calls.late, nvs.ticket)
    BY LateIs
  <2> QED BY <2>1 DEF LateAt
<1>5. broker = "off"
  BY <1>1 DEF LetInHolds, NowHolds
<1>6. LetInHolds'
  BY <1>1, <1>2, <1>3, <1>4, <1>5, NoneStands, Ended DEF Away
<1>7. TicketTypes'
  <2>1. nvs'.ticket <= signed' /\ nvs'.claim <= drawn'
    BY <1>1, <1>3, Bounds DEF TicketTypes, serverSide
  <2> QED BY <1>1, <1>2, <1>3, <2>1 DEF TicketTypes, serverSide
<1> QED BY <1>6, <1>7

(* A restart keeps what flash holds, and what it was asking may still be served. *)
LEMMA KioskRestartsStep ==
    ASSUME TicketTypes, LetInHolds, KioskRestarts
    PROVE  TicketTypes' /\ LetInHolds'
<1>1. /\ UNCHANGED <<serverSide, lapsed, revoked, nvs, drawn>>
      /\ calls' = [now |-> NoCall, late |-> Abandoned]
      /\ needsTicket' = FALSE /\ broker' = "off" /\ wipe' = "none"
      /\ ticketHoles' \subseteq ticketHoles \union {"unwiped", "claimed"}
  BY DEF KioskRestarts
<1>2. PICK a \in Calls : a = Abandoned /\ LateAt(a, nvs.ticket)
  BY AbandonedIs
<1>3. calls' = [now |-> NoCall, late |-> a] /\ NoCall \in Calls
  BY <1>1, <1>2, NoCallIs
<1>4. LetInHolds'
  BY <1>1, <1>2, <1>3, Ended DEF Away, LetInHolds
<1>5. TicketTypes'
  <2>1. calls' \in [now : Calls, late : Calls]
    BY <1>2, <1>3
  <2>2. ticketHoles' \subseteq {"late", "crossed", "unwiped", "claimed"}
    BY <1>1 DEF TicketTypes
  <2>3. nvs' \in Flash /\ nvs'.ticket <= signed' /\ nvs'.claim <= drawn'
    BY <1>1 DEF TicketTypes, serverSide
  <2> QED BY <1>1, <2>1, <2>2, <2>3 DEF TicketTypes, serverSide
<1> QED BY <1>4, <1>5

\* The face table's own steps leave the ticket, the calls and the client alone.
LEMMA TableStep ==
    ASSUME TicketTypes, LetInHolds, TakePurge \/ VersionFollows \/ TakeFaces
    PROVE  TicketTypes' /\ LetInHolds'
<1>1. /\ UNCHANGED <<serverSide, lapsed, revoked, calls, needsTicket, broker, drawn>>
      /\ nvs' \in {nvs, [nvs EXCEPT !.faces = FALSE], [nvs EXCEPT !.versioned = FALSE],
                  [nvs EXCEPT !.faces = TRUE, !.versioned = TRUE]}
      /\ wipe' \in {wipe, "none", "saved"}
      /\ ticketHoles' \subseteq ticketHoles \union {"unwiped"}
  BY DEF TakePurge, VersionFollows, TakeFaces, Emptied
<1>2. nvs' \in Flash /\ nvs'.ticket = nvs.ticket /\ nvs'.claim = nvs.claim
  <2>1. nvs \in Flash
    BY DEF TicketTypes
  <2> QED BY <1>1, <2>1 DEF Flash
<1>3. TicketTypes'
  BY <1>1, <1>2 DEF TicketTypes, serverSide
<1>4. LetInHolds'
  BY <1>1, <1>2 DEF LetInHolds, RowHolds, NowHolds, LateHolds, CallHolds, Stands, GiftStands, Collects,
     ApprovedMayCollect, serverSide
<1> QED BY <1>3, <1>4

-----------------------------------------------------------------------------
(* The faces and the ticket.                                                   *)

\* Every step that leaves the faces, the version and the purge alone and keeps a ticket a ticket.
LEMMA WipeStays ==
    ASSUME WipeHolds, wipe' = wipe, ticketHoles \subseteq ticketHoles',
           nvs'.faces = nvs.faces, nvs'.versioned = nvs.versioned, nvs'.ticket = 0 => nvs.ticket = 0
    PROVE  WipeHolds'
  BY DEF WipeHolds, FacesFollowTicket

(* Every step keeps the faces with the ticket. *)
LEMMA WipeStep ==
    ASSUME TicketTypes, LetInHolds, WipeHolds, TicketNext
    PROVE  WipeHolds'
<1>0. nvs \in Flash /\ ticketHoles = {} /\ DOMAIN calls = {"now", "late"}
  BY CallsAre DEF TicketTypes, TicketNext
<1>1. ASSUME NEW i \in {"now", "late"}, Serve(i) PROVE WipeHolds'
  <2>1. wipe' = wipe /\ nvs' = nvs /\ ticketHoles \subseteq ticketHoles'
    BY <1>0, <1>1 DEF Serve
  <2> QED BY <2>1, WipeStays
<1>2. CASE ApproveReads \/ ApproveWrites \/ Revoke \/ Lapse \/ StartNet \/ Dial \/ AskWithTicket \/ GiveUp
  <2>1. wipe' = wipe /\ nvs' = nvs /\ ticketHoles \subseteq ticketHoles'
    BY <1>0, <1>2 DEF ApproveReads, ApproveWrites, Revoke, Lapse, StartNet, Dial, AskWithTicket, GiveUp, kioskSide
  <2> QED BY <2>1, WipeStays
<1>3. CASE AskToRegister
  <2>1. /\ wipe' = wipe /\ ticketHoles' = ticketHoles
        /\ nvs' = [nvs EXCEPT !.claim = IF @ = 0 THEN drawn + 1 ELSE @]
    BY <1>3 DEF AskToRegister
  <2>2. nvs'.faces = nvs.faces /\ nvs'.versioned = nvs.versioned /\ nvs'.ticket = nvs.ticket
    BY <1>0, <2>1 DEF Flash
  <2> QED BY <2>1, <2>2, WipeStays
<1>4. CASE HearRegister
  <2>1. nvs'.ticket = 0 => nvs.ticket = 0
    BY <1>4, HearRegisterStep
  <2>2. wipe' = wipe /\ ticketHoles' = ticketHoles /\ nvs'.faces = nvs.faces /\ nvs'.versioned = nvs.versioned
    BY <1>0, <1>4 DEF HearRegister, Flash
  <2> QED BY <2>1, <2>2, WipeStays
<1>5. CASE HearGood
  <2>1. nvs'.ticket # 0
    BY <1>5, HearGoodStep
  <2>2. wipe' = wipe /\ ticketHoles' = ticketHoles /\ nvs'.faces = nvs.faces /\ nvs'.versioned = nvs.versioned
    BY <1>0, <1>5 DEF HearGood, Flash
  <2> QED BY <2>1, <2>2, WipeStays
<1>6. CASE TicketDied
  <2>1. nvs'.faces = nvs.faces /\ nvs'.versioned = nvs.versioned
    BY <1>0, <1>6 DEF TicketDied, Flash
  <2>2. \/ wipe' = (IF wipe = "saved" THEN wipe ELSE "queued") /\ ticketHoles' = ticketHoles
        \/ ticketHoles' = ticketHoles \union {"unwiped"} /\ wipe' = wipe
    BY <1>6 DEF TicketDied
  <2> QED BY <1>0, <2>1, <2>2 DEF WipeHolds, FacesFollowTicket
<1>7. CASE TakePurge
  <2>1. CASE nvs' = [nvs EXCEPT !.faces = FALSE] /\ wipe' = "saved"
    <3>1. nvs'.faces = FALSE
      BY <1>0, <2>1 DEF Flash
    <3> QED BY <2>1, <3>1 DEF WipeHolds, FacesFollowTicket
  <2>2. CASE wipe' = "none" /\ ticketHoles' = ticketHoles \union {"unwiped"} /\ nvs' = nvs /\ wipe = "queued"
    BY <1>0, <2>2 DEF WipeHolds, FacesFollowTicket
  <2> QED BY <1>7, <2>1, <2>2 DEF TakePurge, Emptied
<1>8. CASE VersionFollows
  <2>1. nvs'.faces = nvs.faces /\ nvs'.versioned = FALSE /\ nvs'.ticket = nvs.ticket
    BY <1>0, <1>8 DEF VersionFollows, Flash
  <2> QED BY <1>0, <1>8, <2>1 DEF WipeHolds, FacesFollowTicket, VersionFollows
<1>9. CASE TakeFaces
  <2>1. nvs'.faces = TRUE /\ nvs'.versioned = TRUE /\ nvs'.ticket = nvs.ticket
    BY <1>0, <1>9 DEF TakeFaces, Flash
  <2>2. nvs.ticket # 0 /\ wipe' = "none"
    BY <1>9 DEF TakeFaces, LetInHolds, NowHolds
  <2> QED BY <2>1, <2>2 DEF WipeHolds, FacesFollowTicket
<1>10. CASE KioskRestarts
  BY <1>0, <1>10 DEF KioskRestarts, WipeHolds, FacesFollowTicket
<1> QED BY <1>0, <1>1, <1>2, <1>3, <1>4, <1>5, <1>6, <1>7, <1>8, <1>9, <1>10 DEF TicketNext

-----------------------------------------------------------------------------
(* The invariant.                                                              *)

(* A kiosk out of the box, and no row. *)
LEMMA TicketStarts == ASSUME TicketInit PROVE TicketInv
<1>1. TicketTypes
  <2>1. nvs \in Flash /\ nvs.ticket = 0 /\ nvs.claim = 0
    <3>1. 0 \in Tickets /\ 0 \in 0..MaxClaims
      BY Bounds
    <3> QED BY <3>1 DEF TicketInit, Flash
  <2>2. calls \in [now : Calls, late : Calls]
    BY NoCallIs DEF TicketInit
  <2>3. signed \in Tickets /\ lapsed \in 0..signed /\ revoked \in 0..signed /\ drawn \in 0..MaxClaims
        /\ 0 <= signed /\ 0 <= drawn
    BY Bounds DEF TicketInit
  <2>4. approving \in BOOLEAN /\ needsTicket \in BOOLEAN
    BY DEF TicketInit
  <2> QED BY <2>1, <2>2, <2>3, <2>4, NoRowIs DEF TicketInit, TicketTypes
<1>2. WipeHolds
  BY DEF TicketInit, WipeHolds, FacesFollowTicket
<1>3. RowHolds /\ ApprovedMayCollect /\ ~approving
  BY NoRowIs DEF TicketInit, RowHolds, ApprovedMayCollect
<1>4. NowHolds /\ LateHolds /\ GiftStands
  BY NoCallIs DEF TicketInit, NowHolds, LateHolds, GiftStands, CallHolds, WithTicket, Final
<1>5. Stands(nvs.ticket)
  BY DEF TicketInit, Stands
<1>6. \A i \in {"now", "late"} : Collects(calls[i])
  BY NoCallIs DEF TicketInit, Collects
<1> QED BY <1>1, <1>2, <1>3, <1>4, <1>5, <1>6 DEF TicketInv, LetInHolds

(* Every step keeps the invariant. *)
LEMMA TicketStep == ASSUME TicketInv, TicketNext PROVE TicketInv'
<1>1. ticketHoles = {} /\ DOMAIN calls = {"now", "late"} /\ TicketTypes /\ LetInHolds /\ WipeHolds
  BY CallsAre DEF TicketNext, TicketInv
<1>2. TicketTypes' /\ (ticketHoles' \intersect {"late", "crossed"} = {} => LetInHolds')
  BY <1>1, ServeStep, ApproveReadsStep, ApproveWritesStep, RevokeStep, LapseStep, StartNetStep, DialStep,
     AskToRegisterStep, AskWithTicketStep, GiveUpStep, HearRegisterStep, HearGoodStep, TicketDiedStep,
     TableStep, KioskRestartsStep DEF TicketNext, LetInStill
<1>3. WipeHolds'
  BY <1>1, WipeStep
<1> QED BY <1>2, <1>3 DEF TicketInv

(* So does a step that changes nothing. *)
LEMMA TicketStutter == ASSUME TicketInv, UNCHANGED ticketVars PROVE TicketInv'
<1>1. UNCHANGED <<device, signed, lapsed, revoked, approving, calls, nvs, needsTicket, broker, wipe, drawn, ticketHoles>>
  BY DEF ticketVars
<1>2. TicketTypes' /\ WipeHolds'
  BY <1>1 DEF TicketInv, TicketTypes, WipeHolds, FacesFollowTicket
<1>3. LetInHolds => LetInHolds'
  BY <1>1 DEF LetInHolds, RowHolds, NowHolds, LateHolds, CallHolds, Stands, GiftStands, Collects, ApprovedMayCollect
<1> QED BY <1>1, <1>2, <1>3 DEF TicketInv

(* The inductive invariant: what every exchange is about, and that the ticket an answer carries
   stands as long as the one it replaces did. *)
THEOREM TicketInvariant == TicketSpec => []TicketInv
<1>1. TicketInit => TicketInv
  BY TicketStarts
<1>2. TicketInv /\ [TicketNext]_ticketVars => TicketInv'
  BY TicketStep, TicketStutter
<1> QED BY <1>1, <1>2, PTL DEF TicketSpec

\* The row, the exchanges and the kiosk's flash hold what their fields may hold.
THEOREM TicketTypeCorrect == TicketSpec => []TicketTypeOK
<1>1. TicketInv => TicketTypeOK
  <2> SUFFICES ASSUME TicketInv PROVE TicketTypeOK
    OBVIOUS
  <2>1. nvs.ticket \in 0..signed /\ nvs.claim \in 0..drawn
    <3>1. nvs.ticket \in Nat /\ nvs.claim \in Nat /\ signed \in Nat /\ drawn \in Nat
      <4>1. nvs.ticket \in Tickets /\ nvs.claim \in 0..MaxClaims /\ signed \in Tickets /\ drawn \in 0..MaxClaims
        BY DEF TicketInv, TicketTypes, Flash
      <4>2. nvs.ticket \in Nat /\ signed \in Nat
        BY <4>1, Bounds
      <4>3. nvs.claim \in Nat /\ drawn \in Nat
        BY <4>1
      <4> QED BY <4>2, <4>3
    <3> QED BY <3>1 DEF TicketInv, TicketTypes
  <2>2. \A i \in DOMAIN calls :
          /\ calls[i].saw \in Rows /\ calls[i].gift \in Tickets
          /\ calls[i].kind \in {"none", "register", "check", "renew", "dial"}
          /\ calls[i].step \in Final \union {"idle", "over", "sent", "read", "admitted", "held"}
    <3>1. TicketTypes
      BY DEF TicketInv
    <3> QED BY <3>1, CallsAre DEF Kinds, CallSteps
  <2>3. nvs.faces \in BOOLEAN /\ nvs.versioned \in BOOLEAN
    BY DEF TicketInv, TicketTypes, Flash
  <2> QED BY <2>1, <2>2, <2>3 DEF TicketInv, TicketTypes, TicketTypeOK
<1> QED BY <1>1, TicketInvariant, PTL

\* A kiosk that was let in stays in, and one approved can come in, unless an exchange it had
\* given up on is written after a later one, or a revoke crosses an approval or a collection.
THEOREM LetInStays == TicketSpec => []StaysLetIn
<1>1. TicketInv => StaysLetIn
  BY DEF TicketInv, LetInHolds, Stands, StaysLetIn, KeptTicketStands
<1> QED BY <1>1, TicketInvariant, PTL

\* The faces go with a dead ticket and the version with the faces, unless the purge is lost.
THEOREM FacesFollow == TicketSpec => []FacesFollowTicket
<1>1. TicketInv => FacesFollowTicket
  BY DEF TicketInv, WipeHolds
<1> QED BY <1>1, TicketInvariant, PTL

-----------------------------------------------------------------------------
(* MODEL TRIAL: a pack that answers, and a rollback that is told.            *)
-----------------------------------------------------------------------------
TrialSteps == {"idle", "staging", "writing", "staged", "marked", "armed", "firmware", "unnamed"}
PackPlaces == Slots \cup {NoSlot}

TrialTypes ==
    /\ slot \in [Slots -> Packs \cup {Erased, Torn}] /\ active \in Slots
    /\ lastOta \in {"none", "on_trial", "kept", "undone"}
    /\ app \in [valid : Firmwares, next : Firmwares \cup {NoFirmware}, state : {"none", "new", "pending"}]
    /\ otaTo \in Firmwares \cup {NoFirmware} /\ fw \in Firmwares
    /\ at \in {"off", "boot", "vision", "settle", "undoing", "up", "running"}
    /\ mapped \in PackPlaces /\ seeing \in BOOLEAN
    /\ sync \in {"idle", "marked", "armed", "signed"}
    /\ note \subseteq Rollbacks /\ owed \subseteq Rollbacks
    /\ offer \in [step : TrialSteps, what : Packs \cup Firmwares \cup {NoFirmware}, into : PackPlaces]
    /\ trialHoles \subseteq {"seat", "telling"}

Fresh == app.state \in {"new", "pending"}

(* What the two tasks are doing, and which firmware runs: an offer and a command need a boot that
   is up; a build goes on trial from the one that is kept, and only one is armed in a boot. *)
TasksHold ==
    /\ ~Up => offer = NoOffer
    /\ at # "running" => sync = "idle" /\ note = {}
    /\ at # "off" => fw = IF OnTrial THEN app.next ELSE app.valid
    /\ at \in {"boot", "vision", "settle", "undoing"} => app.state # "new"
    /\ at = "undoing" => lastOta = "undone"
    /\ offer.step = "marked" \/ sync = "marked" => lastOta = "on_trial"
    /\ Up /\ app.state = "new" => offer.step \in {"unnamed", "armed"}
    /\ offer.step = "unnamed" => app.state = "new" /\ offer.what = app.next
    /\ offer.step = "firmware" => app.state = "none" /\ offer.what \in Firmwares /\ offer.what # fw
    /\ Fresh => app.next \in Firmwares /\ app.next # app.valid
    /\ sync = "signed" => ~OnTrial
    /\ offer.step \in {"staging", "writing"} => offer.what \in Packs /\ offer.into \in Slots

\* A pack that answers under the firmware that is kept.
Good(s) == AnswersOn(s, app.valid)

(* Where such a pack is: until the kiosk is up in the slot named, or in the other while the one
   named is on trial; then in the slot it serves from, whichever is named for the next boot. *)
SeatHolds ==
    /\ ~Up => IF lastOta # "on_trial" /\ at # "undoing" THEN Good(active) ELSE Good(1 - active)
    /\ at \in {"vision", "settle"} => mapped = active
    /\ Up => /\ mapped \in Slots /\ Good(mapped)
             /\ \/ active = mapped /\ (lastOta # "on_trial" \/ HalfArmed)
                \/ active = 1 - mapped /\ lastOta = "on_trial"
    /\ offer.step \in {"staging", "writing"} => offer.into = 1 - mapped

(* Until the report of this boot flash is the record of what was rolled back; after it the event
   queue is. *)
TellingHolds ==
    /\ Fresh /\ offer.step # "unnamed" => otaTo = app.next /\ sync # "signed"
    /\ at # "running" =>
         /\ lastOta = "undone" <=> Models \in owed
         /\ owed \subseteq {Models, Build(otaTo)}
         /\ Build(otaTo) \in owed <=>
              otaTo # NoFirmware /\ ~OnTrial /\ ~(at = "off" /\ app.state = "new")
         /\ Build(otaTo) \in owed => otaTo # app.valid
         /\ Up /\ app.state = "new" => offer.step = "unnamed"
    /\ at = "running" =>
         /\ owed = note /\ lastOta # "undone"
         /\ app.state = "none" /\ otaTo # NoFirmware => sync = "signed"

TrialInv ==
    /\ TrialTypes /\ TasksHold
    /\ "seat" \notin trialHoles => SeatHolds
    /\ "telling" \notin trialHoles => TellingHolds

-----------------------------------------------------------------------------
(* The records.                                                                *)

Apps == [valid : Firmwares, next : Firmwares \cup {NoFirmware}, state : {"none", "new", "pending"}]
Offers == [step : TrialSteps, what : Packs \cup Firmwares \cup {NoFirmware}, into : PackPlaces]

(* No firmware is the absent one, and no pack an empty slot. *)
LEMMA FirmwaresAre == NoFirmware \notin Firmwares /\ Erased \notin Packs /\ Torn \notin Packs
  BY TrialAssumption

(* Rollbacks are told apart. *)
LEMMA RollbacksAre ==
    /\ Models \in Rollbacks
    /\ \A f \in Firmwares : Build(f) \in Rollbacks
    /\ \A f, g : Build(f) = Build(g) => f = g
    /\ \A f : Build(f) # Models
<1>1. ASSUME NEW f, NEW g, Build(f) = Build(g) PROVE f = g
  <2>1. Build(f)[2] = f /\ Build(g)[2] = g
    BY DEF Build
  <2> QED BY <1>1, <2>1
<1>2. ASSUME NEW f PROVE Build(f) # Models
  <2>1. Build(f)[1] = "firmware" /\ Models[1] = "models"
    BY DEF Build, Models
  <2> QED BY <2>1
<1> QED BY <1>1, <1>2 DEF Rollbacks

(* No offer is well typed. *)
LEMMA NoOfferIs ==
    NoOffer \in Offers /\ NoOffer.step = "idle" /\ NoOffer.what = NoFirmware /\ NoOffer.into = NoSlot
  BY DEF NoOffer, Offers, TrialSteps, PackPlaces

\* An offer one step further, or at its first.
LEMMA OfferGoesOn ==
    ASSUME NEW o \in Offers, NEW step \in TrialSteps
    PROVE  /\ [o EXCEPT !.step = step] \in Offers /\ [o EXCEPT !.step = step].step = step
           /\ [o EXCEPT !.step = step].what = o.what /\ [o EXCEPT !.step = step].into = o.into
  BY DEF Offers

(* The fields of the firmware's state. *)
LEMMA AppIs ==
    ASSUME NEW a \in Apps
    PROVE  /\ a.valid \in Firmwares /\ a.next \in Firmwares \cup {NoFirmware}
           /\ a.state \in {"none", "new", "pending"}
  BY DEF Apps

(* There are two slots, each the other's other. *)
LEMMA SlotsAre ==
    ASSUME NEW s \in Slots
    PROVE  1 - s \in Slots /\ 1 - (1 - s) = s /\ 1 - s # s /\ s # NoSlot
  BY DEF Slots, NoSlot

\* The slot the boot serves from, and the other.
LEMMA ServingIs ==
    ASSUME TrialTypes
    PROVE  Serving \in Slots /\ Spare \in Slots /\ (mapped \in Slots => Serving = mapped /\ Spare = 1 - mapped)
  BY SlotsAre DEF TrialTypes, Serving, Spare, PackPlaces, Slots, NoSlot

\* What a boot up means for the tasks.
LEMMA UpIs == Up <=> at \in {"up", "running"}
  BY DEF Up

TrialKept == "seat" \notin trialHoles' => SeatHolds'
TrialTold == "telling" \notin trialHoles' => TellingHolds'

-----------------------------------------------------------------------------
(* A boot.                                                                     *)

(* The bootloader: a new image runs once, and is given up unless it signed off. *)
LEMMA BootFirmwareStep == ASSUME TrialInv, BootFirmware PROVE TrialInv'
<1>1. /\ TrialTypes /\ TasksHold /\ at = "off" /\ at' = "boot" /\ app \in Apps
      /\ UNCHANGED <<slot, active, lastOta, otaTo, mapped, seeing, offer, sync, note, trialHoles>>
      /\ offer = NoOffer /\ sync = "idle" /\ note = {} /\ ~Up /\ ~Up'
  BY DEF TrialInv, BootFirmware, TasksHold, Up, TrialTypes, Apps
<1>2. CASE app.state = "new"
  <2>1. app' = [app EXCEPT !.state = "pending"] /\ fw' = app.next /\ UNCHANGED owed
    BY <1>2 DEF BootFirmware
  <2>2. app' \in Apps /\ app'.state = "pending" /\ app'.next = app.next /\ app'.valid = app.valid
    BY <1>1, <2>1 DEF Apps
  <2>3. TrialTypes' /\ TasksHold'
    BY <1>1, <1>2, <2>1, <2>2, NoOfferIs DEF TrialTypes, TasksHold, Fresh, OnTrial, Apps
  <2>4. TrialKept
    BY <1>1, <2>2 DEF TrialKept, TrialInv, SeatHolds, Good, AnswersOn, HalfArmed
  <2>5. TrialTold
    BY <1>1, <1>2, <2>1, <2>2, RollbacksAre DEF TrialTold, TrialInv, TellingHolds, Fresh, OnTrial
  <2> QED BY <2>3, <2>4, <2>5 DEF TrialInv, TrialKept, TrialTold
<1>3. CASE app.state = "pending"
  <2>1. app' = [app EXCEPT !.next = NoFirmware, !.state = "none"] /\ fw' = app.valid
        /\ owed' = owed \cup {Build(app.next)}
    BY <1>3 DEF BootFirmware
  <2>2. app' \in Apps /\ app'.state = "none" /\ app'.next = NoFirmware /\ app'.valid = app.valid
    BY <1>1, <2>1 DEF Apps
  <2>3. app.next \in Firmwares /\ app.next # app.valid /\ app.next # NoFirmware
    BY <1>1, <1>3, FirmwaresAre DEF TasksHold, Fresh
  <2>4. TrialTypes' /\ TasksHold'
    BY <1>1, <1>3, <2>1, <2>2, <2>3, NoOfferIs, RollbacksAre, AppIs DEF TrialTypes, TasksHold, Fresh, OnTrial, Apps
  <2>5. TrialKept
    BY <1>1, <2>2 DEF TrialKept, TrialInv, SeatHolds, Good, AnswersOn, HalfArmed
  <2>6. TrialTold
    BY <1>1, <1>3, <2>1, <2>2, <2>3, NoOfferIs, RollbacksAre DEF TrialTold, TrialInv, TellingHolds, Fresh, OnTrial
  <2> QED BY <2>4, <2>5, <2>6 DEF TrialInv, TrialKept, TrialTold
<1>4. CASE app.state = "none"
  <2>1. UNCHANGED <<app, owed>> /\ fw' = app.valid
    BY <1>4 DEF BootFirmware
  <2>2. TrialTypes' /\ TasksHold'
    BY <1>1, <1>4, <2>1, NoOfferIs, AppIs DEF TrialTypes, TasksHold, Fresh, OnTrial
  <2>3. TrialKept
    BY <1>1, <2>1 DEF TrialKept, TrialInv, SeatHolds, Good, AnswersOn, HalfArmed
  <2>4. TrialTold
    BY <1>1, <1>4, <2>1, RollbacksAre DEF TrialTold, TrialInv, TellingHolds, Fresh, OnTrial
  <2> QED BY <2>2, <2>3, <2>4 DEF TrialInv, TrialKept, TrialTold
<1> QED BY <1>1, <1>2, <1>3, <1>4, AppIs

\* What a boot that is not up yet comes to.
LEMMA LoadModelsStep == ASSUME TrialInv, LoadModels PROVE TrialInv'
<1>1. /\ TrialTypes /\ TasksHold /\ at = "boot"
      /\ UNCHANGED <<slot, active, app, otaTo, fw, seeing, offer, sync, note, trialHoles>>
      /\ offer = NoOffer /\ sync = "idle" /\ note = {} /\ ~Up /\ app \in Apps /\ app.state # "new"
      /\ mapped' = IF slot[active] = Erased THEN NoSlot ELSE active
      /\ active \in Slots /\ mapped' \in PackPlaces
  BY DEF TrialInv, LoadModels, TasksHold, Up, TrialTypes, Apps, PackPlaces
<1>2. PICK loaded \in BOOLEAN :
        /\ loaded => CanLoad(active)
        /\ IF ~loaded /\ lastOta = "on_trial"
           THEN lastOta' = "undone" /\ owed' = owed \cup {Models} /\ at' = "undoing"
           ELSE at' = (IF loaded THEN "vision" ELSE "up") /\ UNCHANGED <<lastOta, owed>>
  BY DEF LoadModels
<1>3. TrialTypes'
  BY <1>1, <1>2, RollbacksAre DEF TrialTypes
<1>4. TasksHold'
  BY <1>1, <1>2, NoOfferIs DEF TasksHold, Up, Fresh, OnTrial
<1>5. ASSUME "seat" \notin trialHoles' PROVE SeatHolds'
  <2>1. IF lastOta # "on_trial" THEN Good(active) ELSE Good(1 - active)
    BY <1>1, <1>5 DEF TrialInv, SeatHolds
  <2>2. Good(active) \/ CanLoad(active) => mapped' = active
    BY <1>1, FirmwaresAre DEF Good, AnswersOn, CanLoad
  <2>3. CASE ~loaded /\ lastOta = "on_trial"
    BY <1>1, <1>2, <2>1, <2>3, NoOfferIs DEF SeatHolds, Good, AnswersOn, Up
  <2>4. CASE loaded
    BY <1>1, <1>2, <2>1, <2>2, <2>4, NoOfferIs DEF SeatHolds, Good, AnswersOn, Up
  <2>5. CASE ~loaded /\ lastOta # "on_trial"
    BY <1>1, <1>2, <2>1, <2>2, <2>5, NoOfferIs DEF SeatHolds, Good, AnswersOn, Up
  <2> QED BY <2>3, <2>4, <2>5
<1>6. TrialTold
  BY <1>1, <1>2, NoOfferIs, RollbacksAre DEF TrialTold, TrialInv, TellingHolds, Fresh, OnTrial, Up
<1> QED BY <1>3, <1>4, <1>5, <1>6 DEF TrialInv, TrialTold

(* Vision comes up, or not. *)
LEMMA StartVisionStep == ASSUME TrialInv, StartVision PROVE TrialInv'
<1>1. /\ TrialTypes /\ TasksHold /\ at = "vision" /\ at' = "settle" /\ seeing' \in BOOLEAN
      /\ UNCHANGED <<flash, fw, mapped, offer, sync, note, owed, trialHoles>>
      /\ UNCHANGED <<slot, active, lastOta, app, otaTo>> /\ ~Up /\ ~Up'
  BY DEF TrialInv, StartVision, Up, flash
<1>2. TrialTypes' /\ TasksHold'
  BY <1>1 DEF TrialTypes, TasksHold, Fresh, OnTrial
<1>3. TrialKept
  BY <1>1 DEF TrialKept, TrialInv, SeatHolds, Good, AnswersOn, HalfArmed
<1>4. TrialTold
  BY <1>1 DEF TrialTold, TrialInv, TellingHolds, Fresh, OnTrial
<1> QED BY <1>2, <1>3, <1>4 DEF TrialInv, TrialKept, TrialTold

(* The pack on trial is kept on its answers, or goes back. *)
LEMMA SettleModelsStep == ASSUME TrialInv, SettleModels PROVE TrialInv'
<1>1. /\ TrialTypes /\ TasksHold /\ at = "settle"
      /\ UNCHANGED <<slot, active, app, otaTo, fw, mapped, seeing, offer, sync, note>>
      /\ offer = NoOffer /\ sync = "idle" /\ note = {} /\ ~Up /\ app.state # "new" /\ app \in Apps
      /\ active \in Slots
  BY DEF TrialInv, SettleModels, TasksHold, Up, TrialTypes, Apps
<1>2. CASE lastOta # "on_trial" /\ at' = "up" /\ UNCHANGED <<lastOta, owed, trialHoles>>
  <2>1. TrialTypes' /\ TasksHold'
    BY <1>1, <1>2, NoOfferIs DEF TrialTypes, TasksHold, Fresh, OnTrial, Up
  <2>2. TrialKept
    BY <1>1, <1>2, NoOfferIs DEF TrialKept, TrialInv, SeatHolds, Good, AnswersOn, Up
  <2>3. TrialTold
    BY <1>1, <1>2, NoOfferIs DEF TrialTold, TrialInv, TellingHolds, Fresh, OnTrial, Up
  <2> QED BY <2>1, <2>2, <2>3 DEF TrialInv, TrialKept, TrialTold
<1>3. CASE /\ lastOta = "on_trial" /\ Judged /\ lastOta' = "kept" /\ at' = "up" /\ UNCHANGED owed
           /\ trialHoles' = trialHoles \cup (IF OnTrial THEN {"seat"} ELSE {})
  <2>1. TrialTypes' /\ TasksHold'
    BY <1>1, <1>3, NoOfferIs DEF TrialTypes, TasksHold, Fresh, OnTrial, Up
  <2>2. ASSUME "seat" \notin trialHoles' PROVE SeatHolds'
    <3>1. ~OnTrial /\ fw = app.valid
      BY <1>1, <1>3, <2>2 DEF TasksHold
    <3>2. Good(active) /\ mapped = active
      BY <1>1, <1>3, <2>2, <3>1 DEF Judged, Good, TrialInv, SeatHolds
    <3> QED BY <1>1, <1>3, <3>2, NoOfferIs DEF SeatHolds, Good, AnswersOn, Up
  <2>3. TrialTold
    BY <1>1, <1>3, NoOfferIs DEF TrialTold, TrialInv, TellingHolds, Fresh, OnTrial, Up
  <2> QED BY <2>1, <2>2, <2>3 DEF TrialInv, TrialTold
<1>4. CASE /\ lastOta = "on_trial" /\ lastOta' = "undone" /\ at' = "undoing" /\ owed' = owed \cup {Models}
           /\ UNCHANGED trialHoles
  <2>1. TrialTypes' /\ TasksHold'
    BY <1>1, <1>4, NoOfferIs, RollbacksAre DEF TrialTypes, TasksHold, Fresh, OnTrial, Up
  <2>2. TrialKept
    BY <1>1, <1>4, NoOfferIs DEF TrialKept, TrialInv, SeatHolds, Good, AnswersOn, Up
  <2>3. TrialTold
    BY <1>1, <1>4, NoOfferIs, RollbacksAre DEF TrialTold, TrialInv, TellingHolds, Fresh, OnTrial, Up
  <2> QED BY <2>1, <2>2, <2>3 DEF TrialInv, TrialKept, TrialTold
<1> QED BY <1>2, <1>3, <1>4 DEF SettleModels

\* The kiosk goes down: what RAM held is nothing, and flash is what it was.
LEMMA Down ==
    ASSUME TrialTypes, TasksHold, Fall, UNCHANGED <<slot, lastOta, app, otaTo>>, active' \in Slots,
           trialHoles' \subseteq {"seat", "telling"}
    PROVE  /\ TrialTypes' /\ TasksHold' /\ at' = "off" /\ ~Up' /\ offer' = NoOffer /\ sync' = "idle"
           /\ note' = {} /\ owed' = owed
<1>1. /\ at' = "off" /\ mapped' = NoSlot /\ seeing' = FALSE /\ offer' = NoOffer /\ sync' = "idle"
      /\ note' = {} /\ UNCHANGED <<fw, owed>> /\ ~Up'
  BY DEF Fall, Up
<1>2. TrialTypes'
  BY <1>1, NoOfferIs DEF TrialTypes, Offers, PackPlaces
<1>3. TasksHold'
  BY <1>1, NoOfferIs DEF TasksHold, Fresh, OnTrial
<1> QED BY <1>1, <1>2, <1>3

\* What is in flash when the kiosk goes down, if it does not in the middle of something.
LEMMA DownTelling ==
    ASSUME TrialTypes, TasksHold, TellingHolds, at # "off", at' = "off", ~Up', offer' = NoOffer, owed' = owed,
           sync' = "idle", UNCHANGED <<lastOta, app, otaTo>>,
           offer.step # "unnamed", sync # "signed", note = {}
    PROVE  TellingHolds'
<1>1. at # "running" => app.state # "new"
  BY DEF TasksHold, TellingHolds, TrialTypes, Up
<1>2. CASE at # "running"
  BY <1>1, <1>2, NoOfferIs DEF TellingHolds, Fresh, OnTrial
<1>3. CASE at = "running"
  <2>1. owed = {} /\ lastOta # "undone" /\ (app.state = "none" => otaTo = NoFirmware)
    BY <1>3 DEF TellingHolds
  <2>2. app.state \in {"none", "new", "pending"}
    BY DEF TrialTypes
  <2> QED BY <1>3, <2>1, <2>2, NoOfferIs DEF TellingHolds, Fresh, OnTrial
<1> QED BY <1>2, <1>3

(* The slot goes back to the pack that answers. *)
LEMMA RevertStep == ASSUME TrialInv, Revert PROVE TrialInv'
<1>1. /\ TrialTypes /\ TasksHold /\ at = "undoing" /\ Fall /\ UNCHANGED <<slot, lastOta, app, otaTo>>
      /\ offer = NoOffer /\ sync = "idle" /\ note = {} /\ ~Up /\ lastOta = "undone" /\ active \in Slots
      /\ \/ active' = 1 - active /\ UNCHANGED trialHoles
         \/ trialHoles' = trialHoles \cup {"seat"} /\ UNCHANGED active
  BY DEF TrialInv, Revert, TasksHold, Up, TrialTypes
<1>2. active' \in Slots /\ trialHoles' \subseteq {"seat", "telling"} /\ 1 - (1 - active) = active
  BY <1>1, SlotsAre DEF TrialTypes
<1>3. /\ TrialTypes' /\ TasksHold' /\ at' = "off" /\ ~Up' /\ offer' = NoOffer /\ sync' = "idle"
      /\ note' = {} /\ owed' = owed
  BY <1>1, <1>2, Down
<1>4. ASSUME "seat" \notin trialHoles' PROVE SeatHolds'
  <2>1. active' = 1 - active /\ Good(1 - active)
    BY <1>1, <1>4 DEF TrialInv, SeatHolds
  <2> QED BY <1>1, <1>3, <2>1, NoOfferIs DEF SeatHolds, Good, AnswersOn
<1>5. ASSUME "telling" \notin trialHoles' PROVE TellingHolds'
  <2>1. TellingHolds
    BY <1>1, <1>5 DEF TrialInv
  <2> QED BY <1>1, <1>3, <2>1, NoOfferIs, DownTelling
<1> QED BY <1>3, <1>4, <1>5 DEF TrialInv

\* The power goes, or a task restarts the kiosk into what it armed.
LEMMA CutStep == ASSUME TrialInv, CutShort \/ Restart PROVE TrialInv'
<1>1. /\ TrialTypes /\ TasksHold /\ at # "off" /\ Fall /\ UNCHANGED <<slot, active, lastOta, app, otaTo>>
      /\ trialHoles' = trialHoles \cup CutHoles /\ active \in Slots
  BY NoOfferIs DEF TrialInv, CutShort, Restart, TasksHold, Up, TrialTypes, flash
<1>2. CutHoles \subseteq {"seat", "telling"} /\ trialHoles' \subseteq {"seat", "telling"}
  BY <1>1 DEF TrialTypes, CutHoles
<1>3. /\ TrialTypes' /\ TasksHold' /\ at' = "off" /\ ~Up' /\ offer' = NoOffer /\ sync' = "idle"
      /\ note' = {} /\ owed' = owed
  BY <1>1, <1>2, Down
<1>4. ASSUME "seat" \notin trialHoles' PROVE SeatHolds'
  <2>1. SeatHolds /\ at # "undoing" /\ ~HalfArmed
    BY <1>1, <1>4 DEF TrialInv, CutHoles
  <2>2. IF lastOta # "on_trial" THEN Good(active) ELSE Good(1 - active)
    <3>1. CASE Up
      BY <2>1, <3>1, SlotsAre DEF SeatHolds
    <3>2. CASE ~Up
      BY <2>1, <3>2 DEF SeatHolds
    <3> QED BY <3>1, <3>2
  <2> QED BY <1>1, <1>3, <2>2, NoOfferIs DEF SeatHolds, Good, AnswersOn
<1>5. ASSUME "telling" \notin trialHoles' PROVE TellingHolds'
  <2>1. TellingHolds /\ offer.step # "unnamed" /\ sync # "signed" /\ note = {}
    BY <1>1, <1>5 DEF TrialInv, CutHoles
  <2> QED BY <1>1, <1>3, <2>1, DownTelling
<1> QED BY <1>3, <1>4, <1>5 DEF TrialInv

-----------------------------------------------------------------------------
(* ota_task.                                                                   *)

\* An offer goes on, in a boot that is up, with nothing else changed but the slot it is for.
LEMMA OfferOn ==
    ASSUME TrialInv, Up, offer' \in Offers, slot' \in [Slots -> Packs \cup {Erased, Torn}],
           UNCHANGED <<active, lastOta, app, otaTo, at, fw, mapped, seeing, sync, note, owed, trialHoles>>,
           offer.step \notin {"unnamed", "armed", "marked"}, offer'.step \notin {"unnamed", "armed", "marked"},
           offer'.step = "firmware" => app.state = "none" /\ offer'.what \in Firmwares /\ offer'.what # fw,
           offer'.step \in {"staging", "writing"} => offer'.what \in Packs /\ offer'.into \in Slots,
           "seat" \notin trialHoles => /\ slot'[mapped] = slot[mapped]
                                       /\ offer'.step \in {"staging", "writing"} => offer'.into = 1 - mapped
    PROVE  TrialInv'
<1>1. TrialTypes /\ TasksHold /\ Up'
  BY DEF TrialInv, Up
<1>2. TrialTypes'
  BY <1>1 DEF TrialTypes, Offers
<1>3. TasksHold'
  BY <1>1 DEF TasksHold, Fresh, OnTrial, Up
<1>4. TrialKept
  BY <1>1 DEF TrialKept, TrialInv, SeatHolds, HalfArmed, Good, AnswersOn
<1>5. TrialTold
  BY <1>1 DEF TrialTold, TrialInv, TasksHold, TellingHolds, Fresh, OnTrial, Up
<1> QED BY <1>2, <1>3, <1>4, <1>5 DEF TrialInv, TrialKept, TrialTold

(* The slot erased is the spare one. *)
LEMMA OfferModelsStep == ASSUME TrialInv, NEW p \in Packs, OfferModels(p) PROVE TrialInv'
<1>1. /\ TrialTypes /\ Up /\ offer = NoOffer /\ Spare \in Slots
      /\ slot' = [slot EXCEPT ![Spare] = Erased]
      /\ offer' = [step |-> "staging", what |-> p, into |-> Spare]
      /\ UNCHANGED <<active, lastOta, app, otaTo, at, fw, mapped, seeing, sync, note, owed, trialHoles>>
  BY ServingIs DEF TrialInv, OfferModels
<1>2. PICK spare \in Slots : spare = Spare
  BY <1>1
<1>3. /\ slot' \in [Slots -> Packs \cup {Erased, Torn}]
      /\ \A s \in Slots : s # spare => slot'[s] = slot[s]
  BY <1>1, <1>2 DEF TrialTypes
<1>4. /\ offer' \in Offers /\ offer'.step = "staging" /\ offer'.what = p /\ offer'.into = spare
  BY <1>1, <1>2 DEF Offers, TrialSteps, PackPlaces
<1>5. "seat" \notin trialHoles => mapped \in Slots /\ spare = 1 - mapped /\ slot'[mapped] = slot[mapped]
  <2>1. ASSUME "seat" \notin trialHoles PROVE mapped \in Slots
    BY <1>1, <2>1 DEF TrialInv, SeatHolds
  <2> QED BY <1>1, <1>2, <1>3, <2>1, ServingIs, SlotsAre
<1> QED BY <1>1, <1>3, <1>4, <1>5, NoOfferIs, OfferOn

(* So is the one written. *)
LEMMA StageStep == ASSUME TrialInv, StageWrite \/ StageEnd PROVE TrialInv'
<1>1. PICK what \in Packs \cup {Torn}, step \in {"writing", "staged"} :
        /\ offer.step \in {"staging", "writing"} /\ offer.into \in Slots
        /\ slot' = [slot EXCEPT ![offer.into] = what]
        /\ offer' = [offer EXCEPT !.step = step]
        /\ UNCHANGED <<active, lastOta, app, otaTo, at, fw, mapped, seeing, sync, note, owed, trialHoles>>
  BY DEF StageWrite, StageEnd, TrialInv, TasksHold
<1>2. TrialTypes /\ offer \in Offers /\ offer # NoOffer /\ step \in TrialSteps
  BY <1>1, NoOfferIs DEF TrialInv, TrialTypes, Offers, TrialSteps
<1>3. Up
  BY <1>2 DEF TrialInv, TasksHold
<1>4. /\ offer' \in Offers /\ offer'.step = step /\ offer'.what = offer.what /\ offer'.into = offer.into
  BY <1>1, <1>2, OfferGoesOn
<1>5. /\ slot' \in [Slots -> Packs \cup {Erased, Torn}]
      /\ \A s \in Slots : s # offer.into => slot'[s] = slot[s]
  BY <1>1, <1>2 DEF TrialTypes
<1>6. offer.what \in Packs
  BY <1>1 DEF TrialInv, TasksHold
<1>7. "seat" \notin trialHoles => offer.into = 1 - mapped /\ slot'[mapped] = slot[mapped]
  <2>1. ASSUME "seat" \notin trialHoles PROVE mapped \in Slots /\ offer.into = 1 - mapped
    BY <1>1, <1>3, <2>1 DEF TrialInv, SeatHolds
  <2> QED BY <1>5, <2>1, SlotsAre
<1> QED BY <1>1, <1>3, <1>4, <1>5, <1>6, <1>7, OfferOn

(* An update is offered while none is armed. *)
LEMMA OfferFirmwareStep == ASSUME TrialInv, NEW f \in Firmwares, OfferFirmware(f) PROVE TrialInv'
<1>1. /\ TrialTypes /\ TasksHold /\ Up /\ offer = NoOffer /\ ~OnTrial /\ f # fw
      /\ offer' = [NoOffer EXCEPT !.step = "firmware", !.what = f]
      /\ UNCHANGED <<slot, active, lastOta, app, otaTo, at, fw, mapped, seeing, sync, note, owed, trialHoles>>
  BY DEF TrialInv, OfferFirmware, flash
<1>2. offer' \in Offers /\ offer'.step = "firmware" /\ offer'.what = f
  BY <1>1, NoOfferIs DEF Offers, TrialSteps
<1>3. app.state = "none"
  BY <1>1, NoOfferIs DEF TasksHold, OnTrial, TrialTypes
<1> QED BY <1>1, <1>2, <1>3, NoOfferIs, OfferOn DEF TrialTypes

\* An offer that fails; half armed it leaves the pack on the word of a slot never flipped.
LEMMA OfferFailsStep == ASSUME TrialInv, OfferFails PROVE TrialInv'
<1>1. /\ TrialTypes /\ TasksHold
      /\ offer.step \in {"staging", "writing", "staged", "marked", "firmware"} /\ offer' = NoOffer
      /\ trialHoles' = trialHoles \cup (IF offer.step = "marked" THEN {"seat"} ELSE {})
      /\ UNCHANGED <<slot, active, lastOta, app, otaTo, at, fw, mapped, seeing, sync, note, owed>>
  BY DEF TrialInv, OfferFails, flash
<1>2. offer # NoOffer /\ Up
  BY <1>1, NoOfferIs DEF TasksHold
<1>3. TrialTypes' /\ TasksHold'
  BY <1>1, <1>2, NoOfferIs DEF TrialTypes, TasksHold, Offers, Fresh, OnTrial, Up
<1>4. TrialKept
  BY <1>1, <1>2, NoOfferIs DEF TrialKept, TrialInv, SeatHolds, HalfArmed, Good, AnswersOn, Up
<1>5. TrialTold
  BY <1>1, <1>2, NoOfferIs DEF TrialTold, TrialInv, TasksHold, TellingHolds, Fresh, OnTrial, Up
<1> QED BY <1>3, <1>4, <1>5 DEF TrialInv, TrialKept, TrialTold

(* It is armed before it is named. *)
LEMMA ArmFirmwareStep == ASSUME TrialInv, ArmFirmware PROVE TrialInv'
<1>1. /\ TrialTypes /\ TasksHold /\ offer.step = "firmware" /\ offer \in Offers /\ app \in Apps
      /\ app' = [app EXCEPT !.next = offer.what, !.state = "new"]
      /\ offer' = [offer EXCEPT !.step = "unnamed"]
      /\ UNCHANGED <<slot, active, lastOta, otaTo, at, fw, mapped, seeing, sync, note, owed, trialHoles>>
      /\ app.state = "none" /\ offer.what \in Firmwares /\ offer.what # fw
  BY DEF TrialInv, ArmFirmware, TasksHold, TrialTypes, Offers, Apps
<1>2. Up /\ Up' /\ fw = app.valid
  BY <1>1, NoOfferIs DEF TasksHold, Up, OnTrial
<1>3. offer' \in Offers /\ offer'.step = "unnamed" /\ offer'.what = offer.what
  BY <1>1, OfferGoesOn DEF TrialSteps
<1>4. PICK what \in Firmwares : what = offer.what
  BY <1>1
<1>5. app' \in Apps /\ app'.valid = app.valid /\ app'.next = what /\ app'.state = "new"
  BY <1>1, <1>4 DEF Apps
<1>6. TrialTypes' /\ TasksHold'
  <2>1. TrialTypes'
    BY <1>1, <1>3, <1>5 DEF TrialTypes, Offers, Apps
  <2>2. TasksHold'
    BY <1>1, <1>2, <1>3, <1>4, <1>5, UpIs DEF TasksHold, Fresh, OnTrial
  <2> QED BY <2>1, <2>2
<1>7. TrialKept
  BY <1>1, <1>2, <1>3, <1>5 DEF TrialKept, TrialInv, SeatHolds, HalfArmed, Good, AnswersOn
<1>8. TrialTold
  BY <1>1, <1>2, <1>3, <1>5 DEF TrialTold, TrialInv, TellingHolds, Fresh, OnTrial, Up
<1> QED BY <1>6, <1>7, <1>8 DEF TrialInv, TrialKept, TrialTold

(* Its name replaces one already reported. *)
LEMMA NameUpdateStep == ASSUME TrialInv, NameUpdate PROVE TrialInv'
<1>1. /\ TrialTypes /\ TasksHold /\ offer.step = "unnamed" /\ offer \in Offers
      /\ offer' = [offer EXCEPT !.step = "armed"]
      /\ UNCHANGED <<slot, active, lastOta, app, at, fw, mapped, seeing, sync, note, owed>>
      /\ app.state = "new" /\ offer.what = app.next /\ app.next \in Firmwares /\ app.next # app.valid
  BY DEF TrialInv, NameUpdate, TasksHold, TrialTypes, Offers, Fresh
<1>2. Up /\ Up'
  BY <1>1, NoOfferIs DEF TasksHold, Up
<1>3. offer' \in Offers /\ offer'.step = "armed"
  BY <1>1, OfferGoesOn DEF TrialSteps
<1>4. \/ otaTo' = offer.what
         /\ trialHoles' = trialHoles \cup (IF at = "up" \/ sync = "signed" THEN {"telling"} ELSE {})
      \/ trialHoles' = trialHoles \cup {"telling"} /\ UNCHANGED otaTo
  BY DEF NameUpdate
<1>5. TrialTypes' /\ TasksHold'
  BY <1>1, <1>2, <1>3, <1>4 DEF TrialTypes, TasksHold, Offers, Fresh, OnTrial
<1>6. TrialKept
  BY <1>1, <1>2, <1>3, <1>4 DEF TrialKept, TrialInv, SeatHolds, HalfArmed, Good, AnswersOn
<1>7. ASSUME "telling" \notin trialHoles' PROVE TellingHolds'
  <2>1. TellingHolds /\ otaTo' = app.next /\ at = "running" /\ sync # "signed"
    BY <1>1, <1>2, <1>4, <1>7, UpIs DEF TrialInv
  <2> QED BY <1>1, <1>2, <1>3, <2>1 DEF TellingHolds, Fresh, OnTrial
<1> QED BY <1>5, <1>6, <1>7 DEF TrialInv, TrialKept

\* The mark goes down before the flip, and over an undone one it is lost.
LEMMA OfferMarksStep == ASSUME TrialInv, OfferMarks PROVE TrialInv'
<1>1. /\ TrialTypes /\ TasksHold /\ offer.step = "staged" /\ offer \in Offers
      /\ offer' = [offer EXCEPT !.step = "marked"] /\ lastOta' = "on_trial"
      /\ trialHoles' = trialHoles \cup (IF lastOta = "undone" THEN {"telling"} ELSE {})
      /\ UNCHANGED <<slot, active, app, otaTo, at, fw, mapped, seeing, sync, note, owed>>
  BY DEF TrialInv, OfferMarks, Mark, TrialTypes, Offers
<1>2. Up /\ Up'
  BY <1>1, NoOfferIs DEF TasksHold, Up
<1>3. offer' \in Offers /\ offer'.step = "marked"
  BY <1>1, OfferGoesOn DEF TrialSteps
<1>4. TrialTypes'
  BY <1>1, <1>3 DEF TrialTypes, Offers
<1>5. TasksHold'
  BY <1>1, <1>2, <1>3 DEF TasksHold, Fresh, OnTrial, Up
<1>6. TrialKept
  BY <1>1, <1>2, <1>3 DEF TrialKept, TrialInv, SeatHolds, HalfArmed, Good, AnswersOn
<1>7. TrialTold
  BY <1>1, <1>2, <1>3 DEF TrialTold, TrialInv, TasksHold, TellingHolds, Fresh, OnTrial, Up
<1> QED BY <1>4, <1>5, <1>6, <1>7 DEF TrialInv, TrialKept, TrialTold

(* The flip names the spare slot, the mark being down. *)
LEMMA OfferFlipsStep == ASSUME TrialInv, OfferFlips PROVE TrialInv'
<1>1. /\ TrialTypes /\ TasksHold /\ offer.step = "marked" /\ offer \in Offers
      /\ offer' = [offer EXCEPT !.step = "armed"] /\ active' = Spare /\ Spare \in Slots
      /\ UNCHANGED <<slot, lastOta, app, otaTo, at, fw, mapped, seeing, sync, note, owed, trialHoles>>
  BY ServingIs DEF TrialInv, OfferFlips, Flip, TrialTypes, Offers
<1>2. Up /\ Up'
  BY <1>1, NoOfferIs DEF TasksHold, Up
<1>3. offer' \in Offers /\ offer'.step = "armed"
  BY <1>1, OfferGoesOn DEF TrialSteps
<1>4. TrialTypes'
  BY <1>1, <1>3 DEF TrialTypes, Offers
<1>5. TasksHold'
  BY <1>1, <1>2, <1>3 DEF TasksHold, Fresh, OnTrial, Up
<1>6. ASSUME "seat" \notin trialHoles' PROVE SeatHolds'
  <2>1. SeatHolds /\ mapped \in Slots
    BY <1>1, <1>2, <1>6 DEF TrialInv, SeatHolds
  <2>2. active' = 1 - mapped /\ lastOta = "on_trial"
    BY <1>1, <1>2, <2>1, ServingIs DEF TasksHold
  <2> QED BY <1>1, <1>2, <1>3, <2>1, <2>2 DEF SeatHolds, Good, AnswersOn, HalfArmed, Up
<1>7. TrialTold
  BY <1>1, <1>2, <1>3 DEF TrialTold, TrialInv, TasksHold, TellingHolds, Fresh, OnTrial, Up
<1> QED BY <1>4, <1>5, <1>6, <1>7 DEF TrialInv, TrialTold

-----------------------------------------------------------------------------
(* sync_task.                                                                  *)

(* What flash knew of a rollback is in the event queue now. *)
LEMMA ReportOutcomeStep == ASSUME TrialInv, ReportOutcome PROVE TrialInv'
<1>1. /\ TrialTypes /\ TasksHold /\ at = "up" /\ at' = "running"
      /\ otaTo' = IF otaTo = fw THEN otaTo ELSE NoFirmware
      /\ lastOta' = IF lastOta = "undone" THEN "none" ELSE lastOta
      /\ note' = (IF otaTo \notin {NoFirmware, fw} THEN {Build(otaTo)} ELSE {})
                    \cup (IF lastOta = "undone" THEN {Models} ELSE {})
      /\ UNCHANGED <<slot, active, app, fw, mapped, seeing, offer, sync, owed, trialHoles>>
      /\ sync = "idle" /\ note = {} /\ Up /\ Up' /\ app.state \in {"none", "new", "pending"}
      /\ fw = IF OnTrial THEN app.next ELSE app.valid
  BY DEF TrialInv, ReportOutcome, NameReported, TasksHold, Up, TrialTypes
<1>2. note' \subseteq Rollbacks /\ otaTo' \in Firmwares \cup {NoFirmware}
  BY <1>1, RollbacksAre DEF TrialTypes
<1>3. TrialTypes'
  BY <1>1, <1>2 DEF TrialTypes
<1>4. TasksHold'
  BY <1>1 DEF TasksHold, Fresh, OnTrial
<1>5. TrialKept
  BY <1>1 DEF TrialKept, TrialInv, SeatHolds, HalfArmed, Good, AnswersOn
<1>6. ASSUME "telling" \notin trialHoles' PROVE TellingHolds'
  <2>1. TellingHolds
    BY <1>1, <1>6 DEF TrialInv
  <2>2. Build(otaTo) \in owed <=> otaTo \notin {NoFirmware, fw}
    BY <1>1, <2>1, FirmwaresAre DEF TellingHolds, TasksHold, Fresh, OnTrial
  <2>3. owed = note'
    BY <1>1, <2>1, <2>2, RollbacksAre DEF TellingHolds
  <2>4. app.state = "none" => otaTo' = NoFirmware
    BY <1>1, <2>1, <2>2 DEF TellingHolds, OnTrial
  <2>5. Fresh /\ offer.step # "unnamed" => otaTo' = app.next
    BY <1>1, <2>1, FirmwaresAre DEF TellingHolds, TasksHold, Fresh, OnTrial
  <2> QED BY <1>1, <2>3, <2>4, <2>5 DEF TellingHolds, Fresh, OnTrial
<1> QED BY <1>3, <1>4, <1>5, <1>6 DEF TrialInv, TrialKept

(* What was queued is told. *)
LEMMA SendNotesStep == ASSUME TrialInv, SendNotes PROVE TrialInv'
<1>1. /\ TrialTypes /\ TasksHold /\ at = "running" /\ note' = {} /\ owed' = owed \ note
      /\ UNCHANGED <<slot, active, lastOta, app, otaTo, at, fw, mapped, seeing, offer, sync, trialHoles>>
  BY DEF TrialInv, SendNotes, flash
<1>2. TrialTypes' /\ TasksHold'
  BY <1>1 DEF TrialTypes, TasksHold, Fresh, OnTrial, Up
<1>3. TrialKept
  BY <1>1 DEF TrialKept, TrialInv, SeatHolds, HalfArmed, Good, AnswersOn, Up
<1>4. TrialTold
  BY <1>1 DEF TrialTold, TrialInv, TellingHolds, Fresh, OnTrial, Up
<1> QED BY <1>2, <1>3, <1>4 DEF TrialInv, TrialKept, TrialTold

(* The command marks before it flips. *)
LEMMA SetActiveSlotStep == ASSUME TrialInv, SetActiveSlot PROVE TrialInv'
<1>1. /\ TrialTypes /\ TasksHold /\ at = "running" /\ sync = "idle" /\ sync' = "marked" /\ lastOta' = "on_trial"
      /\ trialHoles' = trialHoles \cup (IF lastOta = "undone" THEN {"telling"} ELSE {})
      /\ UNCHANGED <<slot, active, app, otaTo, at, fw, mapped, seeing, offer, note, owed>> /\ Up /\ Up'
  BY DEF TrialInv, SetActiveSlot, Mark, Up
<1>2. TrialTypes'
  BY <1>1 DEF TrialTypes
<1>3. TasksHold'
  BY <1>1 DEF TasksHold, Fresh, OnTrial
<1>4. TrialKept
  BY <1>1 DEF TrialKept, TrialInv, SeatHolds, HalfArmed, Good, AnswersOn
<1>5. TrialTold
  BY <1>1 DEF TrialTold, TrialInv, TasksHold, TellingHolds, Fresh, OnTrial
<1> QED BY <1>2, <1>3, <1>4, <1>5 DEF TrialInv, TrialKept, TrialTold

(* Its flip names the spare slot too. *)
LEMMA CommandFlipsStep == ASSUME TrialInv, CommandFlips PROVE TrialInv'
<1>1. /\ TrialTypes /\ TasksHold /\ sync = "marked" /\ Spare \in Slots /\ active' \in Slots
      /\ \/ active' = Spare /\ sync' = "armed" /\ UNCHANGED trialHoles
         \/ sync' = "idle" /\ trialHoles' = trialHoles \cup {"seat"} /\ UNCHANGED active
      /\ UNCHANGED <<slot, lastOta, app, otaTo, at, fw, mapped, seeing, offer, note, owed>>
  BY ServingIs DEF TrialInv, CommandFlips, Flip, TrialTypes
<1>2. at = "running" /\ Up /\ Up'
  BY <1>1 DEF TasksHold, Up
<1>3. TrialTypes'
  BY <1>1 DEF TrialTypes
<1>4. TasksHold'
  BY <1>1, <1>2 DEF TasksHold, Fresh, OnTrial
<1>5. ASSUME "seat" \notin trialHoles' PROVE SeatHolds'
  <2>1. SeatHolds /\ mapped \in Slots /\ active' = Spare /\ sync' = "armed"
    BY <1>1, <1>2, <1>5 DEF TrialInv, SeatHolds
  <2>2. active' = 1 - mapped /\ lastOta = "on_trial"
    BY <1>1, <1>2, <2>1, ServingIs DEF TasksHold
  <2> QED BY <1>1, <1>2, <2>1, <2>2 DEF SeatHolds, Good, AnswersOn, HalfArmed, Up
<1>6. TrialTold
  BY <1>1, <1>2 DEF TrialTold, TrialInv, TasksHold, TellingHolds, Fresh, OnTrial
<1> QED BY <1>3, <1>4, <1>5, <1>6 DEF TrialInv, TrialTold

(* The build on trial is the one kept. *)
LEMMA SignOffStep == ASSUME TrialInv, SignOff PROVE TrialInv'
<1>1. /\ TrialTypes /\ TasksHold /\ at = "running" /\ sync = "idle" /\ sync' = "signed" /\ OnTrial
      /\ app' = [valid |-> fw, next |-> NoFirmware, state |-> "none"]
      /\ trialHoles' = trialHoles \cup (IF AnswersOn(mapped, fw) THEN {} ELSE {"seat"})
      /\ UNCHANGED <<slot, active, lastOta, otaTo, at, fw, mapped, seeing, offer, note, owed>> /\ Up /\ Up'
  BY DEF TrialInv, SignOff, Up
<1>2. app' \in Apps /\ app'.valid = fw /\ app'.next = NoFirmware /\ app'.state = "none"
  BY <1>1 DEF Apps, TrialTypes
<1>3. offer.step # "unnamed"
  BY <1>1 DEF TasksHold, OnTrial
<1>4. TrialTypes'
  BY <1>1, <1>2 DEF TrialTypes, Apps
<1>5. TasksHold'
  BY <1>1, <1>2, <1>3 DEF TasksHold, Fresh, OnTrial
<1>6. ASSUME "seat" \notin trialHoles' PROVE SeatHolds'
  <2>1. SeatHolds /\ AnswersOn(mapped, fw)
    BY <1>1, <1>6 DEF TrialInv
  <2>2. Good(mapped)'
    BY <1>1, <1>2, <2>1 DEF Good, AnswersOn
  <2> QED BY <1>1, <1>2, <2>1, <2>2 DEF SeatHolds, HalfArmed
<1>7. TrialTold
  BY <1>1, <1>2, <1>3 DEF TrialTold, TrialInv, TellingHolds, Fresh, OnTrial
<1> QED BY <1>4, <1>5, <1>6, <1>7 DEF TrialInv, TrialTold

(* Its name goes, nothing being owed under it. *)
LEMMA ForgetUpdateStep == ASSUME TrialInv, ForgetUpdate PROVE TrialInv'
<1>1. /\ TrialTypes /\ TasksHold /\ sync = "signed" /\ sync' = "idle" /\ otaTo' = NoFirmware
      /\ UNCHANGED <<slot, active, lastOta, app, at, fw, mapped, seeing, offer, note, owed, trialHoles>>
  BY DEF TrialInv, ForgetUpdate
<1>2. at = "running" /\ Up /\ Up'
  BY <1>1 DEF TasksHold, Up
<1>3. TrialTypes' /\ TasksHold'
  BY <1>1, <1>2 DEF TrialTypes, TasksHold, Fresh, OnTrial
<1>4. TrialKept
  BY <1>1, <1>2 DEF TrialKept, TrialInv, SeatHolds, HalfArmed, Good, AnswersOn
<1>5. TrialTold
  BY <1>1, <1>2 DEF TrialTold, TrialInv, TellingHolds, Fresh, OnTrial
<1> QED BY <1>3, <1>4, <1>5 DEF TrialInv, TrialKept, TrialTold

-----------------------------------------------------------------------------
(* The invariant.                                                              *)

(* A pack that answers in the slot named. *)
LEMMA TrialStarts == ASSUME TrialInit PROVE TrialInv
<1>1. PICK f \in Firmwares, p \in Packs, other \in Packs \cup {Erased} :
        /\ app = [valid |-> f, next |-> NoFirmware, state |-> "none"] /\ fw = f
        /\ slot = [s \in Slots |-> IF s = 0 THEN p ELSE other]
        /\ AnswersOn(0, f)
  BY DEF TrialInit
<1>2. /\ active = 0 /\ lastOta = "none" /\ otaTo = NoFirmware
      /\ at = "off" /\ mapped = NoSlot /\ seeing = FALSE
      /\ offer = NoOffer /\ sync = "idle"
      /\ note = {} /\ owed = {} /\ trialHoles = {} /\ ~Up
  BY DEF TrialInit, Up
<1>3. TrialTypes
  BY <1>1, <1>2, NoOfferIs DEF TrialTypes, Offers, PackPlaces, Slots
<1>4. TasksHold
  BY <1>1, <1>2, NoOfferIs DEF TasksHold, Fresh, OnTrial
<1>5. SeatHolds
  BY <1>1, <1>2, NoOfferIs DEF SeatHolds, Good
<1>6. TellingHolds
  BY <1>1, <1>2, NoOfferIs DEF TellingHolds, Fresh, OnTrial
<1> QED BY <1>3, <1>4, <1>5, <1>6 DEF TrialInv

(* Every step keeps the invariant. *)
LEMMA TrialStep == ASSUME TrialInv, [TrialNext]_trialVars PROVE TrialInv'
<1>1. CASE UNCHANGED trialVars
  <2>1. UNCHANGED <<slot, active, lastOta, app, otaTo, at, fw, mapped, seeing, offer, sync, note, owed, trialHoles>>
    BY <1>1 DEF trialVars, flash
  <2>2. TrialTypes' /\ TasksHold'
    BY <2>1 DEF TrialInv, TrialTypes, TasksHold, Fresh, OnTrial, Up
  <2>3. TrialKept
    BY <2>1 DEF TrialKept, TrialInv, SeatHolds, HalfArmed, Good, AnswersOn, Up
  <2>4. TrialTold
    BY <2>1 DEF TrialTold, TrialInv, TellingHolds, Fresh, OnTrial, Up
  <2> QED BY <2>2, <2>3, <2>4 DEF TrialInv, TrialKept, TrialTold
<1>2. CASE Booting
  BY <1>2, BootFirmwareStep, LoadModelsStep, StartVisionStep, SettleModelsStep, RevertStep, CutStep DEF Booting
<1>3. CASE OtaTask
  BY <1>3, OfferModelsStep, OfferFirmwareStep, StageStep, OfferMarksStep, OfferFlipsStep, ArmFirmwareStep,
     NameUpdateStep, OfferFailsStep, CutStep DEF OtaTask
<1>4. CASE SyncTask
  BY <1>4, ReportOutcomeStep, SendNotesStep, SetActiveSlotStep, CommandFlipsStep, SignOffStep,
     ForgetUpdateStep DEF SyncTask
<1> QED BY <1>1, <1>2, <1>3, <1>4 DEF TrialNext

(* The inductive invariant: where a pack that answers is at every moment of a trial, and where
   the record of a rollback is. *)
THEOREM TrialInvariant == TrialSpec => []TrialInv
<1>1. TrialInit => TrialInv
  BY TrialStarts
<1>2. TrialInv /\ [TrialNext]_trialVars => TrialInv'
  BY TrialStep
<1> QED BY <1>1, <1>2, PTL DEF TrialSpec

\* Flash, the boot, the two tasks and the event queue hold what they may hold.
THEOREM TrialTypeCorrect == TrialSpec => []TrialTypeOK
<1>1. TrialInv => TrialTypeOK
  BY DEF TrialInv, TrialTypes, TrialTypeOK, PackPlaces
<1> QED BY <1>1, TrialInvariant, PTL

(* Whatever is staged, armed, commanded or cut short, there is a slot with a pack that answers
   under the firmware that is kept, and the kiosk finds its way to it. *)
THEOREM APackAnswers == TrialSpec => []APackThatAnswers
<1>1. TrialInv => APackThatAnswers
  <2> SUFFICES ASSUME TrialInv, "seat" \notin trialHoles
               PROVE  IF lastOta # "on_trial" /\ at # "undoing" THEN Good(active)
                      ELSE Good(1 - active) \/ (HalfArmed /\ Good(active))
    BY DEF APackThatAnswers, Good
  <2>1. SeatHolds /\ active \in Slots
    BY DEF TrialInv, TrialTypes
  <2>2. CASE Up
    BY <2>1, <2>2, SlotsAre, UpIs DEF SeatHolds
  <2>3. CASE ~Up
    BY <2>1, <2>3 DEF SeatHolds
  <2> QED BY <2>2, <2>3
<1> QED BY <1>1, TrialInvariant, PTL

\* What was rolled back stays known until the server is told, and nothing else is told.
THEOREM RollbacksAreTold == TrialSpec => []RollbackTold
<1>1. TrialInv => RollbackTold
  BY DEF TrialInv, TasksHold, TellingHolds, RollbackTold
<1> QED BY <1>1, TrialInvariant, PTL

-----------------------------------------------------------------------------
(* FILES: what stands under the three names of a file that is replaced.      *)
-----------------------------------------------------------------------------
(* Where a replace stands, what is under the three names. *)
Progress ==
  /\ acked <= asked
  /\ pc # "idle" => acked < asked
  /\ pc \in {"written", "unlinked", "aside"} => tmp = asked
  /\ pc \in {"unlinked", "aside"} /\ main # 0 => bak = 0
  /\ pc = "placed" => main = asked
  /\ pc # "idle" => answer = "nothing"

(* Versions never run behind what was answered, and the file's own name stays  *)
(* empty only while some replace has not gone through.                         *)
Ages ==
  /\ main # 0 => acked <= main /\ main <= asked
  /\ main = 0 /\ bak # 0 => acked <= bak
  /\ main = 0 /\ acked # 0 => acked < asked
  /\ main = 0 /\ acked # 0 /\ pc \in {"written", "unlinked"} => asked - acked >= 2
  /\ main = 0 /\ acked # 0 /\ bak = 0 => asked - acked >= 2

(* What a reader finds, against what stood there when the replace began. *)
Found ==
  /\ base.at = "none" => base.val = 0
  /\ pc = "written" => Register = base
  /\ pc = "unlinked" => Register = IF base.at = "main" THEN base ELSE NoFile(0)
  /\ pc = "aside" => Register \in Failed(base, 0)

FileInv == TypeOK /\ Progress /\ Ages /\ Found /\ OutcomesCovered

USE MaxWritesAssumption

(* Nothing written yet: the invariant holds. *)
LEMMA FileInit == Init => FileInv
  BY SMT DEF Init, FileInv, TypeOK, Versions, Steps, Answers, Registers, Places,
     Progress, Ages, Found, OutcomesCovered, Register, Cut, Failed, Finished, NoFile

(* Every call of a replace, every failed one and every cut keeps it. *)
LEMMA FileNext == FileInv /\ [Next]_vars => FileInv'
<1> SUFFICES ASSUME FileInv, [Next]_vars PROVE FileInv'
  OBVIOUS
<1> USE DEF FileInv, TypeOK, Versions, Steps, Answers, Registers, Places, Progress,
        Ages, Found, OutcomesCovered, Register, Cut, Failed, Finished, NoFile
<1>1. CASE WriteScratch
  BY <1>1 DEF WriteScratch
<1>2. CASE WriteScratchFails
  BY <1>2 DEF WriteScratchFails
<1>3. CASE UnlinkPrevious
  BY <1>3 DEF UnlinkPrevious
<1>4. CASE StepAside
  BY <1>4 DEF StepAside
<1>5. CASE TakePlace
  BY <1>5 DEF TakePlace
<1>6. CASE AnswerOk
  BY <1>6 DEF AnswerOk
<1>7. CASE TakePlaceFails
  BY <1>7 DEF TakePlaceFails
<1>8. CASE PowerCut
  BY <1>8 DEF PowerCut
<1>9. CASE UNCHANGED vars
  BY <1>9 DEF vars
<1> QED
  BY <1>1, <1>2, <1>3, <1>4, <1>5, <1>6, <1>7, <1>8, <1>9 DEF Next

(* So it holds of every reachable state. *)
LEMMA FileHolds == Spec => []FileInv
  BY FileInit, FileNext, PTL DEF Spec

(* Every variable keeps its type (the state of replace_locked). *)
THEOREM TypeCorrect == Spec => []TypeOK
  BY FileHolds, PTL DEF FileInv

(* However many replaces are cut or fail, no reader is served a version older  *)
(* than one whose replace answered ESP_OK.                                     *)
THEOREM NoRollBack == Spec => []NeverRolledBack
<1>1. FileInv => NeverRolledBack
  BY DEF FileInv, TypeOK, Versions, Ages, NeverRolledBack, Register, Finished, NoFile
<1> QED
  BY <1>1, FileHolds, PTL

(* Losing both copies takes two replaces in a row that do not go through. *)
THEOREM TwoToLose == Spec => []OneUnfinishedReplaceKeepsACopy
<1>1. FileInv => OneUnfinishedReplaceKeepsACopy
  BY DEF FileInv, TypeOK, Versions, Ages, OneUnfinishedReplaceKeepsACopy, Register,
         Finished, NoFile
<1> QED
  BY <1>1, FileHolds, PTL

(* The outcomes TwoPhase lists for an interrupted replace are all there are:   *)
(* what AttendLog assumes of cursor.bin and boot.bin.                          *)
THEOREM TwoPhaseOutcomes == Spec => []OutcomesCovered
  BY FileHolds, PTL DEF FileInv

(* A replace, with every call that may fail and every cut between two of them, is one step  *)
(* for whoever holds the lock next: the step AttendLog writes cursor.bin and boot.bin with. *)
THEOREM OneStepReplaces == Spec => ReplacesInOneStep
<1> DEFINE held == IF pc = "idle" THEN Register ELSE base
           tried == IF pc = "idle" THEN asked ELSE asked - 1
<1>1. Init => Whole!ReplaceInit
  BY DEF Init, Whole!ReplaceInit, Register, NoFile, Whole!NoFile
<1>2. FileInv /\ FileInv' /\ [Next]_vars =>
        [Whole!Replaced \/ Whole!NotReplaced \/ Whole!CutShort]_Whole!fileVars
  <2> SUFFICES ASSUME FileInv, FileInv', [Next]_vars
               PROVE  \/ Whole!Replaced \/ Whole!NotReplaced \/ Whole!CutShort
                      \/ held' = held /\ tried' = tried /\ acked' = acked
    BY DEF Whole!fileVars
  <2>0. asked \in Nat /\ asked' \in Nat /\ pc \in Steps
    BY DEF FileInv, TypeOK, Versions
  <2>1. ASSUME pc # "idle", pc' = "idle", asked' = asked, Register' = Register
        PROVE  held' = Register /\ held = base /\ tried' = tried + 1 /\ tried' = asked
    BY <2>0, <2>1
  <2>2. CASE WriteScratch
    <3>1. Register' = Register
      BY <2>2 DEF WriteScratch, Register
    <3> QED
      BY <2>0, <2>2, <3>1 DEF WriteScratch
  <2>3. CASE WriteScratchFails
    <3>1. Register' = Register
      BY <2>3 DEF WriteScratchFails, Register
    <3> QED
      BY <2>0, <2>3, <3>1 DEF WriteScratchFails, Whole!NotReplaced, Whole!Failed
  <2>4. CASE UnlinkPrevious \/ StepAside \/ TakePlace
    BY <2>4 DEF UnlinkPrevious, StepAside, TakePlace
  <2>5. CASE AnswerOk
    <3>1. Register' = Register /\ pc = "placed" /\ pc' = "idle" /\ asked' = asked /\ acked' = asked
      BY <2>5 DEF AnswerOk, Register
    <3>2. Register' = Finished(asked)
      BY <2>5 DEF FileInv, OutcomesCovered, AnswerOk
    <3> QED
      BY <2>1, <3>1, <3>2 DEF Whole!Replaced, Whole!Finished, Finished
  <2>6. CASE TakePlaceFails
    <3>1. Register' = Register /\ pc = "aside" /\ pc' = "idle" /\ asked' = asked /\ acked' = acked
      BY <2>6 DEF TakePlaceFails, Register
    <3>2. Register \in Failed(base, 0)
      BY <3>1 DEF FileInv, Found
    <3> QED
      BY <2>1, <3>1, <3>2 DEF Whole!NotReplaced, Whole!Failed, Failed, Whole!NoFile, NoFile
  <2>7. CASE PowerCut
    <3>1. Register' = Register /\ pc # "idle" /\ pc' = "idle" /\ asked' = asked /\ acked' = acked
      BY <2>7 DEF PowerCut, Register
    <3>2. Register \in Cut(base, asked, 0)
      BY DEF FileInv, OutcomesCovered
    <3> QED
      BY <2>1, <3>1, <3>2 DEF Whole!CutShort, Whole!Cut, Cut, Whole!Failed, Failed, Whole!NoFile, NoFile,
         Whole!Finished, Finished
  <2>8. CASE UNCHANGED vars
    BY <2>8 DEF vars, Register
  <2> QED
    BY <2>2, <2>3, <2>4, <2>5, <2>6, <2>7, <2>8 DEF Next
<1> QED
  BY <1>1, <1>2, FileHolds, PTL DEF Spec, ReplacesInOneStep, Whole!ReplaceSpec

-----------------------------------------------------------------------------
(* SIDE BY SIDE: the exploration of the components is one of each of them.   *)
-----------------------------------------------------------------------------
HIDE MaxWritesAssumption

(* Every behaviour of the components side by side is one of each of them: what is proved of *)
(* a component holds of the exploration, and of a component at rest in it.                  *)
THEOREM SideBySide ==
  ComponentsSpec =>
    /\ Spec /\ PaySpec /\ LeaveSpec
    /\ TrialSpec /\ CommandSpec /\ TicketSpec
<1>1. ComponentsInit => Init /\ PayInit /\ LeaveInit /\ TrialInit /\ CommandInit /\ TicketInit
  BY DEF ComponentsInit
<1>2. [ComponentsNext]_allVars =>
        /\ [Next]_vars /\ [PayNext]_payVars /\ [LeaveNext]_leaveVars
        /\ [TrialNext]_trialVars /\ [CommandNext]_commandVars /\ [TicketNext]_ticketVars
  <2> SUFFICES ASSUME [ComponentsNext]_allVars
               PROVE  /\ Next \/ vars' = vars
                      /\ PayNext \/ payVars' = payVars
                      /\ LeaveNext \/ leaveVars' = leaveVars
                      /\ TrialNext \/ trialVars' = trialVars
                      /\ CommandNext \/ commandVars' = commandVars
                      /\ TicketNext \/ ticketVars' = ticketVars
    OBVIOUS
  <2>1. CASE UNCHANGED allVars
    BY <2>1, Zenon DEF allVars
  <2>2. CASE ComponentsNext
    BY <2>2, Zenon DEF ComponentsNext
  <2> QED
    BY <2>1, <2>2
<1> QED
  BY <1>1, <1>2, PTL DEF ComponentsSpec, Spec, PaySpec, LeaveSpec, TrialSpec, CommandSpec, TicketSpec

(* Whatever runs, and whatever its people and the faults around it do, it keeps its type. *)
THEOREM ComponentsTypeCorrect == ComponentsSpec => []ComponentsTypeOK
<1>1. PayTypeOK /\ LeaveTypeOK /\ TrialTypeOK /\ CommandTypeOK /\ TicketTypeOK => ComponentsTypeOK
  BY DEF ComponentsTypeOK
<1> QED
  BY <1>1, SideBySide, PayTypeCorrect, LeaveTypeCorrect, TrialTypeCorrect, CommandTypeCorrect,
     TicketTypeCorrect, PTL
=============================================================================
