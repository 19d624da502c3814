--------------------------- MODULE Enrolment_proofs ---------------------------
(***************************************************************************)
(* That the doors of one person end alike, for any number of doors, capture *)
(* sessions and requests.  DoorsEndAlike and NoErasedFaceReturns speak of   *)
(* moments when all is judged; what carries them there is what each door    *)
(* holds while a capture is on its way (Shape), that only the doors a       *)
(* spread has still to tell may differ from the server (Level), and that a  *)
(* capture on its way is nobody's set yet and never was (Fresh).            *)
(***************************************************************************)
EXTENDS Enrolment, TLAPS

(* The parts of the type invariant.                                            *)

PairsType == pair \in [Doors -> Pairs] /\ consent \in BOOLEAN
DoorsType == door \in [Doors -> [face : 0 .. MaxSessions, own : 0 .. MaxSessions, asks : BOOLEAN]]
LanesType == lane \in [Doors -> Seq(Sessions)]
HandsType ==
    hand \in [Doors -> [at : {"rest", "refuse", "others", "sample", "tell"},
                        replaced : BOOLEAN, left : SUBSET Doors, sample : 0 .. MaxSessions]]
CountsType ==
    /\ set \in 0 .. MaxSessions
    /\ asked \in SUBSET Doors /\ erased \in SUBSET Sessions
    /\ holes \subseteq {"overlap", "crossing"}
    /\ ops \in 0 .. MaxOps /\ minted \in 0 .. MaxSessions

Types == PairsType /\ DoorsType /\ LanesType /\ HandsType /\ CountsType

-----------------------------------------------------------------------------
(* The strengthening, for behaviours without overlap or crossing.              *)

\* Requests and reports go through one at a time.
OneAtATime ==
    /\ \A d, e \in Doors : hand[d] # Rest /\ hand[e] # Rest => d = e
    /\ asked # {} => AtRest
    /\ \A d \in asked : ~OnItsWay(d)

\* Without consent no door is to have the person.
NoneWithout == ~consent => asked = {} /\ \A d \in Doors : pair[d] \notin Active

\* The session of a door's capture on its way to its verdict, or 0.
Way(d) == IF door[d].own # 0 THEN door[d].own ELSE IF lane[d] # <<>> THEN lane[d][1] ELSE 0

\* What a door holds, by its pair and by whether a capture of it is on its way.
ShapeOf(d) ==
    /\ pair[d] \notin Active => door[d] = Emptied /\ lane[d] = <<>>
    /\ door[d].own # 0 => lane[d] = <<>> /\ door[d].face = 0
    /\ Len(lane[d]) <= 1
    /\ OnItsWay(d) => ~door[d].asks
    /\ ~OnItsWay(d) => (door[d].asks <=> pair[d] \in Waiting)
    /\ pair[d] \in Waiting /\ lane[d] # <<>> => door[d].face = lane[d][1]
    /\ pair[d] = "ASSIGNED" /\ ~OnItsWay(d) => door[d].face = 0
    /\ hand[d] # Rest => ~OnItsWay(d) /\ pair[d] = "ENROLLED"
Shape == \A d \in Doors : ShapeOf(d)

\* The doors a spread has still to tell.
ToTell(d) ==
    CASE hand[d].at = "others" -> Doors \ {d}
      [] hand[d].at \in {"sample", "tell"} -> hand[d].left
      [] OTHER -> {}
Untold == UNION {ToTell(d) : d \in Doors}

\* Every other door agrees with the set, unless its own capture is still judged.
LevelOf(d) ==
    /\ pair[d] \in {"ENROLLED", "RETAKE"} =>
           OnItsWay(d) \/ hand[d].at = "refuse" \/ door[d].face = set
    /\ pair[d] = "ASSIGNED" => set = 0
Level ==
    /\ \A d \in Doors : pair[d] \in {"ENROLLED", "RETAKE"} => set # 0
    /\ \A d \in Doors : d \notin Untold => LevelOf(d)
    /\ \A d \in Doors : hand[d].at = "tell" => hand[d].sample = set

\* A capture on its way is one door's, and is neither the set nor erased.
Fresh ==
    /\ \A d, e \in Doors : Way(d) # 0 /\ Way(d) = Way(e) => d = e
    /\ \A d \in Doors : Way(d) # 0 => Way(d) # set /\ Way(d) \notin erased
    /\ \A d \in Doors : Way(d) <= minted
    /\ set <= minted /\ set \notin erased
    /\ \A s \in erased : s <= minted

Sound == OneAtATime /\ NoneWithout /\ Shape /\ Level /\ Fresh

IInv == Types /\ NoFaceWithoutConsent /\ (holes = {} => Sound)
-----------------------------------------------------------------------------
(* Types.                                                                      *)

(* Nobody enrolled is well typed. *)
LEMMA InitTypes == Init => Types
BY EnrolmentAssumption
DEF Init, Types, PairsType, DoorsType, LanesType, HandsType, CountsType, Pairs, Sessions, Rest

Held == [face : 0 .. MaxSessions, own : 0 .. MaxSessions, asks : BOOLEAN]
Hand == [at : {"rest", "refuse", "others", "sample", "tell"},
         replaced : BOOLEAN, left : SUBSET Doors, sample : 0 .. MaxSessions]

(* What a door makes of a push, or of a drop, is a face, a capture and an ask. *)
LEMMA HeldAfter ==
    /\ Emptied \in Held
    /\ \A held \in Held, s \in 0 .. MaxSessions : Pushed(held, s) \in Held /\ Told(held, s) \in Held
    /\ \A held \in Held, a \in BOOLEAN : [held EXCEPT !.asks = a] \in Held
<1>1. Emptied \in Held
  BY EnrolmentAssumption DEF Emptied, Held
<1>2. \A held \in Held, s \in 0 .. MaxSessions : Pushed(held, s) \in Held
  BY DEF Pushed, Held
<1>3. \A held \in Held, s \in 0 .. MaxSessions : Told(held, s) \in Held
  BY <1>2 DEF Told
<1>4. \A held \in Held, a \in BOOLEAN : [held EXCEPT !.asks = a] \in Held
  BY DEF Held
<1> QED BY <1>1, <1>2, <1>3, <1>4

(* What a door is to hold stays a state of its pair. *)
LEMMA PairsKept ==
    ASSUME PairsType, [Next]_vars
    PROVE  PairsType'
<1>1. ASSUME NEW d \in Doors, AskAssign(d) PROVE PairsType'
  BY <1>1 DEF AskAssign, Dashboard, Noted, PairsType, Pairs
<1>2. ASSUME NEW d \in Doors, Assign(d) PROVE PairsType'
  BY <1>2 DEF Assign, Noted, Pushed, PairsType, Pairs
<1>3. ASSUME NEW d \in Doors, Revoke(d) PROVE PairsType'
  BY <1>3 DEF Revoke, Dashboard, Noted, Emptied, PairsType, Pairs
<1>4. CASE Withdraw
  BY <1>4 DEF Withdraw, Dashboard, Noted, Emptied, PairsType, Pairs
<1>5. CASE Grant
  BY <1>5 DEF Grant, Dashboard, Noted, PairsType, Pairs
<1>6. ASSUME NEW d \in Doors, Capture(d) PROVE PairsType'
  BY <1>6 DEF Capture, Noted, PairsType, Pairs
<1>7. ASSUME NEW d \in Doors, Report(d) PROVE PairsType'
  BY <1>7 DEF Report, PairsType, Pairs
<1>8. ASSUME NEW d \in Doors, TakeSample(d) PROVE PairsType'
  BY <1>8 DEF TakeSample, Noted, Emptied, HandOn, Rest, PairsType, Pairs
<1>9. ASSUME NEW d \in Doors, Refuse(d) PROVE PairsType'
  BY <1>9 DEF Refuse, Emptied, Told, Pushed, Rest, PairsType, Pairs
<1>10. ASSUME NEW d \in Doors, SpreadOthers(d) PROVE PairsType'
  BY <1>10 DEF SpreadOthers, PairsType, Pairs
<1>11. ASSUME NEW d \in Doors, SpreadSample(d) PROVE PairsType'
  BY <1>11 DEF SpreadSample, Rest, PairsType, Pairs
<1>12. ASSUME NEW d \in Doors, NEW w \in Doors, SpreadTell(d, w) PROVE PairsType'
  BY <1>12 DEF SpreadTell, Pushed, Emptied, Rest, PairsType, Pairs
<1>13. CASE UNCHANGED vars
  BY <1>13 DEF vars, PairsType, Pairs
<1> QED BY <1>1, <1>2, <1>3, <1>4, <1>5, <1>6, <1>7, <1>8, <1>9, <1>10, <1>11, <1>12, <1>13 DEF Next

(* Faces and captures stay numbers of sessions. *)
LEMMA DoorsKept ==
    ASSUME PairsType, DoorsType, LanesType, HandsType, CountsType, [Next]_vars
    PROVE  DoorsType'
<1> USE EnrolmentAssumption
<1>1. ASSUME NEW d \in Doors, AskAssign(d) PROVE DoorsType'
  BY <1>1 DEF AskAssign, Dashboard, Noted, PairsType, DoorsType, LanesType, HandsType,
      CountsType, Sessions
<1>2. ASSUME NEW d \in Doors, Assign(d) PROVE DoorsType'
  <2>1. Pushed(door[d], set) \in Held
    BY HeldAfter DEF DoorsType, CountsType, Held
  <2>2. \/ door' = [door EXCEPT ![d].asks = TRUE]
        \/ door' = [door EXCEPT ![d] = Pushed(door[d], set)]
    BY <1>2 DEF Assign
  <2> QED BY <2>1, <2>2 DEF DoorsType, Held
<1>3. ASSUME NEW d \in Doors, Revoke(d) PROVE DoorsType'
  BY <1>3 DEF Revoke, Dashboard, Noted, Emptied, PairsType, DoorsType, LanesType,
      HandsType, CountsType, Sessions
<1>4. CASE Withdraw
  BY <1>4 DEF Withdraw, Dashboard, Noted, Emptied, PairsType, DoorsType, LanesType,
      HandsType, CountsType, Sessions
<1>5. CASE Grant
  BY <1>5 DEF Grant, Dashboard, Noted, PairsType, DoorsType, LanesType, HandsType,
      CountsType, Sessions
<1>6. ASSUME NEW d \in Doors, Capture(d) PROVE DoorsType'
  BY <1>6 DEF Capture, Noted, PairsType, DoorsType, LanesType, HandsType, CountsType,
      Sessions
<1>7. ASSUME NEW d \in Doors, Report(d) PROVE DoorsType'
  <2>1. door' = [door EXCEPT ![d] = [door[d] EXCEPT !.face = door[d].own, !.own = 0]]
    BY <1>7 DEF Report
  <2>2. door[d] \in Held /\ door[d].own \in 0 .. MaxSessions /\ 0 \in 0 .. MaxSessions
    BY DEF DoorsType, Held
  <2>3. [door[d] EXCEPT !.face = door[d].own, !.own = 0] \in Held
    BY <2>2 DEF Held
  <2> QED BY <2>1, <2>3 DEF DoorsType, Held
<1>8. ASSUME NEW d \in Doors, TakeSample(d) PROVE DoorsType'
  <2>1. door' = door \/ door' = [door EXCEPT ![d] = Emptied]
    BY <1>8 DEF TakeSample
  <2> QED BY <2>1, HeldAfter DEF DoorsType, Held
<1>9. ASSUME NEW d \in Doors, Refuse(d) PROVE DoorsType'
  <2> DEFINE told == [Told(Emptied, set) EXCEPT !.asks = pair[d] \in Waiting]
  <2>1. door' = [door EXCEPT ![d] = Emptied] \/ door' = [door EXCEPT ![d] = told]
    BY <1>9 DEF Refuse
  <2>2. Told(Emptied, set) \in Held
    BY HeldAfter DEF CountsType
  <2>3. told \in Held
    BY <2>2, HeldAfter, (pair[d] \in Waiting) \in BOOLEAN
  <2> HIDE DEF told
  <2> QED BY <2>1, <2>3, HeldAfter DEF DoorsType, Held
<1>10. ASSUME NEW d \in Doors, SpreadOthers(d) PROVE DoorsType'
  BY <1>10 DEF SpreadOthers, PairsType, DoorsType, LanesType, HandsType, CountsType,
      Sessions
<1>11. ASSUME NEW d \in Doors, SpreadSample(d) PROVE DoorsType'
  BY <1>11 DEF SpreadSample, Rest, PairsType, DoorsType, LanesType, HandsType, CountsType,
      Sessions
<1>12. ASSUME NEW d \in Doors, NEW w \in Doors, SpreadTell(d, w) PROVE DoorsType'
  <2> DEFINE from == IF hand[d].replaced THEN Emptied ELSE door[w]
  <2>1. door' = door \/ door' = [door EXCEPT ![w] = Pushed(from, hand[d].sample)]
    BY <1>12 DEF SpreadTell
  <2>2. from \in Held
    BY HeldAfter DEF DoorsType, Held
  <2>3. hand[d].sample \in 0 .. MaxSessions
    BY DEF HandsType
  <2>4. Pushed(from, hand[d].sample) \in Held
    BY <2>2, <2>3, HeldAfter
  <2> QED BY <2>1, <2>4 DEF DoorsType, Held
<1>13. CASE UNCHANGED vars
  BY <1>13 DEF vars, PairsType, DoorsType, LanesType, HandsType, CountsType, Sessions
<1> QED BY <1>1, <1>2, <1>3, <1>4, <1>5, <1>6, <1>7, <1>8, <1>9, <1>10, <1>11, <1>12, <1>13 DEF Next

(* The lane of a door holds captures. *)
LEMMA LanesKept ==
    ASSUME PairsType, DoorsType, LanesType, HandsType, CountsType, [Next]_vars
    PROVE  LanesType'
<1> USE EnrolmentAssumption
<1>1. ASSUME NEW d \in Doors, AskAssign(d) PROVE LanesType'
  BY <1>1 DEF AskAssign, Dashboard, Noted, PairsType, DoorsType, LanesType, HandsType,
      CountsType, Sessions
<1>2. ASSUME NEW d \in Doors, Assign(d) PROVE LanesType'
  BY <1>2 DEF Assign, Noted, Pushed, PairsType, DoorsType, LanesType, HandsType,
      CountsType, Sessions
<1>3. ASSUME NEW d \in Doors, Revoke(d) PROVE LanesType'
  BY <1>3 DEF Revoke, Dashboard, Noted, Emptied, PairsType, DoorsType, LanesType,
      HandsType, CountsType, Sessions
<1>4. CASE Withdraw
  BY <1>4 DEF Withdraw, Dashboard, Noted, Emptied, PairsType, DoorsType, LanesType,
      HandsType, CountsType, Sessions
<1>5. CASE Grant
  BY <1>5 DEF Grant, Dashboard, Noted, PairsType, DoorsType, LanesType, HandsType,
      CountsType, Sessions
<1>6. ASSUME NEW d \in Doors, Capture(d) PROVE LanesType'
  BY <1>6 DEF Capture, Noted, PairsType, DoorsType, LanesType, HandsType, CountsType,
      Sessions
<1>7. ASSUME NEW d \in Doors, Report(d) PROVE LanesType'
  BY <1>7 DEF Report, PairsType, DoorsType, LanesType, HandsType, CountsType, Sessions
<1>8. ASSUME NEW d \in Doors, TakeSample(d) PROVE LanesType'
  BY <1>8 DEF TakeSample, Noted, Emptied, HandOn, Rest, PairsType, DoorsType, LanesType,
      HandsType, CountsType, Sessions
<1>9. ASSUME NEW d \in Doors, Refuse(d) PROVE LanesType'
  BY <1>9 DEF Refuse, Emptied, Told, Pushed, Rest, PairsType, DoorsType, LanesType,
      HandsType, CountsType, Sessions
<1>10. ASSUME NEW d \in Doors, SpreadOthers(d) PROVE LanesType'
  BY <1>10 DEF SpreadOthers, PairsType, DoorsType, LanesType, HandsType, CountsType,
      Sessions
<1>11. ASSUME NEW d \in Doors, SpreadSample(d) PROVE LanesType'
  BY <1>11 DEF SpreadSample, Rest, PairsType, DoorsType, LanesType, HandsType, CountsType,
      Sessions
<1>12. ASSUME NEW d \in Doors, NEW w \in Doors, SpreadTell(d, w) PROVE LanesType'
  BY <1>12 DEF SpreadTell, Pushed, Emptied, Rest, PairsType, DoorsType, LanesType,
      HandsType, CountsType, Sessions
<1>13. CASE UNCHANGED vars
  BY <1>13 DEF vars, PairsType, DoorsType, LanesType, HandsType, CountsType, Sessions
<1> QED BY <1>1, <1>2, <1>3, <1>4, <1>5, <1>6, <1>7, <1>8, <1>9, <1>10, <1>11, <1>12, <1>13 DEF Next

(* At rest, and at the first step of what it goes on to, a handler is one. *)
LEMMA RestIsHand ==
    /\ Rest \in Hand
    /\ \A at \in {"others", "refuse"}, replaced \in BOOLEAN :
          [Rest EXCEPT !.at = at, !.replaced = replaced] \in Hand
<1>1. 0 \in 0 .. MaxSessions
  BY EnrolmentAssumption
<1> QED BY <1>1 DEF Rest, Hand

(* A handler keeps to its steps. *)
LEMMA HandsKept ==
    ASSUME PairsType, DoorsType, LanesType, HandsType, CountsType, [Next]_vars
    PROVE  HandsType'
<1> USE EnrolmentAssumption
<1>1. ASSUME NEW d \in Doors, AskAssign(d) PROVE HandsType'
  BY <1>1 DEF AskAssign, Dashboard, Noted, PairsType, DoorsType, LanesType, HandsType,
      CountsType, Rest
<1>2. ASSUME NEW d \in Doors, Assign(d) PROVE HandsType'
  BY <1>2 DEF Assign, Noted, Pushed, PairsType, DoorsType, LanesType, HandsType,
      CountsType, Rest
<1>3. ASSUME NEW d \in Doors, Revoke(d) PROVE HandsType'
  BY <1>3 DEF Revoke, Dashboard, Noted, Emptied, PairsType, DoorsType, LanesType,
      HandsType, CountsType, Rest
<1>4. CASE Withdraw
  BY <1>4 DEF Withdraw, Dashboard, Noted, Emptied, PairsType, DoorsType, LanesType,
      HandsType, CountsType, Rest
<1>5. CASE Grant
  BY <1>5 DEF Grant, Dashboard, Noted, PairsType, DoorsType, LanesType, HandsType,
      CountsType, Rest
<1>6. ASSUME NEW d \in Doors, Capture(d) PROVE HandsType'
  BY <1>6 DEF Capture, Noted, PairsType, DoorsType, LanesType, HandsType, CountsType, Rest
<1>7. ASSUME NEW d \in Doors, Report(d) PROVE HandsType'
  BY <1>7 DEF Report, PairsType, DoorsType, LanesType, HandsType, CountsType, Rest
<1>8. ASSUME NEW d \in Doors, TakeSample(d) PROVE HandsType'
  <2>1. \/ hand' = hand
        \/ HandOn(d, "others", set # 0) \/ HandOn(d, "others", FALSE)
        \/ HandOn(d, "refuse", FALSE)
    BY <1>8 DEF TakeSample
  <2>2. ASSUME NEW at \in {"others", "refuse"}, NEW replaced \in BOOLEAN,
               HandOn(d, at, replaced)
        PROVE  HandsType'
    <3>1. [Rest EXCEPT !.at = at, !.replaced = replaced] \in Hand
      BY RestIsHand
    <3> QED BY <2>2, <3>1 DEF HandsType, Hand, HandOn
  <2>3. hand' = hand => HandsType'
    BY DEF HandsType
  <2> QED BY <2>1, <2>2, <2>3, (set # 0) \in BOOLEAN
<1>9. ASSUME NEW d \in Doors, Refuse(d) PROVE HandsType'
  BY <1>9 DEF Refuse, Emptied, Told, Pushed, Rest, PairsType, DoorsType, LanesType,
      HandsType, CountsType, Rest
<1>10. ASSUME NEW d \in Doors, SpreadOthers(d) PROVE HandsType'
  BY <1>10 DEF SpreadOthers, PairsType, DoorsType, LanesType, HandsType, CountsType, Rest
<1>11. ASSUME NEW d \in Doors, SpreadSample(d) PROVE HandsType'
  <2> DEFINE next == IF set = 0 \/ hand[d].left = {} THEN Rest
                     ELSE [hand[d] EXCEPT !.at = "tell", !.sample = set]
  <2>1. hand' = [hand EXCEPT ![d] = next]
    BY <1>11 DEF SpreadSample
  <2>2. next \in Hand
    BY RestIsHand DEF HandsType, Hand, CountsType
  <2> QED BY <2>1, <2>2 DEF HandsType, Hand
<1>12. ASSUME NEW d \in Doors, NEW w \in Doors, SpreadTell(d, w) PROVE HandsType'
  <2> DEFINE next == IF hand[d].left = {w} THEN Rest
                     ELSE [hand[d] EXCEPT !.left = hand[d].left \ {w}]
  <2>1. hand' = [hand EXCEPT ![d] = next]
    BY <1>12 DEF SpreadTell
  <2>2. next \in Hand
    BY RestIsHand DEF HandsType, Hand
  <2> QED BY <2>1, <2>2 DEF HandsType, Hand
<1>13. CASE UNCHANGED vars
  BY <1>13 DEF vars, PairsType, DoorsType, LanesType, HandsType, CountsType, Rest
<1> QED BY <1>1, <1>2, <1>3, <1>4, <1>5, <1>6, <1>7, <1>8, <1>9, <1>10, <1>11, <1>12, <1>13 DEF Next

(* The set, the requests and what was erased stay of their types. *)
LEMMA CountsKept ==
    ASSUME PairsType, DoorsType, LanesType, HandsType, CountsType, [Next]_vars
    PROVE  CountsType'
<1> USE EnrolmentAssumption
<1>1. ASSUME NEW d \in Doors, AskAssign(d) PROVE CountsType'
  BY <1>1 DEF AskAssign, Dashboard, Noted, PairsType, DoorsType, LanesType, HandsType,
      CountsType, Sessions
<1>2. ASSUME NEW d \in Doors, Assign(d) PROVE CountsType'
  BY <1>2 DEF Assign, Noted, Pushed, PairsType, DoorsType, LanesType, HandsType,
      CountsType, Sessions
<1>3. ASSUME NEW d \in Doors, Revoke(d) PROVE CountsType'
  BY <1>3 DEF Revoke, Dashboard, Noted, Emptied, PairsType, DoorsType, LanesType,
      HandsType, CountsType, Sessions
<1>4. CASE Withdraw
  BY <1>4 DEF Withdraw, Dashboard, Noted, Emptied, PairsType, DoorsType, LanesType,
      HandsType, CountsType, Sessions
<1>5. CASE Grant
  BY <1>5 DEF Grant, Dashboard, Noted, PairsType, DoorsType, LanesType, HandsType,
      CountsType, Sessions
<1>6. ASSUME NEW d \in Doors, Capture(d) PROVE CountsType'
  BY <1>6 DEF Capture, Noted, PairsType, DoorsType, LanesType, HandsType, CountsType,
      Sessions
<1>7. ASSUME NEW d \in Doors, Report(d) PROVE CountsType'
  BY <1>7 DEF Report, PairsType, DoorsType, LanesType, HandsType, CountsType, Sessions
<1>8. ASSUME NEW d \in Doors, TakeSample(d) PROVE CountsType'
  BY <1>8 DEF TakeSample, Noted, Emptied, HandOn, Rest, PairsType, DoorsType, LanesType,
      HandsType, CountsType, Sessions
<1>9. ASSUME NEW d \in Doors, Refuse(d) PROVE CountsType'
  BY <1>9 DEF Refuse, Emptied, Told, Pushed, Rest, PairsType, DoorsType, LanesType,
      HandsType, CountsType, Sessions
<1>10. ASSUME NEW d \in Doors, SpreadOthers(d) PROVE CountsType'
  BY <1>10 DEF SpreadOthers, PairsType, DoorsType, LanesType, HandsType, CountsType,
      Sessions
<1>11. ASSUME NEW d \in Doors, SpreadSample(d) PROVE CountsType'
  BY <1>11 DEF SpreadSample, Rest, PairsType, DoorsType, LanesType, HandsType, CountsType,
      Sessions
<1>12. ASSUME NEW d \in Doors, NEW w \in Doors, SpreadTell(d, w) PROVE CountsType'
  BY <1>12 DEF SpreadTell, Pushed, Emptied, Rest, PairsType, DoorsType, LanesType,
      HandsType, CountsType, Sessions
<1>13. CASE UNCHANGED vars
  BY <1>13 DEF vars, PairsType, DoorsType, LanesType, HandsType, CountsType, Sessions
<1> QED BY <1>1, <1>2, <1>3, <1>4, <1>5, <1>6, <1>7, <1>8, <1>9, <1>10, <1>11, <1>12, <1>13 DEF Next

(* No step leaves a face without consent. *)
LEMMA ConsentKept ==
    ASSUME Types, NoFaceWithoutConsent, [Next]_vars
    PROVE  NoFaceWithoutConsent'
<1>1. ASSUME NEW d \in Doors, AskAssign(d) PROVE NoFaceWithoutConsent'
  BY <1>1 DEF AskAssign, Dashboard, Noted, NoFaceWithoutConsent, Types, CountsType,
      PairsType, Consented
<1>2. ASSUME NEW d \in Doors, Assign(d) PROVE NoFaceWithoutConsent'
  BY <1>2 DEF Assign, Noted, Pushed, NoFaceWithoutConsent, Types, CountsType, PairsType,
      Consented
<1>3. ASSUME NEW d \in Doors, Revoke(d) PROVE NoFaceWithoutConsent'
  BY <1>3 DEF Revoke, Dashboard, Noted, Emptied, NoFaceWithoutConsent, Types, CountsType,
      PairsType, Consented
<1>4. CASE Withdraw
  BY <1>4 DEF Withdraw, Dashboard, Noted, Emptied, NoFaceWithoutConsent, Types, CountsType,
      PairsType, Consented
<1>5. CASE Grant
  BY <1>5 DEF Grant, Dashboard, Noted, NoFaceWithoutConsent, Types, CountsType, PairsType,
      Consented
<1>6. ASSUME NEW d \in Doors, Capture(d) PROVE NoFaceWithoutConsent'
  BY <1>6 DEF Capture, Noted, NoFaceWithoutConsent, Types, CountsType, PairsType, Consented
<1>7. ASSUME NEW d \in Doors, Report(d) PROVE NoFaceWithoutConsent'
  BY <1>7 DEF Report, NoFaceWithoutConsent, Types, CountsType, PairsType, Consented
<1>8. ASSUME NEW d \in Doors, TakeSample(d) PROVE NoFaceWithoutConsent'
  BY <1>8 DEF TakeSample, Noted, Emptied, HandOn, Rest, NoFaceWithoutConsent, Types,
      CountsType, PairsType, Consented
<1>9. ASSUME NEW d \in Doors, Refuse(d) PROVE NoFaceWithoutConsent'
  BY <1>9 DEF Refuse, Emptied, Told, Pushed, Rest, NoFaceWithoutConsent, Types, CountsType,
      PairsType, Consented
<1>10. ASSUME NEW d \in Doors, SpreadOthers(d) PROVE NoFaceWithoutConsent'
  BY <1>10 DEF SpreadOthers, NoFaceWithoutConsent, Types, CountsType, PairsType, Consented
<1>11. ASSUME NEW d \in Doors, SpreadSample(d) PROVE NoFaceWithoutConsent'
  BY <1>11 DEF SpreadSample, Rest, NoFaceWithoutConsent, Types, CountsType, PairsType,
      Consented
<1>12. ASSUME NEW d \in Doors, NEW w \in Doors, SpreadTell(d, w) PROVE NoFaceWithoutConsent'
  BY <1>12 DEF SpreadTell, Pushed, Emptied, Rest, NoFaceWithoutConsent, Types, CountsType,
      PairsType, Consented
<1>13. CASE UNCHANGED vars
  BY <1>13 DEF vars, NoFaceWithoutConsent, Types, CountsType, PairsType, Consented
<1> QED BY <1>1, <1>2, <1>3, <1>4, <1>5, <1>6, <1>7, <1>8, <1>9, <1>10, <1>11, <1>12, <1>13 DEF Next

-----------------------------------------------------------------------------
(* Without overlap or crossing: where the handlers stand.                      *)

(* A step that leaves no hole met none before and made none. *)
LEMMA NoHole ==
    ASSUME NEW overlaps, NEW crosses, Noted(overlaps, crosses), holes' = {}
    PROVE  ~overlaps /\ ~crosses /\ holes = {}
BY DEF Noted

(* While every handler rests there is nothing left to tell. *)
LEMMA RestUntold == AtRest => Untold = {}
BY DEF AtRest, Untold, ToTell, Rest

(* The one handler at work has the doors left to tell. *)
LEMMA OneUntold ==
    ASSUME OneAtATime, NEW d \in Doors, hand[d] # Rest
    PROVE  Untold = ToTell(d)
<1>1. \A e \in Doors \ {d} : hand[e] = Rest
  BY DEF OneAtATime
<1>2. \A e \in Doors \ {d} : ToTell(e) = {}
  BY <1>1 DEF ToTell, Rest
<1> QED BY <1>2 DEF Untold

(* A lane of one capture, and of one more. *)
LEMMA Lanes ==
    ASSUME LanesType, NEW d \in Doors
    PROVE  /\ lane[d] \in Seq(Sessions)
           /\ lane[d] # <<>> => Head(lane[d]) = lane[d][1] /\ lane[d][1] \in Sessions
           /\ lane[d] # <<>> /\ Len(lane[d]) <= 1 => Tail(lane[d]) = <<>>
<1>1. lane[d] \in Seq(Sessions)
  BY DEF LanesType
<1>2. lane[d] # <<>> => Head(lane[d]) = lane[d][1] /\ lane[d][1] \in Sessions
  BY <1>1
<1>3. ASSUME lane[d] # <<>>, Len(lane[d]) <= 1
      PROVE  Tail(lane[d]) = <<>>
  <2>1. Tail(lane[d]) \in Seq(Sessions) /\ Len(Tail(lane[d])) = Len(lane[d]) - 1
    BY <1>1, <1>3
  <2>2. Len(lane[d]) \in Nat /\ Len(lane[d]) # 0
    BY <1>1, <1>3
  <2> QED BY <2>1, <2>2, <1>3
<1> QED BY <1>1, <1>2, <1>3

(* A capture is on its way under its number, and no other is. *)
LEMMA WayIs ==
    ASSUME LanesType, DoorsType, NEW d \in Doors
    PROVE  (Way(d) # 0 <=> OnItsWay(d)) /\ Way(d) \in 0 .. MaxSessions
BY Lanes, EnrolmentAssumption DEF Way, OnItsWay, DoorsType, Sessions

-----------------------------------------------------------------------------
(* The requests of the dashboard keep it.                                      *)

(* An assignment asked for changes nothing yet. *)
LEMMA AskAssignKeeps ==
    ASSUME Types, Sound, holes' = {}, NEW d \in Doors, AskAssign(d)
    PROVE  Sound'
<1> USE DEF Sound
<1>1. ~InHand /\ ~OnItsWay(d)
  BY NoHole DEF AskAssign, Dashboard
<1>2. UNCHANGED <<pair, set, consent, door, lane, hand, erased, minted>>
  BY DEF AskAssign
<1>3. consent /\ asked' = {d}
  BY <1>1 DEF AskAssign, InHand
<1>4. OneAtATime'
  BY <1>1, <1>2, <1>3 DEF OneAtATime, InHand, AtRest, OnItsWay
<1>5. NoneWithout'
  BY <1>2, <1>3 DEF NoneWithout
<1>6. Shape'
  BY <1>2 DEF Shape, ShapeOf, OnItsWay
<1>7. Level'
  BY <1>2 DEF Level, LevelOf, OnItsWay, Untold, ToTell
<1>8. Fresh'
  BY <1>2 DEF Fresh, Way
<1> QED BY <1>4, <1>5, <1>6, <1>7, <1>8

(* A grant meets no door that waits. *)
LEMMA GrantKeeps ==
    ASSUME Types, Sound, holes' = {}, Grant
    PROVE  Sound'
<1> USE DEF Sound
<1>1. UNCHANGED <<pair, set, door, lane, hand, asked, erased, minted>> /\ consent'
  BY DEF Grant
<1>2. OneAtATime'
  BY <1>1 DEF OneAtATime, AtRest, OnItsWay
<1>3. NoneWithout'
  BY <1>1 DEF NoneWithout
<1>4. Shape'
  BY <1>1 DEF Shape, ShapeOf, OnItsWay
<1>5. Level'
  BY <1>1 DEF Level, LevelOf, OnItsWay, Untold, ToTell
<1>6. Fresh'
  BY <1>1 DEF Fresh, Way
<1> QED BY <1>2, <1>3, <1>4, <1>5, <1>6

(* A door assigned is sent the set, or asked for a capture if there is none. *)
LEMMA AssignKeeps ==
    ASSUME Types, Sound, holes' = {}, NEW d \in Doors, Assign(d)
    PROVE  Sound'
<1> USE DEF Sound
<1>1. AtRest /\ d \in asked /\ asked' = asked \ {d} /\ ~OnItsWay(d)
  BY NoHole DEF Assign, OneAtATime
<1>2. UNCHANGED <<set, consent, lane, hand, erased, minted>>
  BY DEF Assign
<1>3. consent /\ Untold = {} /\ Untold' = {}
  BY <1>1, <1>2, RestUntold DEF NoneWithout, Untold, ToTell
<1>4. door[d].own = 0 /\ lane[d] = <<>> /\ door \in [Doors -> Held] /\ pair \in [Doors -> Pairs]
  BY <1>1 DEF OnItsWay, Types, DoorsType, Held, PairsType
<1>5. \A e \in Doors \ {d} : door'[e] = door[e] /\ pair'[e] = pair[e]
  BY <1>4 DEF Assign
<1>6. /\ door'[d].own = 0
      /\ \/ pair'[d] = "RETAKE" /\ door'[d].asks /\ door'[d].face = door[d].face
            /\ pair[d] \in {"ENROLLED", "RETAKE"}
         \/ pair'[d] = "ENROLLED" /\ ~door'[d].asks /\ door'[d].face = set /\ set # 0
         \/ pair'[d] = "ASSIGNED" /\ door'[d].asks /\ door'[d].face = door[d].face /\ set = 0
            /\ pair[d] \notin {"ENROLLED", "RETAKE"}
  <2>1. CASE pair[d] \in {"ENROLLED", "RETAKE"}
    BY <1>4, <2>1 DEF Assign, Held
  <2>2. CASE pair[d] \notin {"ENROLLED", "RETAKE"} /\ set # 0
    BY <1>4, <2>2 DEF Assign, Pushed, Held
  <2>3. CASE pair[d] \notin {"ENROLLED", "RETAKE"} /\ set = 0
    BY <1>4, <2>3 DEF Assign, Held
  <2> QED BY <2>1, <2>2, <2>3
<1>7. \A e \in Doors : Way(e)' = Way(e) /\ (OnItsWay(e)' <=> OnItsWay(e))
  BY <1>2, <1>4, <1>5, <1>6 DEF Way, OnItsWay
<1>8. OneAtATime'
  BY <1>1, <1>2, <1>7 DEF OneAtATime, AtRest, Types, CountsType
<1>9. NoneWithout'
  BY <1>2, <1>3 DEF NoneWithout
<1>10. Shape'
  <2>1. ShapeOf(d)'
    BY <1>1, <1>2, <1>4, <1>6, <1>7 DEF Shape, ShapeOf, AtRest, Active, Waiting, Emptied, Pairs
  <2>2. \A e \in Doors \ {d} : ShapeOf(e)'
    BY <1>2, <1>5, <1>7 DEF Shape, ShapeOf
  <2> QED BY <2>1, <2>2 DEF Shape
<1>11. Level'
  <2>1. LevelOf(d)' /\ (pair'[d] \in {"ENROLLED", "RETAKE"} => set # 0)
    BY <1>1, <1>2, <1>3, <1>6, <1>7 DEF Level, LevelOf, AtRest, Rest
  <2>2. \A e \in Doors \ {d} : LevelOf(e)' /\ (pair'[e] \in {"ENROLLED", "RETAKE"} => set # 0)
    BY <1>2, <1>3, <1>5, <1>7 DEF Level, LevelOf
  <2> QED BY <1>1, <1>2, <2>1, <2>2 DEF Level, AtRest, Rest
<1>12. Fresh'
  BY <1>2, <1>7 DEF Fresh
<1> QED BY <1>8, <1>9, <1>10, <1>11, <1>12

(* A revoked door is emptied. *)
LEMMA RevokeKeeps ==
    ASSUME Types, Sound, holes' = {}, NEW d \in Doors, Revoke(d)
    PROVE  Sound'
<1> USE DEF Sound
<1>1. AtRest /\ asked = {} /\ ~OnItsWay(d)
  BY NoHole DEF Revoke, Dashboard, InHand
<1>2. UNCHANGED <<set, consent, lane, hand, asked, erased, minted>>
  BY DEF Revoke
<1>3. Untold = {} /\ Untold' = {}
  BY <1>1, <1>2, RestUntold DEF Untold, ToTell
<1>4. door[d].own = 0 /\ lane[d] = <<>> /\ door \in [Doors -> Held] /\ pair \in [Doors -> Pairs]
  BY <1>1 DEF OnItsWay, Types, DoorsType, Held, PairsType
<1>5. \A e \in Doors \ {d} : door'[e] = door[e] /\ pair'[e] = pair[e]
  BY <1>4 DEF Revoke
<1>6. door'[d] = Emptied /\ pair'[d] = "REVOKED"
  BY <1>4 DEF Revoke
<1>7. \A e \in Doors : Way(e)' = Way(e) /\ (OnItsWay(e)' <=> OnItsWay(e))
  BY <1>2, <1>4, <1>5, <1>6 DEF Way, OnItsWay, Emptied
<1>8. OneAtATime'
  BY <1>1, <1>2, <1>7 DEF OneAtATime, AtRest
<1>9. NoneWithout'
  BY <1>2, <1>5, <1>6 DEF NoneWithout, Active
<1>10. Shape'
  <2>1. ShapeOf(d)'
    BY <1>1, <1>2, <1>4, <1>6, <1>7 DEF ShapeOf, AtRest, Active, Waiting, Emptied
  <2>2. \A e \in Doors \ {d} : ShapeOf(e)'
    BY <1>2, <1>5, <1>7 DEF Shape, ShapeOf
  <2> QED BY <2>1, <2>2 DEF Shape
<1>11. Level'
  <2>1. \A e \in Doors : LevelOf(e)' /\ (pair'[e] \in {"ENROLLED", "RETAKE"} => set # 0)
    BY <1>2, <1>3, <1>5, <1>6, <1>7 DEF Level, LevelOf
  <2> QED BY <1>1, <1>2, <2>1 DEF Level, AtRest, Rest
<1>12. Fresh'
  BY <1>2, <1>7 DEF Fresh
<1> QED BY <1>8, <1>9, <1>10, <1>11, <1>12

(* A withdrawal erases the set and empties every door. *)
LEMMA WithdrawKeeps ==
    ASSUME Types, Sound, holes' = {}, Withdraw
    PROVE  Sound'
<1> USE DEF Sound
<1>1. AtRest /\ asked = {} /\ \A d \in Doors : pair[d] # "NONE" => ~OnItsWay(d)
  BY NoHole DEF Withdraw, Dashboard, InHand
<1>2. UNCHANGED <<lane, hand, asked, minted>> /\ set' = 0 /\ erased' = erased \cup ({set} \ {0})
  BY DEF Withdraw
<1>3. \A d \in Doors : ~OnItsWay(d) /\ door'[d] = Emptied /\ pair'[d] \notin Active
  BY <1>1 DEF Withdraw, Shape, ShapeOf, OnItsWay, Emptied, Active
<1>4. \A d \in Doors : ~OnItsWay(d)' /\ lane[d] = <<>>
  BY <1>2, <1>3 DEF OnItsWay, Emptied
<1>5. OneAtATime'
  BY <1>1, <1>2 DEF OneAtATime, AtRest
<1>6. NoneWithout'
  BY <1>1, <1>2, <1>3 DEF NoneWithout
<1>7. Shape'
  BY <1>1, <1>2, <1>3, <1>4 DEF Shape, ShapeOf, AtRest, Active, Waiting, Emptied
<1>8. Level'
  BY <1>1, <1>2, <1>3 DEF Level, LevelOf, Active, AtRest, Rest
<1>9. Fresh'
  <2>1. \A d \in Doors : Way(d)' = 0
    BY <1>2, <1>3, <1>4 DEF Way, Emptied
  <2>2. minted \in Nat /\ erased' \subseteq 1 .. MaxSessions
    BY <1>2 DEF Types, CountsType, Sessions
  <2> QED BY <1>2, <2>1, <2>2 DEF Fresh
<1> QED BY <1>5, <1>6, <1>7, <1>8, <1>9

-----------------------------------------------------------------------------
(* The doors keep it.                                                          *)

(* A capture takes a number nobody had. *)
LEMMA CaptureKeeps ==
    ASSUME Types, Sound, holes' = {}, NEW d \in Doors, Capture(d)
    PROVE  Sound'
<1> USE DEF Sound
<1>1. d \notin asked /\ door[d].asks
  BY NoHole DEF Capture
<1>2. UNCHANGED <<pair, set, consent, lane, hand, asked, erased>> /\ minted' = minted + 1
  BY DEF Capture
<1>3. ~OnItsWay(d) /\ lane[d] = <<>> /\ pair[d] \in Waiting /\ hand[d] = Rest
  BY <1>1 DEF Shape, ShapeOf, OnItsWay, Waiting
<1>4. door \in [Doors -> Held] /\ minted \in 0 .. MaxSessions /\ set \in Nat
  BY DEF Types, DoorsType, Held, CountsType
<1>5. \A e \in Doors \ {d} : door'[e] = door[e]
  BY <1>4 DEF Capture
<1>6. door'[d] = [face |-> 0, own |-> minted + 1, asks |-> FALSE]
  BY <1>4 DEF Capture
<1>7. Way(d)' = minted + 1 /\ OnItsWay(d)'
  BY <1>4, <1>6 DEF Way, OnItsWay
<1>8. \A e \in Doors \ {d} : Way(e)' = Way(e) /\ (OnItsWay(e)' <=> OnItsWay(e))
  BY <1>2, <1>5 DEF Way, OnItsWay
<1>9. OneAtATime'
  BY <1>1, <1>2, <1>8 DEF OneAtATime, AtRest, Types, CountsType
<1>10. NoneWithout'
  BY <1>2 DEF NoneWithout
<1>11. Shape'
  <2>1. ShapeOf(d)'
    BY <1>2, <1>3, <1>6, <1>7 DEF ShapeOf, Active, Waiting
  <2>2. \A e \in Doors \ {d} : ShapeOf(e)'
    BY <1>2, <1>5, <1>8 DEF Shape, ShapeOf
  <2> QED BY <2>1, <2>2 DEF Shape
<1>12. Level'
  <2>1. Untold' = Untold
    BY <1>2 DEF Untold, ToTell
  <2>2. \A e \in Doors : LevelOf(e) => LevelOf(e)'
    BY <1>2, <1>5, <1>7, <1>8 DEF LevelOf
  <2> QED BY <1>2, <2>1, <2>2 DEF Level
<1>13. Fresh'
  <2>1. \A e \in Doors : Way(e) <= minted /\ Way(e) \in Nat
    BY WayIs DEF Fresh, Types
  <2>2. \A e \in Doors \ {d} : Way(e)' # Way(d)'
    BY <1>4, <1>7, <1>8, <2>1
  <2>3. Way(d)' # set' /\ Way(d)' \notin erased'
    BY <1>2, <1>4, <1>7 DEF Fresh, Types, CountsType, Sessions
  <2>4. \A s \in erased : s \in Nat
    BY DEF Types, CountsType, Sessions
  <2>5. \A x, y \in Doors : Way(x)' # 0 /\ Way(x)' = Way(y)' => x = y
    BY <1>8, <2>2 DEF Fresh
  <2>6. \A x \in Doors : Way(x)' # 0 => Way(x)' # set' /\ Way(x)' \notin erased'
    BY <1>2, <1>8, <2>3 DEF Fresh
  <2>7. \A x \in Doors : Way(x)' <= minted'
    BY <1>2, <1>4, <1>7, <1>8, <2>1
  <2>8. set' <= minted' /\ set' \notin erased' /\ \A s \in erased' : s <= minted'
    BY <1>2, <1>4, <2>4 DEF Fresh
  <2> QED BY <2>5, <2>6, <2>7, <2>8 DEF Fresh
<1> QED BY <1>9, <1>10, <1>11, <1>12, <1>13

(* A report goes from the door to its lane. *)
LEMMA ReportKeeps ==
    ASSUME Types, Sound, holes = {}, NEW d \in Doors, Report(d)
    PROVE  Sound'
<1> USE DEF Sound
<1>1. UNCHANGED <<pair, set, consent, hand, asked, erased, minted>>
  BY DEF Report
<1>2. door[d].own # 0 /\ lane[d] = <<>> /\ OnItsWay(d) /\ hand[d] = Rest
  BY DEF Report, Shape, ShapeOf, OnItsWay
<1>3. door \in [Doors -> Held] /\ lane \in [Doors -> Seq(Sessions)]
  BY DEF Types, DoorsType, LanesType, Held
<1>4. \A e \in Doors \ {d} : door'[e] = door[e] /\ lane'[e] = lane[e]
  BY <1>3 DEF Report
<1>5. door'[d].own = 0 /\ door'[d].face = door[d].own /\ door'[d].asks = door[d].asks
  BY <1>3 DEF Report, Held
<1>6. lane'[d] = <<door[d].own>>
  BY <1>2, <1>3 DEF Report
<1>7. \A e \in Doors : Way(e)' = Way(e) /\ (OnItsWay(e)' <=> OnItsWay(e))
  <2>1. Way(d)' = Way(d) /\ OnItsWay(d)' /\ OnItsWay(d)
    BY <1>2, <1>5, <1>6 DEF Way, OnItsWay
  <2>2. \A e \in Doors \ {d} : Way(e)' = Way(e) /\ (OnItsWay(e)' <=> OnItsWay(e))
    BY <1>4 DEF Way, OnItsWay
  <2> QED BY <2>1, <2>2
<1>8. OneAtATime'
  BY <1>1, <1>7 DEF OneAtATime, AtRest, Types, CountsType
<1>9. NoneWithout'
  BY <1>1 DEF NoneWithout
<1>10. Shape'
  <2>1. ShapeOf(d)'
    BY <1>1, <1>2, <1>5, <1>6, <1>7 DEF Shape, ShapeOf, Emptied
  <2>2. \A e \in Doors \ {d} : ShapeOf(e)'
    BY <1>1, <1>4, <1>7 DEF Shape, ShapeOf
  <2> QED BY <2>1, <2>2 DEF Shape
<1>11. Level'
  <2>1. Untold' = Untold
    BY <1>1 DEF Untold, ToTell
  <2>2. \A e \in Doors : LevelOf(e) => LevelOf(e)'
    BY <1>1, <1>2, <1>4, <1>7 DEF LevelOf
  <2> QED BY <1>1, <2>1, <2>2 DEF Level
<1>12. Fresh'
  BY <1>1, <1>7 DEF Fresh
<1> QED BY <1>8, <1>9, <1>10, <1>11, <1>12

-----------------------------------------------------------------------------
(* The handler of a report keeps it.                                           *)

\* A verdict makes the capture the set, or has the door drop it.
LEMMA TakeSampleKeeps ==
    ASSUME Types, Sound, holes' = {}, NEW d \in Doors, TakeSample(d)
    PROVE  Sound'
<1> USE DEF Sound
<1> DEFINE s == Head(lane[d])
<1>1. AtRest /\ asked = {} /\ lane[d] # <<>>
  BY NoHole DEF TakeSample, InHand
<1>2. /\ OnItsWay(d) /\ s = lane[d][1] /\ Way(d) = s /\ s # set /\ s \notin erased
      /\ Tail(lane[d]) = <<>> /\ door[d].own = 0 /\ s \in Sessions
  BY <1>1, Lanes DEF Shape, ShapeOf, OnItsWay, Way, Fresh, Types, Sessions
<1>3. pair[d] \in Active /\ consent
  BY <1>1 DEF Shape, ShapeOf, NoneWithout
<1>4. /\ door \in [Doors -> Held] /\ lane \in [Doors -> Seq(Sessions)] /\ pair \in [Doors -> Pairs]
      /\ hand \in [Doors -> Hand]
  BY DEF Types, DoorsType, LanesType, Held, PairsType, HandsType, Hand
<1>5. UNCHANGED <<consent, asked, minted, door>> /\ lane' = [lane EXCEPT ![d] = <<>>]
  BY <1>2, <1>3 DEF TakeSample, Consented, Active, Waiting
<1>6. \/ /\ pair[d] \in Waiting /\ set' = s /\ erased' = erased \cup ({set} \ {0})
         /\ pair' = [pair EXCEPT ![d] = "ENROLLED"]
         /\ HandOn(d, "others", set # 0)
      \/ /\ pair[d] = "ENROLLED" /\ UNCHANGED <<pair, set, erased>>
         /\ HandOn(d, "refuse", FALSE)
  BY <1>2, <1>3 DEF TakeSample, Consented, Active, Waiting
<1> HIDE DEF s
<1>7. \A e \in Doors \ {d} : lane'[e] = lane[e] /\ pair'[e] = pair[e] /\ hand'[e] = Rest
  BY <1>1, <1>4, <1>5, <1>6 DEF AtRest, HandOn
<1>8. lane'[d] = <<>> /\ pair'[d] = "ENROLLED" /\ hand'[d].at \in {"others", "refuse"}
  <2>1. ASSUME NEW at, NEW replaced, HandOn(d, at, replaced)
        PROVE  hand'[d].at = at
    BY <1>4, <2>1 DEF HandOn, Rest
  <2>2. pair'[d] = "ENROLLED" /\ lane'[d] = <<>>
    BY <1>4, <1>5, <1>6
  <2> QED BY <1>6, <2>1, <2>2
<1>9. ~OnItsWay(d)' /\ Way(d)' = 0
  BY <1>2, <1>5, <1>8 DEF OnItsWay, Way
<1>10. \A e \in Doors \ {d} : Way(e)' = Way(e) /\ (OnItsWay(e)' <=> OnItsWay(e))
  BY <1>5, <1>7 DEF OnItsWay, Way
<1>11. OneAtATime'
  BY <1>1, <1>5, <1>7 DEF OneAtATime
<1>12. NoneWithout'
  BY <1>3, <1>5 DEF NoneWithout
<1>13. Shape'
  <2>1. ShapeOf(d)'
    BY <1>2, <1>5, <1>8, <1>9 DEF Shape, ShapeOf, Active, Waiting
  <2>2. \A e \in Doors \ {d} : ShapeOf(e)'
    BY <1>5, <1>7, <1>10 DEF Shape, ShapeOf
  <2> QED BY <2>1, <2>2 DEF Shape
<1>14. Untold = {} /\ Untold' = ToTell(d)'
  <2>1. \A e \in Doors \ {d} : ToTell(e)' = {}
    BY <1>7 DEF ToTell, Rest
  <2> QED BY <1>1, <2>1, RestUntold DEF Untold
<1>15. CASE pair[d] \in Waiting
  <2>1. set' = s /\ hand'[d].at = "others" /\ erased' = erased \cup ({set} \ {0})
    BY <1>4, <1>6, <1>15, RestIsHand DEF HandOn, Hand, Waiting
  <2>2. Untold' = Doors \ {d}
    BY <1>14, <2>1 DEF ToTell
  <2>3. LevelOf(d)'
    BY <1>1, <1>2, <1>5, <1>8, <1>15, <2>1 DEF LevelOf, Shape, ShapeOf
  <2>4. Level'
    BY <1>2, <1>7, <2>1, <2>2, <2>3 DEF Level, Sessions, Rest
  <2>5. Fresh'
    <3>1. \A x, y \in Doors : Way(x)' # 0 /\ Way(x)' = Way(y)' => x = y
      BY <1>9, <1>10 DEF Fresh
    <3>2. \A x \in Doors \ {d} : Way(x) # 0 => Way(x) # s
      BY <1>2 DEF Fresh
    <3>3. \A x \in Doors : Way(x)' # 0 => Way(x)' # set' /\ Way(x)' \notin erased'
      BY <1>9, <1>10, <2>1, <3>2 DEF Fresh
    <3>4. \A x \in Doors : Way(x)' <= minted'
      BY <1>5, <1>9, <1>10 DEF Fresh, Types, CountsType
    <3>5. set' <= minted' /\ set' \notin erased' /\ \A x \in erased' : x <= minted'
      BY <1>2, <1>5, <2>1 DEF Fresh
    <3> QED BY <3>1, <3>3, <3>4, <3>5 DEF Fresh
  <2> QED BY <1>11, <1>12, <1>13, <2>4, <2>5
<1>16. CASE pair[d] \notin Waiting
  <2>1. UNCHANGED <<pair, set, erased>> /\ hand'[d].at = "refuse"
    BY <1>4, <1>6, <1>16, RestIsHand DEF HandOn, Hand
  <2>2. Untold' = {}
    BY <1>14, <2>1 DEF ToTell
  <2>3. Level'
    <3>1. \A e \in Doors \ {d} : LevelOf(e)' /\ hand'[e].at # "tell"
      BY <1>1, <1>5, <1>7, <1>10, <1>14, <2>1 DEF Level, LevelOf, Rest, AtRest
    <3>2. LevelOf(d)' /\ hand'[d].at # "tell"
      BY <1>8, <2>1 DEF LevelOf
    <3> QED BY <2>1, <3>1, <3>2 DEF Level
  <2>4. Fresh'
    BY <1>5, <1>9, <1>10, <2>1 DEF Fresh, Types, CountsType
  <2> QED BY <1>11, <1>12, <1>13, <2>3, <2>4
<1> QED BY <1>15, <1>16

(* A refused capture is put back to what the server has. *)
LEMMA RefuseKeeps ==
    ASSUME Types, Sound, holes = {}, NEW d \in Doors, Refuse(d)
    PROVE  Sound'
<1> USE DEF Sound
<1>1. UNCHANGED <<pair, set, consent, lane, asked, erased, minted>>
  BY DEF Refuse
<1>2. hand[d].at = "refuse" /\ hand[d] # Rest
  BY DEF Refuse, Rest
<1>3. ~OnItsWay(d) /\ pair[d] = "ENROLLED" /\ set # 0 /\ lane[d] = <<>> /\ door[d].own = 0
  BY <1>2 DEF Shape, ShapeOf, Level, OnItsWay
<1>4. door \in [Doors -> Held] /\ hand \in [Doors -> Hand]
  BY DEF Types, DoorsType, Held, HandsType, Hand
<1>5. \A e \in Doors \ {d} : door'[e] = door[e] /\ hand'[e] = hand[e] /\ hand[e] = Rest
  BY <1>2, <1>4 DEF Refuse, OneAtATime
<1>6. hand'[d] = Rest /\ door'[d].own = 0 /\ door'[d].face = set /\ ~door'[d].asks
  BY <1>3, <1>4 DEF Refuse, Told, Pushed, Emptied, Held, Active, Waiting
<1>7. \A e \in Doors : Way(e)' = Way(e) /\ (OnItsWay(e)' <=> OnItsWay(e))
  BY <1>1, <1>3, <1>5, <1>6 DEF Way, OnItsWay
<1>8. \A e \in Doors : hand'[e] = Rest
  BY <1>5, <1>6
<1>9. OneAtATime'
  BY <1>1, <1>7, <1>8 DEF OneAtATime, AtRest, Types, CountsType
<1>10. NoneWithout'
  BY <1>1 DEF NoneWithout
<1>11. Shape'
  <2>1. ShapeOf(d)'
    BY <1>1, <1>3, <1>6, <1>7 DEF Shape, ShapeOf, Active, Waiting
  <2>2. \A e \in Doors \ {d} : ShapeOf(e)'
    BY <1>1, <1>5, <1>7 DEF Shape, ShapeOf
  <2> QED BY <2>1, <2>2 DEF Shape
<1>12. Level'
  <2>1. Untold = {}
    BY <1>2, OneUntold DEF ToTell
  <2>2. LevelOf(d)'
    BY <1>1, <1>3, <1>6 DEF LevelOf
  <2>3. \A e \in Doors \ {d} : LevelOf(e)'
    BY <1>1, <1>5, <1>7, <2>1 DEF Level, LevelOf
  <2> QED BY <1>1, <1>8, <2>2, <2>3 DEF Level, Rest
<1>13. Fresh'
  BY <1>1, <1>7 DEF Fresh
<1> QED BY <1>9, <1>10, <1>11, <1>12, <1>13

(* A spread begins with every other door still to tell. *)
LEMMA SpreadOthersKeeps ==
    ASSUME Types, Sound, holes = {}, NEW d \in Doors, SpreadOthers(d)
    PROVE  Sound'
<1> USE DEF Sound
<1>1. UNCHANGED <<pair, set, consent, door, lane, asked, erased, minted>>
  BY DEF SpreadOthers
<1>2. hand[d].at = "others" /\ hand[d] # Rest
  BY DEF SpreadOthers, Rest
<1>3. hand \in [Doors -> Hand]
  BY DEF Types, HandsType, Hand
<1>4. \A e \in Doors \ {d} : hand'[e] = hand[e] /\ hand[e] = Rest
  BY <1>2, <1>3 DEF SpreadOthers, OneAtATime
<1>5. hand'[d].at = "sample" /\ hand'[d].left = {w \in Doors \ {d} : pair[w] \in Active}
  BY <1>3 DEF SpreadOthers, Hand
<1>6. asked = {}
  BY <1>2 DEF OneAtATime, AtRest
<1>7. OneAtATime'
  BY <1>1, <1>4, <1>6 DEF OneAtATime
<1>8. NoneWithout'
  BY <1>1 DEF NoneWithout
<1>9. Shape'
  BY <1>1, <1>2, <1>4 DEF Shape, ShapeOf, OnItsWay
<1>10. Level'
  <2>1. Untold = Doors \ {d}
    BY <1>2, OneUntold DEF ToTell
  <2>2. hand'[d] # Rest /\ ToTell(d)' = {w \in Doors \ {d} : pair[w] \in Active}
    BY <1>5 DEF Rest, ToTell
  <2>3. \A e \in Doors \ {d} : ToTell(e)' = {}
    BY <1>4 DEF ToTell, Rest
  <2>4. Untold' = {w \in Doors \ {d} : pair[w] \in Active}
    BY <2>2, <2>3 DEF Untold
  <2>5. LevelOf(d)'
    BY <1>1, <1>2, <2>1 DEF Level, LevelOf, OnItsWay
  <2>6. \A e \in Doors : pair[e] \notin Active => LevelOf(e)'
    BY <1>1 DEF LevelOf, Active
  <2>7. \A e \in Doors : e \notin Untold' => LevelOf(e)'
    BY <2>4, <2>5, <2>6
  <2>8. \A e \in Doors : hand'[e].at # "tell"
    BY <1>4, <1>5 DEF Rest
  <2> QED BY <1>1, <2>7, <2>8 DEF Level
<1>11. Fresh'
  BY <1>1 DEF Fresh, Way
<1> QED BY <1>7, <1>8, <1>9, <1>10, <1>11

(* It reads the set the verdict just made. *)
LEMMA SpreadSampleKeeps ==
    ASSUME Types, Sound, holes = {}, NEW d \in Doors, SpreadSample(d)
    PROVE  Sound'
<1> USE DEF Sound
<1>1. UNCHANGED <<pair, set, consent, door, lane, asked, erased, minted>>
  BY DEF SpreadSample
<1>2. hand[d].at = "sample" /\ hand[d] # Rest
  BY DEF SpreadSample, Rest
<1>3. hand \in [Doors -> Hand] /\ pair[d] = "ENROLLED" /\ set # 0
  BY <1>2 DEF Types, HandsType, Hand, Shape, ShapeOf, Level
<1>4. \A e \in Doors \ {d} : hand'[e] = hand[e] /\ hand[e] = Rest
  BY <1>2, <1>3 DEF SpreadSample, OneAtATime
<1>5. \/ hand[d].left = {} /\ hand'[d] = Rest
      \/ hand'[d].at = "tell" /\ hand'[d].left = hand[d].left /\ hand'[d].sample = set
  BY <1>3 DEF SpreadSample, Hand
<1>6. asked = {}
  BY <1>2 DEF OneAtATime, AtRest
<1>7. OneAtATime'
  BY <1>1, <1>4, <1>6 DEF OneAtATime
<1>8. NoneWithout'
  BY <1>1 DEF NoneWithout
<1>9. Shape'
  BY <1>1, <1>2, <1>4 DEF Shape, ShapeOf, OnItsWay
<1>10. Level'
  <2>1. Untold = hand[d].left
    BY <1>2, OneUntold DEF ToTell
  <2>2. ToTell(d)' = hand[d].left
    BY <1>5 DEF Rest, ToTell
  <2>3. \A e \in Doors \ {d} : ToTell(e)' = {}
    BY <1>4 DEF ToTell, Rest
  <2>4. Untold' = Untold
    BY <2>1, <2>2, <2>3 DEF Untold
  <2>5. \A e \in Doors : LevelOf(e) => LevelOf(e)'
    BY <1>1, <1>2, <1>4 DEF LevelOf, OnItsWay
  <2>6. \A e \in Doors : hand'[e].at = "tell" => hand'[e].sample = set
    BY <1>4, <1>5 DEF Rest
  <2> QED BY <1>1, <2>4, <2>5, <2>6 DEF Level
<1>11. Fresh'
  BY <1>1 DEF Fresh, Way
<1> QED BY <1>7, <1>8, <1>9, <1>10, <1>11

(* Each door told agrees with the set from then on. *)
LEMMA SpreadTellKeeps ==
    ASSUME Types, Sound, holes = {}, NEW d \in Doors, NEW w \in Doors, SpreadTell(d, w)
    PROVE  Sound'
<1> USE DEF Sound
<1>1. UNCHANGED <<set, consent, lane, asked, erased, minted>>
  BY DEF SpreadTell
<1>2. hand[d].at = "tell" /\ hand[d] # Rest /\ w \in hand[d].left
  BY DEF SpreadTell, Rest
<1>3. /\ hand \in [Doors -> Hand] /\ door \in [Doors -> Held] /\ pair \in [Doors -> Pairs]
      /\ hand[d].sample = set /\ pair[d] = "ENROLLED" /\ set # 0
  BY <1>2 DEF Types, HandsType, Hand, DoorsType, Held, PairsType, Shape, ShapeOf, Level
<1>4. \A e \in Doors \ {d} : hand'[e] = hand[e] /\ hand[e] = Rest
  BY <1>2, <1>3 DEF SpreadTell, OneAtATime
<1>5. \/ hand[d].left = {w} /\ hand'[d] = Rest
      \/ /\ hand'[d].at = "tell" /\ hand'[d].left = hand[d].left \ {w}
         /\ hand'[d].sample = set
  BY <1>3 DEF SpreadTell, Hand
<1>6. asked = {}
  BY <1>2 DEF OneAtATime, AtRest
<1>7. \A e \in Doors \ {w} : door'[e] = door[e] /\ pair'[e] = pair[e]
  BY <1>3 DEF SpreadTell
<1>8. \/ pair[w] \notin Active /\ door'[w] = door[w] /\ pair'[w] = pair[w]
      \/ /\ pair[w] \in Active /\ pair'[w] = "ENROLLED"
         /\ \/ door[w].own # 0 /\ door'[w] = door[w]
            \/ door'[w].own = 0 /\ door'[w].face = set /\ ~door'[w].asks
  <2>1. CASE pair[w] \notin Active
    BY <2>1 DEF SpreadTell
  <2>2. CASE pair[w] \in Active /\ hand[d].replaced
    BY <1>3, <2>2 DEF SpreadTell, Pushed, Emptied, Held
  <2>3. CASE pair[w] \in Active /\ ~hand[d].replaced
    <3>1. /\ pair' = [pair EXCEPT ![w] = "ENROLLED"]
          /\ door' = [door EXCEPT ![w] = Pushed(door[w], hand[d].sample)]
      BY <2>3 DEF SpreadTell
    <3>2. door'[w] = Pushed(door[w], set) /\ pair'[w] = "ENROLLED"
      BY <1>3, <3>1
    <3> QED
      BY <1>3, <2>3, <3>2 DEF Pushed, Held
  <2> QED BY <2>1, <2>2, <2>3 DEF Hand
<1>9. \A e \in Doors \ {w} : Way(e)' = Way(e) /\ (OnItsWay(e)' <=> OnItsWay(e))
  BY <1>1, <1>7 DEF Way, OnItsWay
<1>10. (OnItsWay(w)' => OnItsWay(w)) /\ (Way(w)' # 0 => OnItsWay(w)')
  BY <1>1, <1>8 DEF Way, OnItsWay
<1>11. OneAtATime'
  BY <1>1, <1>4, <1>6 DEF OneAtATime
<1>12. NoneWithout'
  BY <1>1, <1>3, <1>7, <1>8 DEF NoneWithout, Active
<1>13. Shape'
  <2>1. \A e \in Doors : hand'[e] # Rest => hand[e] # Rest
    BY <1>2, <1>4
  <2>2. ShapeOf(w)'
    BY <1>1, <1>8, <2>1 DEF Shape, ShapeOf, Active, Waiting, OnItsWay
  <2>3. \A e \in Doors \ {w} : ShapeOf(e)'
    BY <1>1, <1>7, <1>9, <2>1 DEF Shape, ShapeOf
  <2> QED BY <2>2, <2>3 DEF Shape
<1>14. Level'
  <2>1. Untold = hand[d].left
    BY <1>2, OneUntold DEF ToTell
  <2>2. ToTell(d)' = hand[d].left \ {w}
    BY <1>5 DEF Rest, ToTell
  <2>3. \A e \in Doors \ {d} : ToTell(e)' = {}
    BY <1>4 DEF ToTell, Rest
  <2>4. Untold' = Untold \ {w}
    BY <2>1, <2>2, <2>3 DEF Untold
  <2>5. LevelOf(w)'
    BY <1>1, <1>8 DEF LevelOf, OnItsWay, Active
  <2>6. \A e \in Doors \ {w} : LevelOf(e) => LevelOf(e)'
    BY <1>1, <1>2, <1>4, <1>7, <1>9 DEF LevelOf
  <2>7. \A e \in Doors : e \notin Untold' => LevelOf(e)'
    BY <2>4, <2>5, <2>6 DEF Level
  <2>8. \A e \in Doors : hand'[e].at = "tell" => hand'[e].sample = set
    BY <1>4, <1>5 DEF Rest
  <2> QED BY <1>1, <1>3, <1>7, <2>7, <2>8 DEF Level
<1>15. Fresh'
  <2>1. Way(w)' # 0 => Way(w)' = Way(w)
    BY <1>1, <1>8 DEF Way, Shape, ShapeOf
  <2>2. \A e \in Doors : Way(e)' # 0 => Way(e)' = Way(e)
    BY <1>9, <2>1
  <2>3. minted >= 0
    BY DEF Types, CountsType
  <2> QED BY <1>1, <2>2, <2>3 DEF Fresh
<1> QED BY <1>11, <1>12, <1>13, <1>14, <1>15

-----------------------------------------------------------------------------
(* The results.                                                                *)

(* So the invariant holds of every reachable state. *)
LEMMA IInvHolds == Spec => []IInv
<1>1. Init => IInv
  <2> SUFFICES ASSUME Init PROVE IInv
    OBVIOUS
  <2>1. Types
    BY InitTypes
  <2>2. NoFaceWithoutConsent
    BY DEF Init, NoFaceWithoutConsent
  <2>3. \A d \in Doors : /\ hand[d] = Rest /\ lane[d] = <<>> /\ door[d] = Emptied
                         /\ pair[d] = "NONE" /\ ~OnItsWay(d) /\ Way(d) = 0 /\ ToTell(d) = {}
    BY DEF Init, Emptied, OnItsWay, Way, ToTell, Rest
  <2>4. OneAtATime /\ NoneWithout
    BY <2>3 DEF Init, OneAtATime, NoneWithout
  <2>5. Shape
    BY <2>3 DEF Shape, ShapeOf, Emptied, Active, Waiting
  <2>6. Level
    BY <2>3 DEF Level, LevelOf, Rest
  <2>7. Fresh
    BY <2>3 DEF Init, Fresh
  <2> QED BY <2>1, <2>2, <2>4, <2>5, <2>6, <2>7 DEF IInv, Sound
<1>2. IInv /\ [Next]_vars => IInv'
  <2> SUFFICES ASSUME IInv, [Next]_vars PROVE IInv'
    OBVIOUS
  <2>1. Types'
    BY PairsKept, DoorsKept, LanesKept, HandsKept, CountsKept DEF IInv, Types
  <2>2. NoFaceWithoutConsent'
    BY ConsentKept DEF IInv
  <2>3. ASSUME holes' = {} PROVE Sound'
    <3>1. holes = {} /\ Types /\ Sound
      BY <2>3 DEF IInv, Next, vars, AskAssign, Assign, Revoke, Withdraw, Grant, Capture, Report,
                  TakeSample, Refuse, SpreadOthers, SpreadSample, SpreadTell, Dashboard, Noted
    <3>2. CASE UNCHANGED vars
      BY <3>1, <3>2 DEF vars, Sound, OneAtATime, AtRest, NoneWithout, Shape, ShapeOf, Level,
                        LevelOf, Fresh, Way, OnItsWay, Untold, ToTell
    <3>3. CASE Next
      BY <2>3, <3>1, <3>3, AskAssignKeeps, AssignKeeps, RevokeKeeps, WithdrawKeeps, GrantKeeps,
         CaptureKeeps, ReportKeeps, TakeSampleKeeps, RefuseKeeps, SpreadOthersKeeps,
         SpreadSampleKeeps, SpreadTellKeeps DEF Next
    <3> QED BY <3>2, <3>3
  <2> QED BY <2>1, <2>2, <2>3 DEF IInv
<1> QED BY <1>1, <1>2, PTL DEF Spec

(* What the server, the doors and the handlers of one person hold is well typed, for any
   number of doors, sessions and requests. *)
THEOREM EnrolmentTypeCorrect == Spec => []TypeOK
<1>1. IInv => TypeOK
  BY DEF IInv, Types, PairsType, DoorsType, LanesType, HandsType, CountsType, TypeOK
<1> QED BY IInvHolds, <1>1, PTL

(* Whatever a kiosk was doing when consent went, no face stays on the server: takeSample
   asks for consent inside its transaction, for any number of doors and captures. *)
THEOREM NoFaceUnconsented == Spec => []NoFaceWithoutConsent
<1>1. IInv => NoFaceWithoutConsent
  BY DEF IInv
<1> QED BY IInvHolds, <1>1, PTL

(* Once every report is judged, every door holds what the server says it does, unless two
   handlers overlapped or a door was told while its capture was on its way. *)
THEOREM DoorsAgree == Spec => []DoorsEndAlike
<1>1. IInv => DoorsEndAlike
  <2> SUFFICES ASSUME IInv, Quiet, holes = {}, NEW d \in Doors
               PROVE  /\ pair[d] \in {"ENROLLED", "RETAKE"} => door[d].face = set
                      /\ pair[d] \notin Active => door[d].face = 0
                      /\ door[d].asks <=> pair[d] \in Waiting
    BY DEF DoorsEndAlike
  <2>1. ~OnItsWay(d) /\ hand[d] = Rest /\ Untold = {} /\ ShapeOf(d) /\ LevelOf(d)
    BY RestUntold DEF IInv, Sound, Quiet, AtRest, Shape, Level
  <2> QED BY <2>1 DEF ShapeOf, LevelOf, Rest, Emptied
<1> QED BY IInvHolds, <1>1, PTL

(* In such behaviours no door holds an erased face once all is judged. *)
THEOREM ErasedStaysErased == Spec => []NoErasedFaceReturns
<1>1. IInv => NoErasedFaceReturns
  <2> SUFFICES ASSUME IInv, Quiet, holes = {}, NEW d \in Doors
               PROVE  door[d].face \notin erased
    BY DEF NoErasedFaceReturns
  <2>1. ~OnItsWay(d) /\ hand[d] = Rest /\ Untold = {} /\ ShapeOf(d) /\ LevelOf(d)
    BY RestUntold DEF IInv, Sound, Quiet, AtRest, Shape, Level
  <2>2. 0 \notin erased /\ set \notin erased
    BY DEF IInv, Types, CountsType, Sessions, Sound, Fresh
  <2>3. pair[d] \in Pairs
    BY DEF IInv, Types, PairsType
  <2>4. door[d].face \in {0, set}
    BY <2>1, <2>3 DEF ShapeOf, LevelOf, Rest, Emptied, Pairs, Active
  <2> QED BY <2>2, <2>4
<1> QED BY IInvHolds, <1>1, PTL
=============================================================================
