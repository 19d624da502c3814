------------------------------ MODULE Enrolment ------------------------------
(***************************************************************************)
(* One person at several doors that run one recognition model.  Every door  *)
(* keeps what it captured; EnrollmentService decides which capture session  *)
(* is the person's set and spreads it.  takeSample decides in a transaction *)
(* under the person's CAPTURE_LOCK, but what it decided reaches the other   *)
(* doors through later awaits, each under the lock of one door only.        *)
(* RosterSync shows that what is told to a door arrives or is told again,   *)
(* so here a door obeys the moment it is told.                              *)
(*                                                                          *)
(* A session is a number; one sample stands for the samples of a session.   *)
(***************************************************************************)
EXTENDS Naturals, Sequences, FiniteSets

CONSTANTS
    Doors,
    MaxSessions, \* bound: capture sessions
    MaxOps       \* bound: requests from the dashboard

ASSUME EnrolmentAssumption ==
    /\ IsFiniteSet(Doors)
    /\ MaxSessions \in Nat /\ MaxOps \in Nat

VARIABLES
    pair,    \* DeviceEnrollment.state of each door
    set,     \* the session FaceTemplate holds of the person, or 0
    consent, \* a BiometricConsent is in force
    door,    \* what each door holds: a face that matches, an unreported capture, an ask
    lane,    \* reports of each door the broker acked, handled one at a time
    hand,    \* where the handler of each door's report stands
    asked,   \* assign requests past their consent check
    erased,  \* history: sessions whose samples were erased
    holes,   \* history: "overlap" once a handler started between the awaits of
             \* another, "crossing" once a door was told while its capture was on its way
    ops, minted

vars == <<pair, set, consent, door, lane, hand, asked, erased, holes, ops, minted>>

Sessions == 1 .. MaxSessions
Pairs == {"NONE", "ASSIGNED", "ENROLLED", "RETAKE", "REVOKED"}
Active == {"ASSIGNED", "ENROLLED", "RETAKE"}
Waiting == {"ASSIGNED", "RETAKE"}
Rest == [at |-> "rest", replaced |-> FALSE, left |-> {}, sample |-> 0]

TypeOK ==
    /\ pair \in [Doors -> Pairs]
    /\ set \in 0 .. MaxSessions
    /\ consent \in BOOLEAN
    /\ door \in [Doors -> [face : 0 .. MaxSessions, own : 0 .. MaxSessions, asks : BOOLEAN]]
    /\ lane \in [Doors -> Seq(Sessions)]
    /\ hand \in [Doors -> [at : {"rest", "refuse", "others", "sample", "tell"},
                           replaced : BOOLEAN, left : SUBSET Doors, sample : 0 .. MaxSessions]]
    /\ asked \in SUBSET Doors
    /\ erased \in SUBSET Sessions /\ holes \subseteq {"overlap", "crossing"}
    /\ ops \in 0 .. MaxOps /\ minted \in 0 .. MaxSessions

Init ==
    /\ pair = [d \in Doors |-> "NONE"]
    /\ set = 0 /\ consent = TRUE
    /\ door = [d \in Doors |-> [face |-> 0, own |-> 0, asks |-> FALSE]]
    /\ lane = [d \in Doors |-> <<>>]
    /\ hand = [d \in Doors |-> Rest]
    /\ asked = {} /\ erased = {} /\ holes = {}
    /\ ops = 0 /\ minted = 0

-----------------------------------------------------------------------------
(* What a door does when it is told (apply_roster).                         *)

Emptied == [face |-> 0, own |-> 0, asks |-> FALSE]
\* A push spares an unreported capture, and then changes nothing.
Pushed(held, s) == IF held.own # 0 THEN held ELSE [held EXCEPT !.face = s, !.asks = FALSE]
Told(held, s) == IF s = 0 THEN held ELSE Pushed(held, s)

\* A capture of this door is on its way to its verdict.
OnItsWay(d) == door[d].own # 0 \/ lane[d] # <<>>
AtRest == \A d \in Doors : hand[d] = Rest
InHand == ~AtRest \/ asked # {}
Noted(overlaps, crosses) ==
    holes' = holes \cup (IF overlaps THEN {"overlap"} ELSE {})
                   \cup (IF crosses THEN {"crossing"} ELSE {})

Dashboard(touched) ==
    /\ ops < MaxOps /\ ops' = ops + 1
    /\ Noted(InHand, \E d \in touched : OnItsWay(d))

-----------------------------------------------------------------------------
(* The dashboard.                                                           *)

\* assign asks for consent first, outside the transaction that writes the pair.
AskAssign(d) ==
    /\ Dashboard({d})
    /\ consent /\ d \notin asked
    /\ asked' = asked \cup {d}
    /\ UNCHANGED <<pair, set, consent, door, lane, hand, erased, minted>>

Assign(d) ==
    /\ d \in asked
    /\ Noted(~AtRest, FALSE)
    /\ asked' = asked \ {d}
    /\ \/ /\ pair[d] \in {"ENROLLED", "RETAKE"}
          /\ pair' = [pair EXCEPT ![d] = "RETAKE"]
          /\ door' = [door EXCEPT ![d].asks = TRUE]
       \/ /\ pair[d] \notin {"ENROLLED", "RETAKE"} /\ set # 0
          /\ pair' = [pair EXCEPT ![d] = "ENROLLED"]
          /\ door' = [door EXCEPT ![d] = Pushed(@, set)]
       \/ /\ pair[d] \notin {"ENROLLED", "RETAKE"} /\ set = 0
          /\ pair' = [pair EXCEPT ![d] = "ASSIGNED"]
          /\ door' = [door EXCEPT ![d].asks = TRUE]
    /\ UNCHANGED <<set, consent, lane, hand, erased, ops, minted>>

Revoke(d) ==
    /\ pair[d] # "NONE"
    /\ Dashboard({d})
    /\ pair' = [pair EXCEPT ![d] = "REVOKED"]
    /\ door' = [door EXCEPT ![d] = Emptied]
    /\ UNCHANGED <<set, consent, lane, hand, asked, erased, minted>>

\* withdrawConsent: the consent and the face go in one transaction, under the
\* locks of every door that has a row of the person.
Withdraw ==
    /\ consent
    /\ Dashboard({d \in Doors : pair[d] # "NONE"})
    /\ consent' = FALSE
    /\ set' = 0 /\ erased' = erased \cup ({set} \ {0})
    /\ pair' = [d \in Doors |-> IF pair[d] = "NONE" THEN "NONE" ELSE "REVOKED"]
    /\ door' = [d \in Doors |-> IF pair[d] = "NONE" THEN door[d] ELSE Emptied]
    /\ UNCHANGED <<lane, hand, asked, minted>>

Grant ==
    /\ ~consent
    /\ Dashboard({})
    /\ consent' = TRUE
    /\ UNCHANGED <<pair, set, door, lane, hand, asked, erased, minted>>

-----------------------------------------------------------------------------
(* The doors.                                                               *)

Capture(d) ==
    /\ door[d].asks /\ minted < MaxSessions
    /\ Noted(FALSE, d \in asked)
    /\ door' = [door EXCEPT ![d] = [face |-> 0, own |-> minted + 1, asks |-> FALSE]]
    /\ minted' = minted + 1
    /\ UNCHANGED <<pair, set, consent, lane, hand, asked, erased, ops>>

Report(d) ==
    /\ door[d].own # 0
    /\ lane' = [lane EXCEPT ![d] = Append(@, door[d].own)]
    /\ door' = [door EXCEPT ![d] = [@ EXCEPT !.face = door[d].own, !.own = 0]]
    /\ UNCHANGED <<pair, set, consent, hand, asked, erased, holes, ops, minted>>

-----------------------------------------------------------------------------
(* takeSample: the verdict, in one transaction under CAPTURE_LOCK.          *)

\* Faulty form, for trying the properties: consent is asked for before the transaction only.
ConsentedEarlier == TRUE

Consented == consent

HandOn(d, at, replaced) ==
    hand' = [hand EXCEPT ![d] = [Rest EXCEPT !.at = at, !.replaced = replaced]]

TakeSample(d) ==
    /\ lane[d] # <<>> /\ hand[d] = Rest
    /\ Noted(InHand, FALSE)
    /\ LET s == Head(lane[d])
           waits == pair[d] \in Waiting
       IN  \/ /\ pair[d] = "NONE" \/ (Consented /\ waits /\ set = s)
              /\ UNCHANGED <<pair, set, door, hand, erased>>
           \/ /\ pair[d] # "NONE" /\ ~Consented
              /\ door' = [door EXCEPT ![d] = Emptied]
              /\ UNCHANGED <<pair, set, hand, erased>>
           \/ /\ Consented /\ waits /\ set # s
              /\ set' = s /\ erased' = erased \cup ({set} \ {0})
              /\ pair' = [pair EXCEPT ![d] = "ENROLLED"]
              /\ HandOn(d, "others", set # 0)
              /\ UNCHANGED door
           \/ /\ Consented /\ pair[d] = "ENROLLED" /\ set = s
              /\ HandOn(d, "others", FALSE)
              /\ UNCHANGED <<pair, set, door, erased>>
           \/ /\ Consented
              /\ pair[d] = "REVOKED" \/ (pair[d] = "ENROLLED" /\ set # s)
              /\ HandOn(d, "refuse", FALSE)
              /\ UNCHANGED <<pair, set, door, erased>>
    /\ lane' = [lane EXCEPT ![d] = Tail(@)]
    /\ UNCHANGED <<consent, asked, ops, minted>>

\* Faulty form, for trying the properties: a refused door is not told to drop.
RefuseKeeping(d) ==
    /\ hand[d].at = "refuse"
    /\ hand' = [hand EXCEPT ![d] = Rest]
    /\ door' = [door EXCEPT ![d].asks = pair[d] \in Waiting]
    /\ UNCHANGED <<pair, set, consent, lane, asked, erased, holes, ops, minted>>

\* refuse: the door drops the person and is told what the rows say by then.
Refuse(d) ==
    /\ hand[d].at = "refuse"
    /\ hand' = [hand EXCEPT ![d] = Rest]
    /\ door' = [door EXCEPT ![d] =
           IF pair[d] \notin Active THEN Emptied
           ELSE [Told(Emptied, set) EXCEPT !.asks = pair[d] \in Waiting]]
    /\ UNCHANGED <<pair, set, consent, lane, asked, erased, holes, ops, minted>>

\* spread reads the other doors, then the sample, and only then takes each lock.
SpreadOthers(d) ==
    /\ hand[d].at = "others"
    /\ hand' = [hand EXCEPT ![d].at = "sample",
                            ![d].left = {w \in Doors \ {d} : pair[w] \in Active}]
    /\ UNCHANGED <<pair, set, consent, door, lane, asked, erased, holes, ops, minted>>

SpreadSample(d) ==
    /\ hand[d].at = "sample"
    /\ hand' = [hand EXCEPT ![d] =
           IF set = 0 \/ @.left = {} THEN Rest ELSE [@ EXCEPT !.at = "tell", !.sample = set]]
    /\ UNCHANGED <<pair, set, consent, door, lane, asked, erased, holes, ops, minted>>

\* Faulty form, for trying the properties: only doors that still wait are told.
SpreadTellOnlyAssigned(d, w) ==
    /\ hand[d].at = "tell" /\ w \in hand[d].left
    /\ hand' = [hand EXCEPT ![d] = IF @.left = {w} THEN Rest ELSE [@ EXCEPT !.left = hand[d].left \ {w}]]
    /\ \/ /\ pair[w] = "ASSIGNED"
          /\ pair' = [pair EXCEPT ![w] = "ENROLLED"]
          /\ door' = [door EXCEPT ![w] = Pushed(@, hand[d].sample)]
       \/ pair[w] # "ASSIGNED" /\ UNCHANGED <<pair, door>>
    /\ UNCHANGED <<set, consent, lane, asked, erased, holes, ops, minted>>

SpreadTell(d, w) ==
    /\ hand[d].at = "tell" /\ w \in hand[d].left
    /\ hand' = [hand EXCEPT ![d] = IF @.left = {w} THEN Rest ELSE [@ EXCEPT !.left = hand[d].left \ {w}]]
    /\ \/ /\ pair[w] \in Active
          /\ pair' = [pair EXCEPT ![w] = "ENROLLED"]
          /\ door' = [door EXCEPT ![w] =
                 Pushed(IF hand[d].replaced THEN Emptied ELSE @, hand[d].sample)]
       \/ pair[w] \notin Active /\ UNCHANGED <<pair, door>>
    /\ UNCHANGED <<set, consent, lane, asked, erased, holes, ops, minted>>

-----------------------------------------------------------------------------
Next ==
    \/ Withdraw \/ Grant
    \/ \E d \in Doors :
          \/ AskAssign(d) \/ Assign(d) \/ Revoke(d) \/ Capture(d) \/ Report(d)
          \/ TakeSample(d) \/ Refuse(d) \/ SpreadOthers(d) \/ SpreadSample(d)
          \/ \E w \in Doors : SpreadTell(d, w)

Spec == Init /\ [][Next]_vars

-----------------------------------------------------------------------------
(* Properties.                                                              *)

\* withdrawConsent against takeSample: whatever a kiosk was doing when consent went,
\* no face stays on the server without consent (KEHOACH 9.19).
NoFaceWithoutConsent == set # 0 => consent

Quiet ==
    /\ AtRest /\ asked = {}
    /\ \A d \in Doors : ~OnItsWay(d)

\* spread and refuse together: once every report is judged, each enrolled door
\* holds the one set the server holds and asks for nothing, a door asked for a
\* capture asks, and a door without the person holds no face of theirs.  It takes
\* an overlap of two handlers or a crossing on one door to end otherwise.
DoorsEndAlike ==
    Quiet /\ consent /\ holes = {} => \A d \in Doors :
        /\ pair[d] \in {"ENROLLED", "RETAKE"} => door[d].face = set
        /\ pair[d] \notin Active => door[d].face = 0
        /\ door[d].asks <=> pair[d] \in Waiting

\* A face erased from the server is matched by no door once every report is judged
\* and every request is through, one at a time (KEHOACH 9.19).
NoErasedFaceReturns == Quiet /\ holes = {} => \A d \in Doors : door[d].face \notin erased

\* KEHOACH 7.5 and 9.19 say so of every order of requests and reports.
ErasedFaceIsGone == Quiet => \A d \in Doors : door[d].face \notin erased
=============================================================================
