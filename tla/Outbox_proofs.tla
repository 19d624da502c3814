----------------------------- MODULE Outbox_proofs -----------------------------
(***************************************************************************)
(* Where a stored request goes, for any tabs, accounts and requests, and    *)
(* any number of sessions, expiries and faults.  Nothing here bounds how    *)
(* the tabs cross: what keeps the promise is that a session never changes   *)
(* hands, and that a call carries with it the account it was made for.      *)
(***************************************************************************)
EXTENDS MCOutboxes, TLAPS

(* The parts of the type invariant.                                            *)

SessionRows == [owner : Accounts, jti : Nat, open : BOOLEAN, cut : BOOLEAN]
Pages == [me : People, token : 0 .. MaxSignIns, due : BOOLEAN]
Renewals == [at : {"rest", "asked", "answered"}, carries : Cookies]
CallPlaces == {"rest", "next", "renewing", "out", "turned away", "unsigned", "unjudged", "done"}
Sendings == [at : CallPlaces, key : Requests \cup {Nobody}, by : {"none", "form", "flush"},
             me : People, token : 0 .. MaxSignIns, again : BOOLEAN]

SessionsType == sessions \in Seq(SessionRows) /\ Len(sessions) <= MaxSignIns
JudgedType == filed \in [Requests -> People] /\ refused \subseteq Requests
CookieType == cookie \in Cookies /\ mark \in {"in", "out", "none"}
StoredType == stored \subseteq Requests /\ owner \in [Requests -> People]
ShownType == shown \in [Tabs -> SUBSET Requests]
PagesType == page \in [Tabs -> Pages]
RenewalsType == renewal \in [Tabs -> Renewals]
CallsType == call \in [Tabs -> Sendings] /\ rest \in [Tabs -> SUBSET Requests]
ToldType == pressed \in [Requests -> People] /\ agreed \subseteq Requests
HolesType == outboxHoles \subseteq {"switched", "unsigned", "unjudged"} \X Requests
BudgetType == expiries \in 0 .. MaxExpiries /\ troubles \in 0 .. MaxTroubles

-----------------------------------------------------------------------------
(* The strengthening.                                                          *)

Switched(k) == <<"switched", k>> \in outboxHoles
Unjudged(k) == <<"unsigned", k>> \in outboxHoles \/ <<"unjudged", k>> \in outboxHoles

\* A cookie, in the browser or in a renewal, is of a session there is.
OfASession(held) == held = NoCookie \/ held.sid \in DOMAIN sessions
CookiesHold == OfASession(cookie) /\ \A t \in Tabs : OfASession(renewal[t].carries)

\* A tab's token is of a session of the account it shows.
PageOf(seen) ==
    seen.me # Nobody => seen.token \in DOMAIN sessions /\ sessions[seen.token].owner = seen.me
PagesHold == \A t \in Tabs : PageOf(page[t])

\* A request of the account that pressed its button.
Theirs(k, whose) == pressed[k] = whose \/ Switched(k)

(* A call is made for an account, for a request of that account's, and with a token of its own,
   but where another account's session came in under it; a flush has its account's requests
   still to try. *)
CallOf(sent, left) ==
    /\ sent.at # "rest" => sent.me # Nobody
    /\ sent.at = "rest" \/ sent.by # "flush" => left = {}
    /\ \A k \in left : Theirs(k, sent.me)
    /\ sent.at \notin {"rest", "next"} =>
          /\ sent.key \in Requests /\ Theirs(sent.key, sent.me)
          /\ \/ sent.token = 0
             \/ /\ sent.token \in DOMAIN sessions
                /\ sessions[sent.token].owner = sent.me \/ Switched(sent.key)
    /\ sent.at = "done" => filed[sent.key] # Nobody \/ sent.key \in refused
CallsHold == \A t \in Tabs : CallOf(call[t], rest[t])

\* A stored request carries the account that pressed the button.
OwnersHold ==
    /\ \A k \in stored : owner[k] # Nobody
    /\ \A k \in Requests : owner[k] = Nobody \/ Theirs(k, owner[k])

OutboxInv ==
    /\ SessionsType /\ JudgedType /\ CookieType /\ StoredType /\ ShownType
    /\ PagesType /\ RenewalsType /\ CallsType
    /\ ToldType /\ HolesType /\ BudgetType
    /\ CookiesHold /\ PagesHold /\ CallsHold /\ OwnersHold
    /\ RequestsAccounted

-----------------------------------------------------------------------------
(* Lemmas about the records: what a changed one holds.                         *)

\* A call at rest, no cookie, and a page of nobody's.
LEMMA NoCallIs ==
    /\ NoCall \in Sendings
    /\ NoCall.at = "rest" /\ NoCall.me = Nobody /\ NoCall.by = "none" /\ NoCall.token = 0
  BY OutboxAssumption DEF NoCall, Sendings, CallPlaces, People

\* No cookie is a cookie of no session.
LEMMA NoCookieIs == NoCookie \in Cookies /\ NoCookie.sid = 0
  BY OutboxAssumption DEF NoCookie, Cookies

\* A signed-out page is a page, and nobody's.
LEMMA SignedOutIs == SignedOut \in Pages /\ SignedOut.me = Nobody
  BY OutboxAssumption DEF SignedOut, Pages, People

\* What a call for a form, and one of a flush, is before it goes out.
LEMMA CallBegins ==
    ASSUME NEW k \in Requests, NEW me \in People
    PROVE  /\ [NoCall EXCEPT !.key = k, !.by = "form", !.me = me] \in Sendings
           /\ [NoCall EXCEPT !.key = k, !.by = "form", !.me = me].key = k
           /\ [NoCall EXCEPT !.key = k, !.by = "form", !.me = me].by = "form"
           /\ [NoCall EXCEPT !.key = k, !.by = "form", !.me = me].me = me
  BY NoCallIs DEF Sendings, NoCall

\* The call of a flush before its first request.
LEMMA FlushCalls ==
    ASSUME NEW me \in People
    PROVE  /\ [NoCall EXCEPT !.at = "next", !.by = "flush", !.me = me] \in Sendings
           /\ [NoCall EXCEPT !.at = "next", !.by = "flush", !.me = me].at = "next"
           /\ [NoCall EXCEPT !.at = "next", !.by = "flush", !.me = me].by = "flush"
           /\ [NoCall EXCEPT !.at = "next", !.by = "flush", !.me = me].me = me
  BY NoCallIs DEF Sendings, NoCall, CallPlaces

\* A flush's call that takes up its next request.
LEMMA CallTakesKey ==
    ASSUME NEW sent \in Sendings, NEW k \in Requests
    PROVE  /\ [sent EXCEPT !.key = k, !.again = FALSE] \in Sendings
           /\ [sent EXCEPT !.key = k, !.again = FALSE].key = k
           /\ [sent EXCEPT !.key = k, !.again = FALSE].by = sent.by
           /\ [sent EXCEPT !.key = k, !.again = FALSE].me = sent.me
  BY DEF Sendings

\* A call that only changes its place.
LEMMA CallMoves ==
    ASSUME NEW sent \in Sendings, NEW at \in CallPlaces
    PROVE  /\ [sent EXCEPT !.at = at] \in Sendings
           /\ [sent EXCEPT !.at = at].at = at
           /\ [sent EXCEPT !.at = at].key = sent.key
           /\ [sent EXCEPT !.at = at].by = sent.by
           /\ [sent EXCEPT !.at = at].me = sent.me
           /\ [sent EXCEPT !.at = at].token = sent.token
  BY DEF Sendings

\* One that was told 401 for the first time.
LEMMA CallAsksAgain ==
    ASSUME NEW sent \in Sendings
    PROVE  /\ [sent EXCEPT !.at = "renewing", !.again = TRUE] \in Sendings
           /\ [sent EXCEPT !.at = "renewing", !.again = TRUE].at = "renewing"
           /\ [sent EXCEPT !.at = "renewing", !.again = TRUE].key = sent.key
           /\ [sent EXCEPT !.at = "renewing", !.again = TRUE].by = sent.by
           /\ [sent EXCEPT !.at = "renewing", !.again = TRUE].me = sent.me
           /\ [sent EXCEPT !.at = "renewing", !.again = TRUE].token = sent.token
  BY DEF Sendings, CallPlaces

-----------------------------------------------------------------------------
(* Sessions: rows are only added, and none changes hands.                      *)

SessionsKept ==
    /\ DOMAIN sessions \subseteq DOMAIN sessions'
    /\ \A sid \in DOMAIN sessions : sessions'[sid].owner = sessions[sid].owner

\* A 0 is no session.
LEMMA NoZero == ASSUME SessionsType PROVE DOMAIN sessions = 1 .. Len(sessions) /\ 0 \notin DOMAIN sessions
  BY DEF SessionsType

\* A row that is changed, but for its owner.
LEMMA RowChanges ==
    ASSUME SessionsType, NEW sid \in DOMAIN sessions, NEW row \in SessionRows,
           row.owner = sessions[sid].owner, sessions' = [sessions EXCEPT ![sid] = row]
    PROVE  SessionsType' /\ SessionsKept
  BY DEF SessionsType, SessionsKept

\* The fields of a session a renewal, a reuse, a sign-out change leave its owner alone.
LEMMA RowsChanged ==
    ASSUME NEW row \in SessionRows, NEW cut \in BOOLEAN, NEW jti \in Nat
    PROVE  /\ [row EXCEPT !.open = FALSE] \in SessionRows
           /\ [row EXCEPT !.open = FALSE].owner = row.owner
           /\ [row EXCEPT !.cut = cut] \in SessionRows
           /\ [row EXCEPT !.cut = cut].owner = row.owner
           /\ [row EXCEPT !.jti = jti] \in SessionRows
           /\ [row EXCEPT !.jti = jti].owner = row.owner
  BY DEF SessionRows

\* Closing one, its access tokens cut or not.
LEMMA RowCloses ==
    ASSUME SessionsType, NEW sid \in DOMAIN sessions, NEW cut \in BOOLEAN,
           sessions' = [sessions EXCEPT ![sid].open = FALSE, ![sid].cut = cut]
    PROVE  SessionsType' /\ SessionsKept
<1> DEFINE shut == [sessions[sid] EXCEPT !.open = FALSE]
           row == [shut EXCEPT !.cut = cut]
<1>1. sessions[sid] \in SessionRows
  BY DEF SessionsType
<1>2. row \in SessionRows /\ row.owner = sessions[sid].owner
  BY <1>1, RowsChanged
<1>3. sessions' = [sessions EXCEPT ![sid] = row]
  BY <1>1 DEF SessionsType
<1> HIDE DEF row
<1> QED BY <1>2, <1>3, RowChanges

\* No step of the browser or the server takes a session from its account.
LEMMA SessionsStep ==
    ASSUME OutboxInv, [OutboxNext]_outboxVars
    PROVE  SessionsType' /\ SessionsKept
<1> SUFFICES ASSUME ~UNCHANGED sessions PROVE SessionsType' /\ SessionsKept
  BY DEF OutboxInv, SessionsType, SessionsKept
<1>0. SessionsType /\ CookiesHold /\ PagesHold
  BY DEF OutboxInv
<1>1. ASSUME NEW t \in Tabs, NEW a \in Accounts, SignIn(t, a) PROVE SessionsType' /\ SessionsKept
  <2> DEFINE row == [owner |-> a, jti |-> 1, open |-> TRUE, cut |-> FALSE]
  <2>1. row \in SessionRows /\ sessions' = Append(sessions, row) /\ Len(sessions) < MaxSignIns
    BY <1>1 DEF SignIn, SessionRows
  <2> HIDE DEF row
  <2> QED BY <1>0, <2>1, OutboxAssumption DEF SessionsType, SessionsKept
<1>2. ASSUME NEW t \in Tabs, SignOut(t) PROVE SessionsType' /\ SessionsKept
  <2>1. page[t].token \in DOMAIN sessions
    BY <1>0, <1>2 DEF SignOut, PagesHold, PageOf
  <2>2. sessions' = [sessions EXCEPT ![page[t].token].open = FALSE, ![page[t].token].cut = TRUE]
    BY <1>2 DEF SignOut
  <2> QED BY <1>0, <2>1, <2>2, RowCloses
<1>3. ASSUME NEW sid \in DOMAIN sessions, SessionEnds(sid) PROVE SessionsType' /\ SessionsKept
  <2>1. PICK cut \in BOOLEAN : sessions' = [sessions EXCEPT ![sid].open = FALSE, ![sid].cut = cut]
    BY <1>3 DEF SessionEnds
  <2> QED BY <1>0, <2>1, RowCloses
<1>4. ASSUME NEW t \in Tabs, Rotate(t) PROVE SessionsType' /\ SessionsKept
  <2> DEFINE sid == renewal[t].carries.sid
  <2>1. sid \in DOMAIN sessions /\ sessions[sid] \in SessionRows /\ renewal[t].carries.jti \in Nat
    BY <1>0, <1>4, NoCookieIs DEF Rotate, CookiesHold, OfASession, SessionsType, OutboxInv, RenewalsType,
       Renewals, Cookies
  <2>2. \/ sessions' = [sessions EXCEPT ![sid].jti = renewal[t].carries.jti + 1]
        \/ sessions' = [sessions EXCEPT ![sid].open = FALSE]
    BY <1>4 DEF Rotate
  <2>3. PICK row \in SessionRows : /\ sessions' = [sessions EXCEPT ![sid] = row]
                                   /\ row.owner = sessions[sid].owner
    <3>1. CASE sessions' = [sessions EXCEPT ![sid].open = FALSE]
      BY <2>1, <3>1, RowsChanged
    <3>2. CASE sessions' = [sessions EXCEPT ![sid].jti = renewal[t].carries.jti + 1]
      <4>1. renewal[t].carries.jti + 1 \in Nat
        BY <2>1
      <4> QED BY <2>1, <3>2, <4>1, RowsChanged
    <3> QED BY <2>2, <3>1, <3>2
  <2> HIDE DEF sid
  <2> QED BY <1>0, <2>1, <2>3, RowChanges
<1> QED
  BY <1>1, <1>2, <1>3, <1>4 DEF OutboxNext, outboxVars, theServer, Expires, Reload, Reopen,
     Renewed, NotRenewed, Press, FlushBegins, FlushNext, FlushEnds, Serve, ServeBreaks, TurnedAway, Answered,
     TakenForRefusal, NoAnswer

-----------------------------------------------------------------------------
(* What is known of a request only grows.                                      *)

Grows ==
    /\ SessionsKept
    /\ \A k \in Requests : filed[k] # Nobody => filed'[k] = filed[k]
    /\ refused \subseteq refused'
    /\ \A k \in Requests : pressed[k] # Nobody => pressed'[k] = pressed[k]
    /\ agreed \subseteq agreed'
    /\ outboxHoles \subseteq outboxHoles'

\* Whom a token lets in is somebody or nobody.
LEMMA LetInIs == ASSUME SessionsType, NEW token PROVE LetIn(token) \in People
<1>1. token \in DOMAIN sessions => sessions[token] \in SessionRows
  BY DEF SessionsType
<1> QED BY <1>1 DEF SessionRows, LetIn, People

\* What is in hand when a call is out, or in front of a renewal.
LEMMA CallIs ==
    ASSUME OutboxInv, NEW t \in Tabs
    PROVE  /\ call[t] \in Sendings /\ rest[t] \subseteq Requests /\ CallOf(call[t], rest[t])
           /\ page[t] \in Pages /\ PageOf(page[t])
           /\ renewal[t] \in Renewals /\ OfASession(renewal[t].carries)
  BY DEF OutboxInv, CallsType, CallsHold, PagesType, PagesHold, RenewalsType, CookiesHold

\* A filed row stays, and so does a refusal.
LEMMA JudgedStep ==
    ASSUME OutboxInv, [OutboxNext]_outboxVars
    PROVE  /\ JudgedType'
           /\ \A k \in Requests : filed[k] # Nobody => filed'[k] = filed[k]
           /\ refused \subseteq refused'
<1> SUFFICES ASSUME ~UNCHANGED <<filed, refused>>
             PROVE  /\ JudgedType'
                    /\ \A k \in Requests : filed[k] # Nobody => filed'[k] = filed[k]
                    /\ refused \subseteq refused'
  BY DEF OutboxInv, JudgedType
<1>1. PICK t \in Tabs : Serve(t) \/ ServeBreaks(t)
  BY DEF OutboxNext, outboxVars, theServer, SignIn, SignOut, SessionEnds, Rotate, Expires, Reload, Reopen,
     Renewed, NotRenewed, Press, FlushBegins, FlushNext, FlushEnds, TurnedAway, Answered,
     TakenForRefusal, NoAnswer
<1>2. call[t].key \in Requests
  BY <1>1, CallIs DEF Serve, ServeBreaks, CallOf
<1>3. LetIn(call[t].token) \in People
  BY LetInIs DEF OutboxInv
<1> QED BY <1>1, <1>2, <1>3 DEF Serve, ServeBreaks, OutboxInv, JudgedType

\* Who pressed a key, what was agreed and what met a hole is never taken back.
LEMMA ToldStep ==
    ASSUME OutboxInv, [OutboxNext]_outboxVars
    PROVE  /\ ToldType' /\ HolesType'
           /\ \A k \in Requests : pressed[k] # Nobody => pressed'[k] = pressed[k]
           /\ agreed \subseteq agreed' /\ outboxHoles \subseteq outboxHoles'
<1> DEFINE Goal == /\ ToldType' /\ HolesType'
                   /\ \A k \in Requests : pressed[k] # Nobody => pressed'[k] = pressed[k]
                   /\ agreed \subseteq agreed' /\ outboxHoles \subseteq outboxHoles'
<1> USE DEF ToldType, HolesType
<1>0. ToldType /\ HolesType /\ StoredType
  BY DEF OutboxInv
<1> SUFFICES ASSUME ~UNCHANGED told PROVE Goal
  BY <1>0 DEF told
<1>1. ASSUME NEW t \in Tabs, SignOut(t) PROVE Goal
  BY <1>0, <1>1 DEF SignOut, StoredType
<1>2. ASSUME NEW t \in Tabs, NEW k \in Requests, Press(t, k) PROVE Goal
  <2>1. page[t].me \in People
    BY CallIs DEF Pages
  <2> QED BY <1>0, <1>2, <2>1 DEF Press
<1>3. ASSUME NEW t \in Tabs, NEW token, GoOn(t, token), UNCHANGED <<pressed, agreed>> PROVE Goal
  <2>1. call[t].at = "renewing" => call[t].key \in Requests
    BY CallIs DEF CallOf
  <2> QED BY <1>0, <1>3, <2>1 DEF GoOn
<1>4. ASSUME NEW t \in Tabs, TakenForRefusal(t) \/ NoAnswer(t) PROVE Goal
  <2>1. call[t].key \in Requests
    BY <1>4, CallIs DEF CallOf, TakenForRefusal, NoAnswer
  <2>2. CASE TakenForRefusal(t)
    BY <1>0, <2>1, <2>2 DEF TakenForRefusal
  <2>3. CASE NoAnswer(t)
    <3>1. \/ outboxHoles' = outboxHoles \cup {<<"switched", call[t].key>>}
          \/ outboxHoles' = outboxHoles
      BY <2>3 DEF NoAnswer
    <3>2. UNCHANGED <<pressed, agreed>>
      BY <2>3 DEF NoAnswer
    <3> QED BY <1>0, <2>1, <3>1, <3>2
  <2> QED BY <1>4, <2>2, <2>3
<1> HIDE DEF Goal
<1>5. ASSUME NEW t \in Tabs, Renewed(t) \/ NotRenewed(t) PROVE Goal
  BY <1>3, <1>5 DEF Renewed, NotRenewed
<1> QED
  BY <1>1, <1>2, <1>4, <1>5 DEF OutboxNext, outboxVars, told, SignIn, SessionEnds, Rotate, Expires,
     Reload, Reopen, FlushBegins, FlushNext, FlushEnds, Serve, ServeBreaks, TurnedAway, Answered

\* All of it, in every step.
LEMMA GrowsStep == ASSUME OutboxInv, [OutboxNext]_outboxVars PROVE Grows
  BY SessionsStep, JudgedStep, ToldStep DEF Grows

\* So what was said of a call, a page, a cookie stays true.
LEMMA CallKept ==
    ASSUME Grows, SessionsType, ToldType, NEW sent \in Sendings, NEW left \in SUBSET Requests, CallOf(sent, left)
    PROVE  CallOf(sent, left)'
  BY DEF Grows, SessionsKept, CallOf, Theirs, Switched, Sendings, SessionsType

\* A cookie of a session stays one.
LEMMA CookieKept == ASSUME SessionsKept, NEW held, OfASession(held) PROVE OfASession(held)'
  BY DEF SessionsKept, OfASession

-----------------------------------------------------------------------------
(* The cookie, the renewals and the pages, one step further.                   *)

\* The browser's cookie is of a session there is.
LEMMA CookieStep ==
    ASSUME OutboxInv, [OutboxNext]_outboxVars
    PROVE  CookieType' /\ OfASession(cookie)'
<1>0. SessionsKept /\ SessionsType' /\ CookieType /\ OfASession(cookie)
  BY SessionsStep DEF OutboxInv, CookiesHold
<1>1. OfASession(cookie)'
  <2>1. CASE cookie' = cookie
    BY <1>0, <2>1 DEF SessionsKept, OfASession
  <2>2. ASSUME NEW t \in Tabs, NEW a \in Accounts, SignIn(t, a) PROVE OfASession(cookie)'
    <3>1. cookie'.sid = Len(sessions') /\ Len(sessions') = Len(sessions) + 1
      BY <2>2 DEF SignIn, OutboxInv, SessionsType
    <3>2. DOMAIN sessions' = 1 .. Len(sessions')
      BY <1>0 DEF SessionsType
    <3>3. Len(sessions') \in DOMAIN sessions'
      BY <3>1, <3>2 DEF OutboxInv, SessionsType
    <3> QED BY <3>1, <3>3 DEF OfASession
  <2>3. ASSUME NEW t \in Tabs, Renewed(t) PROVE OfASession(cookie)'
    BY <1>0, <2>3, CallIs DEF Renewed, SessionsKept, OfASession
  <2>4. ASSUME NEW t \in Tabs, SignOut(t) PROVE cookie' = cookie \/ OfASession(cookie)'
    BY <2>4 DEF SignOut, OfASession, NoCookie
  <2> QED
    BY <2>1, <2>2, <2>3, <2>4 DEF OutboxNext, outboxVars, browser, Expires, Reload, SessionEnds, Reopen,
       Rotate, NotRenewed, Press, FlushBegins, FlushNext, FlushEnds, Serve, ServeBreaks, TurnedAway, Answered,
       TakenForRefusal, NoAnswer
<1>2. cookie' \in Cookies
  <2>1. ASSUME NEW t \in Tabs, NEW a \in Accounts, SignIn(t, a) PROVE cookie' \in Cookies
    <3>1. Len(sessions') \in 0 .. MaxSignIns
      BY <1>0, OutboxAssumption DEF SessionsType
    <3> QED BY <2>1, <3>1 DEF SignIn, Cookies
  <2>2. ASSUME NEW t \in Tabs, Renewed(t) PROVE cookie' \in Cookies
    BY <2>2, CallIs DEF Renewed, Renewals
  <2>3. ASSUME NEW t \in Tabs, SignOut(t) PROVE cookie' \in Cookies
    BY <1>0, <2>3, NoCookieIs DEF SignOut, CookieType
  <2> QED
    BY <1>0, <2>1, <2>2, <2>3 DEF CookieType, OutboxNext, outboxVars, browser, Expires, Reload, SessionEnds,
       Reopen, Rotate, NotRenewed, Press, FlushBegins, FlushNext, FlushEnds, Serve, ServeBreaks, TurnedAway,
       Answered, TakenForRefusal, NoAnswer
<1>3. mark' \in {"in", "out", "none"}
  <2>1. \/ mark' = mark
        \/ mark' = "in"
        \/ mark' = "out"
        \/ mark' = "none"
    BY DEF OutboxNext, outboxVars, browser, Expires, Reload, SessionEnds,
       Reopen, Rotate, NotRenewed, Press, FlushBegins, FlushNext, FlushEnds, Serve, ServeBreaks, TurnedAway,
       Answered, TakenForRefusal, NoAnswer, SignIn, SignOut, Renewed, SetSession
  <2> QED BY <1>0, <2>1 DEF CookieType
<1> QED BY <1>1, <1>2, <1>3 DEF CookieType

RenewalsHold == \A t \in Tabs : OfASession(renewal[t].carries)

\* One tab's renewal changes to one of a session there is.
LEMMA RenewalChanges ==
    ASSUME OutboxInv, SessionsKept, NEW t \in Tabs, NEW brought \in Renewals, OfASession(brought.carries)',
           renewal' = [renewal EXCEPT ![t] = brought]
    PROVE  RenewalsType' /\ RenewalsHold'
<1>1. RenewalsType /\ RenewalsHold
  BY DEF OutboxInv, CookiesHold, RenewalsHold
<1>2. RenewalsType'
  BY <1>1 DEF RenewalsType
<1>3. ASSUME NEW u \in Tabs PROVE OfASession(renewal[u].carries)'
  <2>1. CASE u = t
    BY <1>1, <2>1 DEF RenewalsType
  <2>2. CASE u # t
    BY <1>1, <2>2, CookieKept DEF RenewalsType, RenewalsHold, OfASession, SessionsKept
  <2> QED BY <2>1, <2>2
<1> QED BY <1>2, <1>3 DEF RenewalsHold

\* The renewals stand in a step that touches none.
LEMMA RenewalsKept ==
    ASSUME OutboxInv, SessionsKept, UNCHANGED renewal PROVE RenewalsType' /\ RenewalsHold'
  BY DEF OutboxInv, RenewalsType, RenewalsHold, CookiesHold, SessionsKept, OfASession

\* A renewal at rest carries nothing.
LEMMA NoRenewalIs == NoRenewal \in Renewals /\ NoRenewal.carries = NoCookie
  BY NoCookieIs DEF NoRenewal, Renewals

\* A renewal carries the browser's cookie.
LEMMA AskingIs ==
    ASSUME OutboxInv, SessionsKept, NEW t \in Tabs, Asking(t) PROVE RenewalsType' /\ RenewalsHold'
<1>0. PICK asked : asked = [at |-> "asked", carries |-> cookie]
  OBVIOUS
<1>1. asked \in Renewals /\ asked.carries = cookie
  BY <1>0 DEF OutboxInv, CookieType, Renewals
<1>2. OfASession(cookie)
  BY DEF OutboxInv, CookiesHold
<1>3. OfASession(asked.carries)'
  BY <1>1, <1>2 DEF OfASession, SessionsKept
<1>4. CASE renewal' = [renewal EXCEPT ![t] = asked]
  BY <1>1, <1>3, <1>4, RenewalChanges
<1> QED BY <1>0, <1>4, RenewalsKept DEF Asking

\* Whatever a renewal carries or brings is of a session there is.
LEMMA RenewalStep ==
    ASSUME OutboxInv, [OutboxNext]_outboxVars
    PROVE  RenewalsType' /\ RenewalsHold'
<1>0. SessionsKept
  BY SessionsStep
<1> SUFFICES ASSUME ~UNCHANGED renewal PROVE RenewalsType' /\ RenewalsHold'
  BY <1>0, RenewalsKept
<1>1. ASSUME NEW t \in Tabs, Asking(t) PROVE RenewalsType' /\ RenewalsHold'
  BY <1>0, <1>1, AskingIs
<1>2. ASSUME NEW t \in Tabs, renewal' = [renewal EXCEPT ![t] = NoRenewal]
      PROVE  RenewalsType' /\ RenewalsHold'
  <2>1. OfASession(NoRenewal.carries)'
    BY NoRenewalIs DEF OfASession
  <2> QED BY <1>0, <1>2, <2>1, NoRenewalIs, RenewalChanges
<1>3. ASSUME NEW t \in Tabs, Rotate(t) PROVE RenewalsType' /\ RenewalsHold'
  <2> DEFINE held == renewal[t].carries
             next == [held EXCEPT !.jti = held.jti + 1]
  <2>1. held \in Cookies /\ OfASession(held)
    BY CallIs DEF Renewals
  <2>2. next \in Cookies /\ next.sid = held.sid
    BY <2>1 DEF Cookies
  <2>3. PICK token : /\ renewal' = [renewal EXCEPT ![t] = [at |-> "answered", carries |-> token]]
                     /\ token = NoCookie \/ (token = next /\ held.sid # 0)
    <3>1. \/ renewal' = [renewal EXCEPT ![t] = [at |-> "answered", carries |-> NoCookie]]
          \/ /\ renewal' = [renewal EXCEPT ![t] = [at |-> "answered", carries |-> next]]
             /\ held.sid # 0
      BY <1>3 DEF Rotate
    <3> QED BY <3>1
  <2>4. token \in Cookies
    BY <2>2, <2>3, NoCookieIs
  <2>5. OfASession(token)
    BY <2>1, <2>2, <2>3, NoCookieIs DEF OfASession
  <2> DEFINE brought == [at |-> "answered", carries |-> token]
  <2>6. brought \in Renewals /\ brought.carries = token
    BY <2>4 DEF Renewals
  <2>7. OfASession(brought.carries)'
    BY <1>0, <2>5, <2>6 DEF OfASession, SessionsKept
  <2>8. renewal' = [renewal EXCEPT ![t] = brought]
    BY <2>3
  <2> HIDE DEF brought
  <2> QED BY <1>0, <2>6, <2>7, <2>8, RenewalChanges
<1> QED
  BY <1>1, <1>2, <1>3 DEF OutboxNext, outboxVars, Expires, Reload, SessionEnds, Reopen,
     Renewed, NotRenewed, Press, Dispatch, FlushBegins, FlushNext, FlushEnds, Serve, ServeBreaks, TurnedAway, Answered,
     TakenForRefusal, NoAnswer, SignIn, SignOut

\* One tab's page changes to one whose token is of its account.
LEMMA PageChanges ==
    ASSUME OutboxInv, SessionsKept, NEW t \in Tabs, NEW seen \in Pages, PageOf(seen)',
           page' = [page EXCEPT ![t] = seen]
    PROVE  PagesType' /\ PagesHold'
<1>1. PagesType /\ PagesHold
  BY DEF OutboxInv
<1>2. PagesType'
  BY <1>1 DEF PagesType
<1>3. ASSUME NEW u \in Tabs PROVE PageOf(page[u])'
  <2>1. CASE u = t
    BY <1>1, <2>1 DEF PagesType
  <2>2. CASE u # t
    BY <1>1, <2>2 DEF PagesType, PagesHold, PageOf, SessionsKept
  <2> QED BY <2>1, <2>2
<1> QED BY <1>2, <1>3 DEF PagesHold

\* A tab's token is of the account it shows.
LEMMA PageStep ==
    ASSUME OutboxInv, [OutboxNext]_outboxVars
    PROVE  PagesType' /\ PagesHold'
<1>0. SessionsKept /\ SessionsType' /\ PagesType /\ PagesHold
  BY SessionsStep DEF OutboxInv
<1> SUFFICES ASSUME ~UNCHANGED page PROVE PagesType' /\ PagesHold'
  BY <1>0 DEF PagesType, PagesHold, PageOf, SessionsKept
<1>1. ASSUME NEW t \in Tabs, page' = [page EXCEPT ![t] = SignedOut] PROVE PagesType' /\ PagesHold'
  <2>1. PageOf(SignedOut)'
    BY SignedOutIs DEF PageOf
  <2> QED BY <1>0, <1>1, <2>1, SignedOutIs, PageChanges
<1>2. ASSUME NEW t \in Tabs, NEW sid \in DOMAIN sessions', NEW whose, SetSession(t, sid, whose),
             whose = sessions'[sid].owner
      PROVE  PagesType' /\ PagesHold'
  <2> DEFINE seen == [me |-> whose, token |-> sid, due |-> FALSE]
  <2>0. DOMAIN sessions' = 1 .. Len(sessions') /\ sessions'[sid] \in SessionRows /\ Len(sessions') \in Nat
    BY <1>0, <1>2 DEF SessionsType
  <2>1. sid \in 0 .. MaxSignIns /\ whose \in Accounts
    BY <1>0, <1>2, <2>0, OutboxAssumption DEF SessionsType, SessionRows
  <2>2. seen \in Pages /\ seen.token = sid /\ seen.me = whose
    BY <2>1 DEF Pages, People
  <2>3. PageOf(seen)'
    BY <1>2, <2>2 DEF PageOf
  <2>4. page' = [page EXCEPT ![t] = seen]
    BY <1>2 DEF SetSession
  <2> HIDE DEF seen
  <2> QED BY <1>0, <2>2, <2>3, <2>4, PageChanges
<1>3. ASSUME NEW t \in Tabs, NEW a \in Accounts, SignIn(t, a) PROVE PagesType' /\ PagesHold'
  <2> DEFINE row == [owner |-> a, jti |-> 1, open |-> TRUE, cut |-> FALSE]
  <2>1. sessions' = Append(sessions, row) /\ row.owner = a /\ SetSession(t, Len(sessions'), a)
    BY <1>3 DEF SignIn
  <2> HIDE DEF row
  <2>2. Len(sessions') \in DOMAIN sessions' /\ sessions'[Len(sessions')] = row
    BY <2>1 DEF OutboxInv, SessionsType
  <2> QED BY <1>2, <2>1, <2>2
<1>4. ASSUME NEW t \in Tabs, Renewed(t) PROVE PagesType' /\ PagesHold'
  <2> DEFINE sid == renewal[t].carries.sid
  <2>1. sid \in DOMAIN sessions /\ SetSession(t, sid, sessions[sid].owner) /\ UNCHANGED sessions
    BY <1>4, CallIs DEF Renewed, OfASession, theServer
  <2> HIDE DEF sid
  <2> QED BY <1>2, <2>1
<1>5. ASSUME NEW t \in Tabs, Expires(t) PROVE PagesType' /\ PagesHold'
  <2>0. PICK seen : seen = [page[t] EXCEPT !.due = TRUE]
    OBVIOUS
  <2>1. page[t] \in Pages /\ PageOf(page[t])
    BY CallIs
  <2>2. seen \in Pages /\ seen.me = page[t].me /\ seen.token = page[t].token
    BY <2>0, <2>1 DEF Pages
  <2>3. PageOf(seen)'
    BY <1>0, <2>1, <2>2 DEF PageOf, SessionsKept
  <2>4. page' = [page EXCEPT ![t] = seen]
    BY <1>5, <2>0 DEF Expires
  <2> QED BY <1>0, <2>2, <2>3, <2>4, PageChanges
<1> QED
  BY <1>1, <1>3, <1>4, <1>5 DEF OutboxNext, outboxVars, Reload, SessionEnds, Reopen, Rotate,
     NotRenewed, Press, FlushBegins, FlushNext, FlushEnds, Serve, ServeBreaks, TurnedAway, Answered,
     TakenForRefusal, NoAnswer, SignOut

-----------------------------------------------------------------------------
(* The calls, one step further.                                                *)

\* One tab's call and what its flush has left change, the other tabs' stand.
LEMMA CallChanges ==
    ASSUME OutboxInv, Grows, NEW t \in Tabs, NEW sent \in Sendings, NEW left \in SUBSET Requests,
           CallOf(sent, left)', call' = [call EXCEPT ![t] = sent], rest' = [rest EXCEPT ![t] = left]
    PROVE  CallsType' /\ CallsHold'
<1>1. CallsType /\ CallsHold /\ SessionsType /\ ToldType
  BY DEF OutboxInv
<1>2. CallsType'
  BY <1>1 DEF CallsType
<1>3. ASSUME NEW u \in Tabs PROVE CallOf(call[u], rest[u])'
  <2>1. CASE u = t
    <3>1. call'[u] = sent /\ rest'[u] = left
      BY <1>1, <2>1 DEF CallsType
    <3> QED BY <3>1 DEF CallOf, Theirs, Switched
  <2>2. CASE u # t
    <3>1. PICK his, hers : his = call[u] /\ hers = rest[u]
      OBVIOUS
    <3>2. his \in Sendings /\ hers \in SUBSET Requests /\ CallOf(his, hers)
      BY <1>1, <3>1 DEF CallsType, CallsHold
    <3>3. CallOf(his, hers)'
      BY <1>1, <3>2, CallKept
    <3>4. call'[u] = his /\ rest'[u] = hers
      BY <1>1, <2>2, <3>1 DEF CallsType
    <3> QED BY <3>3, <3>4 DEF CallOf, Theirs, Switched
  <2> QED BY <2>1, <2>2
<1> QED BY <1>2, <1>3 DEF CallsHold

\* What was said of the calls stays true in a step that touches none.
LEMMA CallsKept ==
    ASSUME OutboxInv, Grows, UNCHANGED <<call, rest>> PROVE CallsType' /\ CallsHold'
<1>1. CallsType /\ CallsHold /\ SessionsType /\ ToldType
  BY DEF OutboxInv
<1>2. ASSUME NEW u \in Tabs PROVE CallOf(call[u], rest[u])'
  <2>1. PICK his, hers : his = call[u] /\ hers = rest[u]
    OBVIOUS
  <2>2. his \in Sendings /\ hers \in SUBSET Requests /\ CallOf(his, hers)
    BY <1>1, <2>1 DEF CallsType, CallsHold
  <2>3. CallOf(his, hers)'
    BY <1>1, <2>2, CallKept
  <2> QED BY <2>1, <2>3 DEF CallOf, Theirs, Switched
<1> QED BY <1>1, <1>2 DEF CallsType, CallsHold

\* A call that only moves to a place where nothing is promised of its answer.
LEMMA OneMoves ==
    ASSUME OutboxInv, Grows, NEW t \in Tabs, NEW sent \in Sendings,
           sent.key = call[t].key, sent.by = call[t].by, sent.me = call[t].me, sent.token = call[t].token,
           call[t].at \notin {"rest", "next"}, sent.at \notin {"rest", "done"},
           call' = [call EXCEPT ![t] = sent], UNCHANGED rest
    PROVE  CallsType' /\ CallsHold'
<1>0. PICK left \in SUBSET Requests : left = rest[t]
  BY CallIs
<1>1. CallOf(sent, left)
  BY <1>0, CallIs DEF CallOf
<1>2. CallOf(sent, left)'
  BY <1>1, CallKept DEF OutboxInv
<1>3. rest' = [rest EXCEPT ![t] = left]
  BY <1>0 DEF OutboxInv, CallsType
<1> QED BY <1>2, <1>3, CallChanges

\* A call that ends.
LEMMA OneEnds ==
    ASSUME OutboxInv, Grows, NEW t \in Tabs, call' = [call EXCEPT ![t] = NoCall],
           rest' = [rest EXCEPT ![t] = {}]
    PROVE  CallsType' /\ CallsHold'
<1>1. CallOf(NoCall, {})'
  BY NoCallIs DEF CallOf
<1> QED BY <1>1, NoCallIs, CallChanges

\* A call goes on with the token its renewal brought: of its own account, or noted.
LEMMA OneGoesOn ==
    ASSUME OutboxInv, Grows, NEW t \in Tabs, NEW token \in 0 .. MaxSignIns,
           token = 0 \/ token \in DOMAIN sessions, GoOn(t, token), UNCHANGED <<sessions, rest>>
    PROVE  CallsType' /\ CallsHold'
<1>1. CASE call[t].at # "renewing"
  BY <1>1, CallsKept DEF GoOn
<1>2. CASE call[t].at = "renewing"
  <2>0. PICK at, left : /\ at = (IF token = 0 /\ call[t].again THEN "unsigned" ELSE "out")
                        /\ left = rest[t]
    OBVIOUS
  <2>1. call[t] \in Sendings /\ left \in SUBSET Requests /\ CallOf(call[t], left)
    BY <2>0, CallIs
  <2>2. PICK sent : sent = [call[t] EXCEPT !.at = at, !.token = token]
    OBVIOUS
  <2>3. at \in {"unsigned", "out"} /\ at \in CallPlaces
    BY <2>0 DEF CallPlaces
  <2>4. /\ sent \in Sendings /\ sent.at = at /\ sent.token = token
        /\ sent.key = call[t].key /\ sent.by = call[t].by /\ sent.me = call[t].me
    <3>1. call[t] \in Sendings /\ at \in CallPlaces /\ token \in 0 .. MaxSignIns
      BY <2>1, <2>3
    <3> QED BY <2>2, <3>1 DEF Sendings
  <2>5. call' = [call EXCEPT ![t] = sent]
    <3>1. call' = [call EXCEPT ![t].token = token,
                               ![t].at = IF token = 0 /\ call[t].again THEN "unsigned" ELSE "out"]
      BY <1>2 DEF GoOn
    <3>2. sent = [[call[t] EXCEPT !.token = token] EXCEPT !.at = at]
      BY <2>1, <2>2 DEF Sendings
    <3> QED BY <2>0, <3>1, <3>2 DEF OutboxInv, CallsType
  <2>6. rest' = [rest EXCEPT ![t] = left]
    BY <2>0 DEF OutboxInv, CallsType
  <2>7. sent.key \in Requests /\ Theirs(sent.key, sent.me)'
    <3>1. sent.key \in Requests /\ Theirs(sent.key, sent.me) /\ sent.me # Nobody
      BY <1>2, <2>1, <2>4 DEF CallOf
    <3> QED BY <3>1 DEF Theirs, Switched, Grows
  <2>8. \/ token = 0
        \/ token \in DOMAIN sessions' /\ (sessions'[token].owner = sent.me \/ Switched(sent.key)')
    <3>1. token # 0 => \/ sessions[token].owner \in {Nobody, call[t].me}
                       \/ <<"switched", call[t].key>> \in outboxHoles'
      BY <1>2 DEF GoOn
    <3>2. token # 0 => sessions[token] \in SessionRows
      BY DEF OutboxInv, SessionsType
    <3>3. token # 0 => sessions[token].owner # Nobody
      BY <3>2, OutboxAssumption DEF SessionRows
    <3> QED BY <2>4, <3>1, <3>3 DEF Switched
  <2>9. ASSUME NEW k \in left PROVE Theirs(k, sent.me)'
    <3>1. Theirs(k, sent.me) /\ k \in Requests /\ sent.me # Nobody
      BY <1>2, <2>1, <2>4 DEF CallOf
    <3> QED BY <3>1 DEF Theirs, Switched, Grows
  <2>10. CallOf(sent, left)'
    BY <1>2, <2>1, <2>3, <2>4, <2>7, <2>8, <2>9 DEF CallOf
  <2> QED BY <2>1, <2>4, <2>5, <2>6, <2>10, CallChanges
<1> QED BY <1>1, <1>2

\* What Dispatch sends: a call of the account the tab shows, with that account's token or none.
LEMMA DispatchIs ==
    ASSUME OutboxInv, NEW t \in Tabs, NEW sent \in Sendings, sent.me = page[t].me, sent.me # Nobody,
           Dispatch(t, sent)
    PROVE  \E out \in Sendings :
              /\ call' = [call EXCEPT ![t] = out]
              /\ out.at \in {"renewing", "out"}
              /\ out.key = sent.key /\ out.by = sent.by /\ out.me = sent.me
              /\ \/ out.token = 0
                 \/ out.token \in DOMAIN sessions /\ sessions[out.token].owner = out.me
<1>1. PICK at, token : /\ at = (IF page[t].due /\ mark # "out" THEN "renewing" ELSE "out")
                       /\ token = (IF page[t].due THEN 0 ELSE page[t].token)
  OBVIOUS
<1>2. at \in {"renewing", "out"} /\ at \in CallPlaces
  BY <1>1 DEF CallPlaces
<1>3. page[t] \in Pages /\ PageOf(page[t])
  BY CallIs
<1>4. token \in 0 .. MaxSignIns
  BY <1>1, <1>3, OutboxAssumption DEF Pages
<1>5. token = 0 \/ (token \in DOMAIN sessions /\ sessions[token].owner = page[t].me)
  BY <1>1, <1>3 DEF PageOf
<1>6. PICK out : out = [sent EXCEPT !.at = at, !.token = token]
  OBVIOUS
<1>7. /\ out \in Sendings /\ out.at = at /\ out.token = token
      /\ out.key = sent.key /\ out.by = sent.by /\ out.me = sent.me
  BY <1>2, <1>4, <1>6 DEF Sendings
<1>8. call' = [call EXCEPT ![t] = out]
  BY <1>1, <1>6 DEF Dispatch
<1> QED BY <1>2, <1>5, <1>7, <1>8

\* One step for each action that touches a call.
LEMMA PressStep ==
    ASSUME OutboxInv, Grows, NEW t \in Tabs, NEW k \in Requests, Press(t, k)
    PROVE  CallsType' /\ CallsHold'
<1>0. PICK me, left : me = page[t].me /\ left = rest[t]
  OBVIOUS
<1>1. me \in People /\ me # Nobody /\ left \in SUBSET Requests /\ left = {}
  BY <1>0, CallIs DEF Press, Idle, CallOf, Pages
<1>2. PICK sent : sent = [NoCall EXCEPT !.key = k, !.by = "form", !.me = me]
  OBVIOUS
<1>3. sent \in Sendings /\ sent.key = k /\ sent.by = "form" /\ sent.me = me
  BY <1>1, <1>2, CallBegins
<1>4. Dispatch(t, sent)
  BY <1>0, <1>2 DEF Press
<1>5. PICK out \in Sendings :
              /\ call' = [call EXCEPT ![t] = out]
              /\ out.at \in {"renewing", "out"}
              /\ out.key = k /\ out.by = "form" /\ out.me = me
              /\ \/ out.token = 0
                 \/ out.token \in DOMAIN sessions /\ sessions[out.token].owner = out.me
  BY <1>0, <1>1, <1>3, <1>4, DispatchIs
<1>6. UNCHANGED <<sessions, rest>> /\ pressed'[k] = me
  BY <1>0 DEF Press, theServer, OutboxInv, ToldType
<1>7. CallOf(out, left)'
  BY <1>1, <1>5, <1>6 DEF CallOf, Theirs
<1>8. rest' = [rest EXCEPT ![t] = left]
  BY <1>0, <1>6 DEF OutboxInv, CallsType
<1> QED BY <1>1, <1>5, <1>7, <1>8, CallChanges

\* A flush takes up what its account has stored.
LEMMA FlushBeginsStep ==
    ASSUME OutboxInv, Grows, NEW t \in Tabs, FlushBegins(t)
    PROVE  CallsType' /\ CallsHold'
<1>0. PICK me, left : me = page[t].me /\ left = Mine(t)
  OBVIOUS
<1>1. me \in People /\ left \in SUBSET Requests
  BY <1>0, CallIs DEF Mine, OutboxInv, StoredType, Pages
<1>2. \A k \in left : owner[k] = me /\ Theirs(k, me) /\ me # Nobody
  BY <1>0, <1>1 DEF Mine, OutboxInv, OwnersHold
<1>3. me # Nobody
  BY <1>0, <1>2 DEF FlushBegins
<1>4. PICK sent : sent = [NoCall EXCEPT !.at = "next", !.by = "flush", !.me = me]
  OBVIOUS
<1>5. sent \in Sendings /\ sent.at = "next" /\ sent.by = "flush" /\ sent.me = me
  BY <1>1, <1>4, FlushCalls
<1>6. UNCHANGED told
  BY DEF FlushBegins
<1>7. CallOf(sent, left)'
  BY <1>2, <1>3, <1>5, <1>6 DEF CallOf, Theirs, Switched, told
<1>8. call' = [call EXCEPT ![t] = sent] /\ rest' = [rest EXCEPT ![t] = left]
  BY <1>0, <1>4 DEF FlushBegins
<1> QED BY <1>1, <1>5, <1>7, <1>8, CallChanges

\* The next request of a flush is its account's.
LEMMA FlushNextStep ==
    ASSUME OutboxInv, Grows, NEW t \in Tabs, FlushNext(t)
    PROVE  CallsType' /\ CallsHold'
<1>1. PICK k \in rest[t] : /\ rest' = [rest EXCEPT ![t] = rest[t] \ {k}]
                           /\ Dispatch(t, [call[t] EXCEPT !.key = k, !.again = FALSE])
  BY DEF FlushNext
<1>0. PICK had, left, sent : /\ had = call[t] /\ left = rest[t] \ {k}
                             /\ sent = [call[t] EXCEPT !.key = k, !.again = FALSE]
  OBVIOUS
<1>2. /\ had \in Sendings /\ CallOf(had, rest[t]) /\ k \in Requests /\ left \in SUBSET Requests
      /\ had.at = "next" /\ had.me = page[t].me
  BY <1>0, CallIs DEF FlushNext
<1>3. had.by = "flush" /\ had.me # Nobody
  BY <1>2 DEF CallOf
<1>4. sent \in Sendings /\ sent.key = k /\ sent.by = "flush" /\ sent.me = had.me
  BY <1>0, <1>2, <1>3, CallTakesKey
<1>5. PICK out \in Sendings :
              /\ call' = [call EXCEPT ![t] = out]
              /\ out.at \in {"renewing", "out"}
              /\ out.key = k /\ out.by = "flush" /\ out.me = had.me
              /\ \/ out.token = 0
                 \/ out.token \in DOMAIN sessions /\ sessions[out.token].owner = out.me
  <2>1. Dispatch(t, sent) /\ sent.me = page[t].me /\ sent.me # Nobody
    BY <1>0, <1>1, <1>2, <1>3, <1>4
  <2> QED BY <1>4, <2>1, DispatchIs
<1>6. UNCHANGED <<sessions, told>>
  BY DEF FlushNext, theServer
<1>7. \A j \in left \cup {k} : Theirs(j, had.me)'
  BY <1>0, <1>2, <1>6 DEF CallOf, Theirs, Switched, told
<1>8. CallOf(out, left)'
  BY <1>3, <1>5, <1>6, <1>7, <1>2 DEF CallOf
<1>9. rest' = [rest EXCEPT ![t] = left]
  BY <1>0, <1>1
<1> QED BY <1>2, <1>5, <1>8, <1>9, CallChanges

\* A call that was let in leaves the server with a row or a refusal.
LEMMA ServeStep ==
    ASSUME OutboxInv, Grows, NEW t \in Tabs, Serve(t)
    PROVE  CallsType' /\ CallsHold'
<1>0. PICK had, left, at : /\ had = call[t] /\ left = rest[t]
                           /\ at = (IF LetIn(call[t].token) = Nobody THEN "turned away" ELSE "done")
  OBVIOUS
<1>1. /\ had \in Sendings /\ left \in SUBSET Requests /\ CallOf(had, left) /\ had.at = "out"
      /\ at \in {"turned away", "done"} /\ at \in CallPlaces
  BY <1>0, CallIs DEF Serve, CallPlaces
<1>2. PICK sent : sent = [had EXCEPT !.at = at]
  OBVIOUS
<1>3. /\ sent \in Sendings /\ sent.at = at /\ sent.key = had.key /\ sent.by = had.by /\ sent.me = had.me
      /\ sent.token = had.token
  BY <1>1, <1>2, CallMoves
<1>4. CASE at = "turned away"
  <2>1. call' = [call EXCEPT ![t] = sent] /\ UNCHANGED rest
    BY <1>0, <1>2 DEF Serve
  <2> QED BY <1>0, <1>1, <1>3, <1>4, <2>1, OneMoves
<1>5. CASE at = "done"
  <2>1. call' = [call EXCEPT ![t] = sent] /\ rest' = [rest EXCEPT ![t] = left]
    BY <1>0, <1>2 DEF Serve, OutboxInv, CallsType
  <2>2. had.key \in Requests
    BY <1>1 DEF CallOf
  <2>3. LetIn(had.token) # Nobody
    BY <1>0, <1>5
  <2>4. filed'[had.key] # Nobody \/ had.key \in refused'
    BY <1>0, <2>2, <2>3 DEF Serve, OutboxInv, JudgedType
  <2>5. CallOf(had, left)'
    BY <1>1, CallKept DEF OutboxInv
  <2>6. CallOf(sent, left)'
    BY <1>1, <1>3, <2>4, <2>5 DEF CallOf
  <2> QED BY <1>1, <1>3, <2>1, <2>6, CallChanges
<1> QED BY <1>1, <1>4, <1>5

\* A 401 moves the call, its key and its account stay.
LEMMA TurnedAwayStep ==
    ASSUME OutboxInv, Grows, NEW t \in Tabs, TurnedAway(t)
    PROVE  CallsType' /\ CallsHold'
<1>1. call[t] \in Sendings /\ call[t].at = "turned away" /\ UNCHANGED rest
  BY CallIs DEF TurnedAway
<1>2. PICK sent \in Sendings :
        /\ sent.at \in {"unsigned", "renewing"} /\ call' = [call EXCEPT ![t] = sent]
        /\ sent.key = call[t].key /\ sent.by = call[t].by /\ sent.me = call[t].me
        /\ sent.token = call[t].token
  <2>1. CASE call' = [call EXCEPT ![t].at = "unsigned"]
    <3>1. "unsigned" \in CallPlaces
      BY DEF CallPlaces
    <3>2. call' = [call EXCEPT ![t] = [call[t] EXCEPT !.at = "unsigned"]]
      BY <2>1
    <3> QED BY <1>1, <3>1, <3>2, CallMoves
  <2>2. CASE call' = [call EXCEPT ![t].at = "renewing", ![t].again = TRUE]
    <3>1. call' = [call EXCEPT ![t] = [call[t] EXCEPT !.at = "renewing", !.again = TRUE]]
      BY <1>1, <2>2 DEF OutboxInv, CallsType
    <3> QED BY <1>1, <3>1, CallAsksAgain
  <2> QED BY <2>1, <2>2 DEF TurnedAway
<1> QED BY <1>1, <1>2, OneMoves

\* A call whose answer is no judgement keeps what it has.
LEMMA ServeBreaksStep ==
    ASSUME OutboxInv, Grows, NEW t \in Tabs, ServeBreaks(t)
    PROVE  CallsType' /\ CallsHold'
<1>0. PICK had : had = call[t]
  OBVIOUS
<1>1. had \in Sendings /\ CallOf(had, rest[t]) /\ had.at = "out" /\ "unjudged" \in CallPlaces
  BY <1>0, CallIs DEF ServeBreaks, CallPlaces
<1>2. PICK sent : sent = [had EXCEPT !.at = "unjudged"]
  OBVIOUS
<1>3. /\ sent \in Sendings /\ sent.at = "unjudged" /\ sent.key = had.key /\ sent.by = had.by
      /\ sent.me = had.me /\ sent.token = had.token
  BY <1>1, <1>2, CallMoves
<1>4. call' = [call EXCEPT ![t] = sent] /\ UNCHANGED rest
  BY <1>0, <1>2 DEF ServeBreaks
<1> QED BY <1>0, <1>1, <1>3, <1>4, OneMoves

\* After an answer a form's call ends and a flush stands before its next.
LEMMA GoesStep ==
    ASSUME OutboxInv, Grows, NEW t \in Tabs, Goes(t),
           call[t].at \in {"done", "unsigned", "unjudged"}, UNCHANGED rest
    PROVE  CallsType' /\ CallsHold'
<1>1. CASE call[t].by # "flush"
  <2>1. rest[t] = {}
    BY <1>1, CallIs DEF CallOf
  <2>2. call' = [call EXCEPT ![t] = NoCall] /\ rest' = [rest EXCEPT ![t] = {}]
    BY <1>1, <2>1 DEF Goes, OutboxInv, CallsType
  <2> QED BY <2>2, OneEnds
<1>2. CASE call[t].by = "flush"
  <2>0. PICK had, left : had = call[t] /\ left = rest[t]
    OBVIOUS
  <2>1. had \in Sendings /\ left \in SUBSET Requests /\ CallOf(had, left) /\ "next" \in CallPlaces
    BY <2>0, CallIs DEF CallPlaces
  <2>2. PICK sent : sent = [had EXCEPT !.at = "next"]
    OBVIOUS
  <2>3. sent \in Sendings /\ sent.at = "next" /\ sent.by = had.by /\ sent.me = had.me
    BY <2>1, <2>2, CallMoves
  <2>4. call' = [call EXCEPT ![t] = sent] /\ rest' = [rest EXCEPT ![t] = left]
    BY <1>2, <2>0, <2>2 DEF Goes, OutboxInv, CallsType
  <2>5. CallOf(had, left)'
    BY <2>1, CallKept DEF OutboxInv
  <2>6. CallOf(sent, left)'
    BY <1>2, <2>0, <2>3, <2>5 DEF CallOf
  <2> QED BY <2>1, <2>3, <2>4, <2>6, CallChanges
<1> QED BY <1>1, <1>2

\* A call keeps to its account and its key, whatever happens to the tab it is in.
LEMMA CallStep ==
    ASSUME OutboxInv, [OutboxNext]_outboxVars
    PROVE  CallsType' /\ CallsHold'
<1>0. Grows
  BY GrowsStep
<1> SUFFICES ASSUME ~UNCHANGED <<call, rest>> PROVE CallsType' /\ CallsHold'
  BY <1>0, CallsKept
<1>1. ASSUME NEW t \in Tabs, Renewed(t) \/ NotRenewed(t) PROVE CallsType' /\ CallsHold'
  <2>1. CASE NotRenewed(t)
    BY <1>0, <2>1, OneGoesOn, OutboxAssumption DEF NotRenewed, theServer
  <2>2. CASE Renewed(t)
    <3>1. PICK token : token = renewal[t].carries.sid
      OBVIOUS
    <3>2. token \in 0 .. MaxSignIns /\ token \in DOMAIN sessions
      BY <2>2, <3>1, CallIs DEF Renewed, Renewals, Cookies, OfASession
    <3> QED BY <1>0, <2>2, <3>1, <3>2, OneGoesOn DEF Renewed, theServer
  <2> QED BY <1>1, <2>1, <2>2
<1>2. ASSUME NEW t \in Tabs, Reload(t) \/ FlushEnds(t) \/ NoAnswer(t) PROVE CallsType' /\ CallsHold'
  BY <1>0, <1>2, OneEnds DEF Reload, FlushEnds, NoAnswer
<1>3. ASSUME NEW t \in Tabs, Answered(t) \/ TakenForRefusal(t) PROVE CallsType' /\ CallsHold'
  BY <1>0, <1>3, GoesStep DEF Answered, TakenForRefusal
<1> QED
  BY <1>0, <1>1, <1>2, <1>3, PressStep, FlushBeginsStep, FlushNextStep, ServeStep, ServeBreaksStep,
     TurnedAwayStep
     DEF OutboxNext, outboxVars, sendingTab, Expires, SessionEnds, Reopen, Rotate, SignIn, SignOut

-----------------------------------------------------------------------------
(* The outbox, one step further.                                               *)

\* What a step takes out of the outbox, or puts into it.
OutboxMoves(t) ==
    \/ SignOut(t) /\ stored' \subseteq stored /\ UNCHANGED owner
    \/ (Answered(t) \/ TakenForRefusal(t)) /\ call[t].by = "flush" /\ stored' = stored \ {call[t].key}
       /\ UNCHANGED owner
    \/ /\ NoAnswer(t) /\ call[t].by = "form" /\ page[t].me # Nobody
       /\ stored' = stored \cup {call[t].key} /\ owner' = [owner EXCEPT ![call[t].key] = page[t].me]

\* Nothing else touches the outbox.
LEMMA OutboxMovesOnly ==
    ASSUME OutboxInv, [OutboxNext]_outboxVars, ~UNCHANGED <<stored, owner>>
    PROVE  \E t \in Tabs : OutboxMoves(t)
<1>1. ASSUME NEW t \in Tabs, SignOut(t) PROVE OutboxMoves(t)
  BY <1>1 DEF SignOut, OutboxMoves
<1>2. ASSUME NEW t \in Tabs, Answered(t) \/ TakenForRefusal(t) PROVE OutboxMoves(t)
  BY <1>2 DEF Answered, TakenForRefusal, Drops, OutboxMoves
<1>3. ASSUME NEW t \in Tabs, NoAnswer(t) PROVE OutboxMoves(t)
  BY <1>3 DEF NoAnswer, theOutbox, OutboxMoves
<1> QED
  BY <1>1, <1>2, <1>3 DEF OutboxNext, outboxVars, theOutbox, SignIn, SessionEnds, Rotate, Expires,
     Reload, Reopen, Renewed, NotRenewed, Press, FlushBegins, FlushNext, FlushEnds, Serve, ServeBreaks, TurnedAway

\* A stored request carries the account that pressed its button, or is noted.
LEMMA OwnersStep ==
    ASSUME OutboxInv, [OutboxNext]_outboxVars
    PROVE  StoredType' /\ OwnersHold'
<1>0. StoredType /\ OwnersHold /\ Grows
  BY GrowsStep DEF OutboxInv
<1>1. \A k \in Requests, a \in Accounts : Theirs(k, a) => Theirs(k, a)'
  BY <1>0, OutboxAssumption DEF Theirs, Switched, Grows
<1>2. CASE stored' \subseteq stored /\ UNCHANGED owner
  <2>1. \A k \in Requests : owner[k] \in People
    BY <1>0 DEF StoredType
  <2>2. ASSUME NEW k \in Requests, owner[k] # Nobody PROVE Theirs(k, owner[k])'
    <3>1. PICK a \in Accounts : a = owner[k]
      BY <2>1, <2>2 DEF People
    <3>2. Theirs(k, a)
      BY <1>0, <2>2, <3>1 DEF OwnersHold
    <3> QED BY <1>1, <1>2, <3>1, <3>2 DEF Theirs, Switched
  <2> QED BY <1>0, <1>2, <2>2 DEF StoredType, OwnersHold
<1>3. ASSUME NEW t \in Tabs, NoAnswer(t), page[t].me # Nobody, stored' = stored \cup {call[t].key},
             owner' = [owner EXCEPT ![call[t].key] = page[t].me], call[t].by = "form"
      PROVE  StoredType' /\ OwnersHold'
  <2>0. PICK key, me : key = call[t].key /\ me = page[t].me
    OBVIOUS
  <2>1. key \in Requests /\ me \in Accounts /\ Theirs(key, call[t].me)
    BY <1>3, <2>0, CallIs DEF NoAnswer, CallOf, Pages, People
  <2>2. Theirs(key, me)'
    <3>1. CASE me = call[t].me
      BY <1>1, <2>1, <3>1 DEF Theirs, Switched, Grows
    <3>2. CASE me # call[t].me
      BY <1>3, <2>0, <3>2 DEF NoAnswer, Theirs, Switched
    <3> QED BY <3>1, <3>2
  <2>3. ASSUME NEW k \in Requests, k # key, owner[k] # Nobody PROVE Theirs(k, owner[k])'
    <3>1. PICK a \in Accounts : a = owner[k]
      BY <1>0, <2>3 DEF StoredType, People
    <3>2. Theirs(k, a)
      BY <1>0, <2>3, <3>1 DEF OwnersHold
    <3>3. owner'[k] = a
      BY <1>0, <1>3, <2>0, <2>3, <3>1 DEF StoredType
    <3> QED BY <1>1, <3>1, <3>2, <3>3 DEF Theirs, Switched
  <2>4. me # Nobody /\ me \in People
    BY <1>3, <2>0, <2>1 DEF People
  <2>5. StoredType'
    BY <1>0, <1>3, <2>0, <2>1, <2>4 DEF StoredType
  <2>6. owner'[key] = me /\ \A k \in Requests : k # key => owner'[k] = owner[k]
    BY <1>0, <1>3, <2>0, <2>1 DEF StoredType
  <2>7. \A k \in stored' : owner'[k] # Nobody
    BY <1>0, <1>3, <2>0, <2>4, <2>6 DEF StoredType, OwnersHold
  <2>8. ASSUME NEW k \in Requests, owner'[k] # Nobody PROVE Theirs(k, owner[k])'
    BY <2>2, <2>3, <2>6, <2>8 DEF Theirs, Switched
  <2> QED BY <2>5, <2>7, <2>8 DEF OwnersHold
<1> QED
  BY <1>2, <1>3, OutboxMovesOnly DEF OutboxMoves

\* A tab shows stored keys.
LEMMA ShownStep ==
    ASSUME OutboxInv, [OutboxNext]_outboxVars
    PROVE  ShownType'
<1>1. stored' \subseteq Requests /\ stored \subseteq Requests /\ ShownType
  BY OwnersStep DEF StoredType, OutboxInv
<1>2. \/ UNCHANGED shown
      \/ \E t \in Tabs : shown' = [shown EXCEPT ![t] = stored] \/ shown' = [shown EXCEPT ![t] = stored']
  BY DEF OutboxNext, outboxVars, theOutbox, SignIn, SignOut, SessionEnds, Rotate, Expires, Reload, Reopen,
     Renewed, NotRenewed, Press, FlushBegins, FlushNext, FlushEnds, Serve, ServeBreaks, TurnedAway, Answered,
     TakenForRefusal, NoAnswer, Drops
<1> QED BY <1>1, <1>2 DEF ShownType

\* The bounds hold.
LEMMA BudgetStep ==
    ASSUME OutboxInv, [OutboxNext]_outboxVars
    PROVE  BudgetType'
<1>1. BudgetType
  BY DEF OutboxInv
<1>2. UNCHANGED troubles \/ Troubled
  BY DEF OutboxNext, outboxVars, outboxBudget, SignIn, SignOut, SessionEnds, Rotate, Expires, Reload, Reopen,
     Renewed, NotRenewed, Press, FlushBegins, FlushNext, FlushEnds, Serve, ServeBreaks, TurnedAway, Answered,
     TakenForRefusal, NoAnswer
<1>3. UNCHANGED expiries \/ (expiries < MaxExpiries /\ expiries' = expiries + 1)
  <2>1. ASSUME NEW t \in Tabs, Expires(t) PROVE expiries < MaxExpiries /\ expiries' = expiries + 1
    BY <2>1 DEF Expires
  <2>2. ASSUME NEW t \in Tabs,
               \/ SignOut(t) \/ Reload(t) \/ Reopen(t) \/ Rotate(t) \/ Renewed(t) \/ NotRenewed(t)
               \/ FlushBegins(t) \/ FlushNext(t) \/ FlushEnds(t)
        PROVE  UNCHANGED expiries
    BY <2>2 DEF outboxBudget, SignOut, Reload, Reopen, Rotate, Renewed, NotRenewed, FlushBegins, FlushNext,
       FlushEnds
  <2>3. ASSUME NEW t \in Tabs,
               \/ Serve(t) \/ ServeBreaks(t) \/ TurnedAway(t) \/ Answered(t)
               \/ TakenForRefusal(t) \/ NoAnswer(t)
        PROVE  UNCHANGED expiries
    BY <2>3 DEF outboxBudget, Serve, ServeBreaks, TurnedAway, Answered, TakenForRefusal, NoAnswer
  <2>4. ASSUME NEW t \in Tabs, NEW a \in Accounts, SignIn(t, a) PROVE UNCHANGED expiries
    BY <2>4 DEF outboxBudget, SignIn
  <2>5. ASSUME NEW t \in Tabs, NEW k \in Requests, Press(t, k) PROVE UNCHANGED expiries
    BY <2>5 DEF outboxBudget, Press
  <2>6. ASSUME NEW sid \in DOMAIN sessions, SessionEnds(sid) PROVE UNCHANGED expiries
    BY <2>6 DEF SessionEnds
  <2>7. CASE UNCHANGED outboxVars
    BY <2>7 DEF outboxVars, outboxBudget
  <2>8. CASE OutboxNext
    <3>1. CASE \E sid \in DOMAIN sessions : SessionEnds(sid)
      BY <3>1, <2>6
    <3>2. CASE \E t \in Tabs :
                  \/ \E a \in Accounts : SignIn(t, a)
                  \/ \E k \in Requests : Press(t, k)
      BY <3>2, <2>4, <2>5
    <3>3. CASE \E t \in Tabs :
                  \/ SignOut(t) \/ Reload(t) \/ Reopen(t) \/ Rotate(t) \/ Renewed(t) \/ NotRenewed(t)
                  \/ FlushBegins(t) \/ FlushNext(t) \/ FlushEnds(t)
      BY <3>3, <2>2
    <3>4. CASE \E t \in Tabs :
                  \/ Serve(t) \/ ServeBreaks(t) \/ TurnedAway(t) \/ Answered(t)
                  \/ TakenForRefusal(t) \/ NoAnswer(t)
      BY <3>4, <2>3
    <3>5. CASE \E t \in Tabs : Expires(t)
      BY <3>5, <2>1
    <3> QED BY <2>8, <3>1, <3>2, <3>3, <3>4, <3>5, Zenon DEF OutboxNext
  <2> QED BY <2>7, <2>8
<1> QED BY <1>1, <1>2, <1>3, OutboxAssumption DEF BudgetType, Troubled

\* What leaves is dealt with, or met an answer that was no judgement.
LEMMA LeavesDealtWith ==
    ASSUME OutboxInv, [OutboxNext]_outboxVars, NEW k \in Requests, LetGo(k)'
    PROVE  DealtWith(k)' \/ Unjudged(k)'
<1>0. Grows
  BY GrowsStep
<1>1. CASE LetGo(k)
  <2>1. DealtWith(k) \/ Unjudged(k)
    BY <1>1 DEF OutboxInv, RequestsAccounted, Unjudged
  <2> QED BY <1>0, <2>1 DEF Grows, DealtWith, Unjudged
<1>2. CASE ~LetGo(k)
  <2>1. PICK t \in Tabs : OutboxMoves(t)
    <3>1. ~UNCHANGED <<stored, owner>>
      BY <1>2 DEF LetGo
    <3> QED BY <3>1, OutboxMovesOnly
  <2>2. CASE SignOut(t)
    BY <1>2, <2>2 DEF SignOut, LetGo, DealtWith
  <2>3. CASE Answered(t) /\ stored' = stored \ {call[t].key} /\ UNCHANGED owner
    <3>1. k = call[t].key
      BY <1>2, <2>3 DEF LetGo
    <3>2. filed[k] # Nobody \/ k \in refused
      BY <2>3, <3>1, CallIs DEF CallOf, Answered
    <3> QED BY <1>0, <3>2 DEF Grows, DealtWith
  <2>4. CASE TakenForRefusal(t) /\ call[t].by = "flush" /\ stored' = stored \ {call[t].key} /\ UNCHANGED owner
    <3>1. k = call[t].key
      BY <1>2, <2>4 DEF LetGo
    <3> QED BY <2>4, <3>1 DEF TakenForRefusal, Unjudged
  <2>5. CASE /\ NoAnswer(t) /\ stored' = stored \cup {call[t].key}
             /\ owner' = [owner EXCEPT ![call[t].key] = page[t].me]
    <3>1. k # call[t].key /\ owner'[k] = owner[k]
      BY <2>5 DEF LetGo, OutboxInv, StoredType
    <3> QED BY <1>2, <2>5, <3>1 DEF LetGo
  <2> QED BY <2>1, <2>2, <2>3, <2>4, <2>5 DEF OutboxMoves
<1> QED BY <1>1, <1>2

\* What is filed is its owner's.
LEMMA FiledIsTheirs ==
    ASSUME OutboxInv, [OutboxNext]_outboxVars, NEW k \in Requests
    PROVE  filed'[k] \in {Nobody, pressed'[k]} \/ Switched(k)'
<1>0. Grows /\ JudgedType /\ ToldType
  BY GrowsStep DEF OutboxInv
<1>1. filed[k] \in {Nobody, pressed[k]} \/ Switched(k)
  BY DEF OutboxInv, RequestsAccounted, Switched
<1>2. CASE filed'[k] = filed[k]
  <2>1. CASE filed[k] = Nobody
    BY <1>2, <2>1
  <2>2. CASE filed[k] # Nobody
    BY <1>0, <1>1, <1>2, <2>2 DEF Grows, Switched
  <2> QED BY <2>1, <2>2
<1>3. CASE filed'[k] # filed[k]
  <2>1. PICK t \in Tabs : Serve(t) \/ ServeBreaks(t)
    BY <1>3 DEF OutboxNext, outboxVars, theServer, SignIn, SignOut, SessionEnds, Rotate, Expires, Reload, Reopen,
       Renewed, NotRenewed, Press, FlushBegins, FlushNext, FlushEnds, TurnedAway, Answered,
       TakenForRefusal, NoAnswer
  <2>2. /\ filed' = [filed EXCEPT ![call[t].key] = LetIn(call[t].token)]
        /\ LetIn(call[t].token) # Nobody
    BY <1>3, <2>1 DEF Serve, ServeBreaks
  <2>3. k = call[t].key /\ filed'[k] = LetIn(call[t].token)
    BY <1>0, <1>3, <2>2 DEF JudgedType
  <2>4. /\ call[t].me # Nobody /\ Theirs(k, call[t].me)
        /\ \/ call[t].token = 0
           \/ call[t].token \in DOMAIN sessions /\ (sessions[call[t].token].owner = call[t].me \/ Switched(k))
    BY <2>1, <2>3, CallIs DEF Serve, ServeBreaks, CallOf
  <2>5. 0 \notin DOMAIN sessions
    BY NoZero DEF OutboxInv
  <2>6. filed'[k] = call[t].me \/ Switched(k)
    BY <2>2, <2>3, <2>4, <2>5 DEF LetIn
  <2>7. UNCHANGED <<pressed, outboxHoles>>
    BY <2>1 DEF Serve, ServeBreaks, told
  <2> QED BY <2>4, <2>6, <2>7 DEF Theirs, Switched
<1> QED BY <1>2, <1>3

\* Every step keeps the invariant.
LEMMA OutboxInvStep ==
    ASSUME OutboxInv, [OutboxNext]_outboxVars PROVE OutboxInv'
<1>1. RequestsAccounted'
  BY LeavesDealtWith, FiledIsTheirs DEF RequestsAccounted, Unjudged, Switched
<1>2. CookiesHold'
  BY CookieStep, RenewalStep DEF CookiesHold, RenewalsHold
<1> QED
  BY <1>1, <1>2, SessionsStep, JudgedStep, CookieStep, OwnersStep, ShownStep, PageStep, RenewalStep, CallStep,
     ToldStep, BudgetStep DEF OutboxInv

\* An unused browser satisfies it.
LEMMA OutboxInvInit == OutboxInit => OutboxInv
<1> SUFFICES ASSUME OutboxInit PROVE OutboxInv
  OBVIOUS
<1> USE OutboxAssumption DEF OutboxInit
<1>1. SessionsType /\ JudgedType /\ StoredType /\ ShownType
  BY DEF SessionsType, JudgedType, StoredType, ShownType, People
<1>2. CookieType /\ PagesType /\ RenewalsType /\ CallsType
  BY NoCookieIs, SignedOutIs, NoRenewalIs, NoCallIs DEF CookieType, PagesType, RenewalsType, CallsType
<1>3. ToldType /\ HolesType /\ BudgetType
  BY DEF ToldType, HolesType, BudgetType, People
<1>4. CookiesHold /\ PagesHold
  BY NoRenewalIs, SignedOutIs DEF CookiesHold, OfASession, PagesHold, PageOf
<1>5. CallsHold
  BY NoCallIs DEF CallsHold, CallOf
<1>6. OwnersHold /\ RequestsAccounted
  BY DEF OwnersHold, RequestsAccounted, LetGo
<1> QED BY <1>1, <1>2, <1>3, <1>4, <1>5, <1>6 DEF OutboxInv

\* The inductive invariant holds in every state of the outbox.
THEOREM OutboxInvariant == OutboxSpec => []OutboxInv
<1>1. OutboxInv /\ UNCHANGED outboxVars => OutboxInv'
  BY OutboxInvStep
<1>2. OutboxInv /\ [OutboxNext]_outboxVars => OutboxInv'
  BY OutboxInvStep
<1> QED BY OutboxInvInit, <1>2, PTL DEF OutboxSpec

(* OutboxTypeCorrect: every variable of the outbox model keeps to its type.     *)
THEOREM OutboxTypeCorrect == OutboxSpec => []OutboxTypeOK
<1>1. ASSUME OutboxInv PROVE OutboxTypeOK
  <2>1. \A sid \in DOMAIN sessions : sessions[sid] \in SessionRows
    BY <1>1 DEF OutboxInv, SessionsType
  <2>2. call \in [Tabs -> Sendings] /\ renewal \in [Tabs -> Renewals] /\ page \in [Tabs -> Pages]
    BY <1>1 DEF OutboxInv, CallsType, RenewalsType, PagesType
  <2>3. /\ Len(sessions) <= MaxSignIns
        /\ filed \in [Requests -> People] /\ refused \subseteq Requests
        /\ cookie \in Cookies /\ mark \in {"in", "out", "none"}
        /\ stored \subseteq Requests /\ owner \in [Requests -> People] /\ shown \in [Tabs -> SUBSET Requests]
        /\ rest \in [Tabs -> SUBSET Requests]
        /\ pressed \in [Requests -> People] /\ agreed \subseteq Requests
        /\ outboxHoles \subseteq {"switched", "unsigned", "unjudged"} \X Requests
        /\ expiries \in 0 .. MaxExpiries /\ troubles \in 0 .. MaxTroubles
    BY <1>1 DEF OutboxInv, SessionsType, JudgedType, CookieType, StoredType, ShownType, CallsType,
       ToldType, HolesType, BudgetType
  <2> QED BY Zenon, <2>1, <2>2, <2>3 DEF OutboxTypeOK, SessionRows, Sendings, CallPlaces, Renewals, Pages
<1> QED BY <1>1, OutboxInvariant, PTL

(* RequestsKept: what the outbox let go of is filed, refused or given up.       *)
THEOREM RequestsKept == OutboxSpec => []RequestsAccounted
<1>1. OutboxInv => RequestsAccounted
  BY DEF OutboxInv
<1> QED BY <1>1, OutboxInvariant, PTL

(* Every behaviour of the two devices side by side is one of the roster and of the outbox: *)
(* what is proved of either holds of the exploration.                                      *)
THEOREM DevicesSideBySide == DevicesSpec => RosterSpec /\ OutboxSpec
<1>1. DevicesInit => RosterInit /\ OutboxInit
  BY DEF DevicesInit
<1>2. [DevicesNext]_deviceVars => [RosterNext]_rosterVars /\ [OutboxNext]_outboxVars
  <2> SUFFICES ASSUME [DevicesNext]_deviceVars
               PROVE  /\ RosterNext \/ rosterVars' = rosterVars
                      /\ OutboxNext \/ outboxVars' = outboxVars
    OBVIOUS
  <2>1. CASE UNCHANGED deviceVars
    BY <2>1, Zenon DEF deviceVars
  <2>2. CASE DevicesNext
    BY <2>2, Zenon DEF DevicesNext
  <2> QED
    BY <2>1, <2>2
<1> QED
  BY <1>1, <1>2, PTL DEF DevicesSpec, RosterSpec, OutboxSpec
=============================================================================
