-------------------------------- MODULE Outbox --------------------------------
(* A request from the form to the server, through a network that fails: the     *)
(* outbox of a browser (frontend/lib/outbox.ts), the renewals its calls wait for *)
(* (lib/api.ts, lib/auth.ts), and behind them AuthService.rotate and             *)
(* LeaveService.submit.  One browser, a few tabs of it, and the people who take  *)
(* turns at it: cookies and the outbox are the browser's, a token is a tab's.    *)
EXTENDS Integers, Sequences

CONSTANTS
    Tabs, Accounts, Requests,
    Nobody,
    MaxSignIns,  \* sessions opened
    MaxExpiries, \* times a token runs out
    MaxTroubles  \* answers lost, pages reloaded, sessions ended by the server

ASSUME OutboxAssumption ==
    /\ Nobody \notin Accounts
    /\ MaxSignIns \in Nat /\ MaxExpiries \in Nat /\ MaxTroubles \in Nat

VARIABLES
    sessions, \* the Session rows: whose, the jti it still takes, whether it is open, and
              \* whether its access tokens were cut
    filed,    \* whose Request row carries the key, or Nobody
    refused,  \* keys the server judged and refused
    cookie,   \* the refresh token the browser holds: its session and its jti
    mark,     \* the cookie of which way the browser last went: "in", "out" or "none"
    stored,   \* keys in IndexedDB
    owner,    \* the account a stored request carries
    page,     \* of a tab: who is signed in, by which session's token, and whether it is due
    shown,    \* of a tab: the stored keys it has loaded
    renewal,  \* of a tab: where its one renewal is, and what it carries or brings
    call,     \* of a tab: the request it is sending
    rest,     \* of a tab: what its flush has still to try
    pressed,  \* history: who pressed the button of a key
    agreed,   \* history: keys dropped at a sign-out that was asked about
    outboxHoles, \* history: keys that met an order nothing here guards against
    expiries, troubles

theServer == <<sessions, filed, refused>>
browser == <<cookie, mark>>
theOutbox == <<stored, owner, shown>>
sendingTab == <<call, rest>>
told == <<pressed, agreed, outboxHoles>>
outboxBudget == <<expiries, troubles>>
outboxVars == <<theServer, browser, theOutbox, page, renewal, sendingTab, told, outboxBudget>>

SignedOut == [me |-> Nobody, token |-> 0, due |-> FALSE]
NoCookie == [sid |-> 0, jti |-> 0]
NoRenewal == [at |-> "rest", carries |-> NoCookie]
NoCall == [at |-> "rest", key |-> Nobody, by |-> "none", me |-> Nobody, token |-> 0, again |-> FALSE]

Troubled == troubles < MaxTroubles /\ troubles' = troubles + 1

-----------------------------------------------------------------------------
\* A browser nobody has used, and nothing filed.
OutboxInit ==
    /\ sessions = <<>> /\ filed = [k \in Requests |-> Nobody] /\ refused = {}
    /\ cookie = NoCookie /\ mark = "none"
    /\ stored = {} /\ owner = [k \in Requests |-> Nobody] /\ shown = [t \in Tabs |-> {}]
    /\ page = [t \in Tabs |-> SignedOut] /\ renewal = [t \in Tabs |-> NoRenewal]
    /\ call = [t \in Tabs |-> NoCall] /\ rest = [t \in Tabs |-> {}]
    /\ pressed = [k \in Requests |-> Nobody] /\ agreed = {} /\ outboxHoles = {}
    /\ expiries = 0 /\ troubles = 0

-----------------------------------------------------------------------------
(* People and time. *)

Idle(t) == call[t].at = "rest" /\ renewal[t].at = "rest"

\* setSession: the tab has a token, and the browser is marked as signed in.
SetSession(t, sid, whose) ==
    /\ page' = [page EXCEPT ![t] = [me |-> whose, token |-> sid, due |-> FALSE]]
    /\ mark' = "in"

\* The form takes a password and opens a session; it may have stood open while another tab
\* signed in.
SignIn(t, a) ==
    /\ page[t].me = Nobody /\ Len(sessions) < MaxSignIns
    /\ sessions' = Append(sessions, [owner |-> a, jti |-> 1, open |-> TRUE, cut |-> FALSE])
    /\ cookie' = [sid |-> Len(sessions'), jti |-> 1]
    /\ SetSession(t, Len(sessions'), a)
    /\ UNCHANGED <<filed, refused, theOutbox, renewal, sendingTab, told, outboxBudget>>

(* Signing out: what this tab shows as unsent is named and dropped, then the browser is marked
   and the session closed, if the call still has a token and its answer comes. *)
SignOut(t) ==
    /\ page[t].me # Nobody
    /\ LET unsent == {k \in shown[t] : owner[k] = page[t].me} IN
          /\ stored' = stored \ unsent
          /\ agreed' = agreed \cup (stored \cap unsent)
          /\ shown' = IF unsent = {} THEN shown ELSE [shown EXCEPT ![t] = stored']
    /\ mark' = "out"
    /\ page' = [page EXCEPT ![t] = SignedOut]
    /\ LET sid == page[t].token
           heard == ~page[t].due /\ ~sessions[sid].cut
           closed == [sessions EXCEPT ![sid].open = FALSE, ![sid].cut = TRUE]
       IN \/ heard /\ sessions' = closed /\ cookie' = NoCookie /\ UNCHANGED troubles
          \/ ~heard /\ UNCHANGED <<sessions, cookie, troubles>>
          \/ heard /\ Troubled /\ sessions' \in {sessions, closed} /\ UNCHANGED cookie
    /\ UNCHANGED <<filed, refused, owner, renewal, sendingTab, pressed, outboxHoles, expiries>>

\* A token comes up for renewal.
Expires(t) ==
    /\ page[t].token # 0 /\ ~page[t].due /\ expiries < MaxExpiries
    /\ expiries' = expiries + 1
    /\ page' = [page EXCEPT ![t].due = TRUE]
    /\ UNCHANGED <<theServer, browser, theOutbox, renewal, sendingTab, told, troubles>>

\* A reload, or a tab that was closed and opened again: its memory goes, and what it was sending
\* with it.
Reload(t) ==
    /\ Troubled
    /\ page' = [page EXCEPT ![t] = SignedOut]
    /\ renewal' = [renewal EXCEPT ![t] = NoRenewal]
    /\ call' = [call EXCEPT ![t] = NoCall] /\ rest' = [rest EXCEPT ![t] = {}]
    /\ shown' = [shown EXCEPT ![t] = stored]
    /\ UNCHANGED <<theServer, browser, stored, owner, told, expiries>>

\* A session runs out or makes room for another; or a new password, a new role, a leaving ends
\* it and its access tokens.
SessionEnds(sid) ==
    /\ Troubled /\ sessions[sid].open
    /\ \E cut \in BOOLEAN :
          sessions' = [sessions EXCEPT ![sid].open = FALSE, ![sid].cut = cut]
    /\ UNCHANGED <<filed, refused, browser, theOutbox, page, renewal, sendingTab, told, expiries>>

-----------------------------------------------------------------------------
(* Renewals: a tab has one at a time, whoever waits for it. *)

\* reopenSession, where no sign-out on purpose stands in the way.
Asking(t) ==
    renewal' = IF renewal[t].at = "rest"
               THEN [renewal EXCEPT ![t] = [at |-> "asked", carries |-> cookie]]
               ELSE renewal

\* The page of a browser that did not sign out tries the cookie; the feed and the reads of a
\* page renew a token that ran out or was cut.
Reopen(t) ==
    /\ renewal[t].at = "rest" /\ mark # "out"
    /\ \/ page[t].me = Nobody /\ cookie # NoCookie
       \/ page[t].me # Nobody /\ (page[t].due \/ sessions[page[t].token].cut)
    /\ Asking(t)
    /\ UNCHANGED <<theServer, browser, theOutbox, page, sendingTab, told, outboxBudget>>

\* AuthService.rotate: a jti the session has spent costs it the session.
Rotate(t) ==
    /\ renewal[t].at = "asked"
    /\ LET held == renewal[t].carries
           stands == held.sid # 0 /\ sessions[held.sid].open
           bring(token) == renewal' = [renewal EXCEPT ![t] = [at |-> "answered", carries |-> token]]
       IN \/ /\ stands /\ sessions[held.sid].jti = held.jti
             /\ sessions' = [sessions EXCEPT ![held.sid].jti = held.jti + 1]
             /\ bring([held EXCEPT !.jti = held.jti + 1])
          \/ /\ stands /\ sessions[held.sid].jti # held.jti
             /\ sessions' = [sessions EXCEPT ![held.sid].open = FALSE]
             /\ bring(NoCookie)
          \/ ~stands /\ bring(NoCookie) /\ UNCHANGED sessions
    /\ UNCHANGED <<filed, refused, browser, theOutbox, page, sendingTab, told, outboxBudget>>

(* The call that waits goes on with the token the renewal brought, or with none: one that was
   told 401 before is not sent again without one. *)
GoOn(t, token) ==
    IF call[t].at # "renewing" THEN UNCHANGED <<call, outboxHoles>>
    ELSE LET whose == IF token = 0 THEN Nobody ELSE sessions[token].owner IN
         /\ call' = [call EXCEPT ![t].token = token,
                                 ![t].at = IF token = 0 /\ call[t].again THEN "unsigned" ELSE "out"]
         /\ outboxHoles' = outboxHoles \cup
               (IF whose \notin {Nobody, call[t].me} THEN {<<"switched", call[t].key>>} ELSE {})

\* The tab has its new token, and the browser the new cookie.
Renewed(t) ==
    /\ renewal[t].at = "answered" /\ renewal[t].carries # NoCookie
    /\ cookie' = renewal[t].carries
    /\ SetSession(t, renewal[t].carries.sid, sessions[renewal[t].carries.sid].owner)
    /\ renewal' = [renewal EXCEPT ![t] = NoRenewal]
    /\ GoOn(t, renewal[t].carries.sid)
    /\ UNCHANGED <<theServer, theOutbox, rest, pressed, agreed, outboxBudget>>

\* A refusal, no cookie, and a lost network alike: the tab is nobody's.
NotRenewed(t) ==
    /\ \/ renewal[t].at = "answered" /\ renewal[t].carries = NoCookie /\ UNCHANGED troubles
       \/ renewal[t].at # "rest" /\ Troubled
    /\ mark' = IF mark = "in" THEN "none" ELSE mark
    /\ page' = [page EXCEPT ![t] = SignedOut]
    /\ renewal' = [renewal EXCEPT ![t] = NoRenewal]
    /\ GoOn(t, 0)
    /\ UNCHANGED <<theServer, cookie, theOutbox, rest, pressed, agreed, expiries>>

-----------------------------------------------------------------------------
(* A request on its way: axios and the two interceptors. *)

\* A dead token is renewed first, unless the browser signed out on purpose.
Dispatch(t, sent) ==
    /\ call' = [call EXCEPT ![t] =
          [sent EXCEPT !.at = IF page[t].due /\ mark # "out" THEN "renewing" ELSE "out",
                       !.token = IF page[t].due THEN 0 ELSE page[t].token]]
    /\ IF page[t].due /\ mark # "out" THEN Asking(t) ELSE UNCHANGED renewal

\* The form is sent, with a key of its own.
Press(t, k) ==
    /\ page[t].me # Nobody /\ Idle(t) /\ pressed[k] = Nobody
    /\ pressed' = [pressed EXCEPT ![k] = page[t].me]
    /\ Dispatch(t, [NoCall EXCEPT !.key = k, !.by = "form", !.me = page[t].me])
    /\ UNCHANGED <<theServer, browser, theOutbox, page, rest, agreed, outboxHoles, outboxBudget>>

\* Faulty form, for trying the properties: everything stored is sent.
Everyones(t) == {k \in stored : page[t].me # Nobody}

\* What a flush takes up: what its account filed.
Mine(t) == {k \in stored : owner[k] = page[t].me}

\* One of the moments a phone gets its signal back; the stored requests are loaded anew.
FlushBegins(t) ==
    /\ Idle(t) /\ rest[t] = {} /\ Mine(t) # {}
    /\ shown' = [shown EXCEPT ![t] = stored]
    /\ rest' = [rest EXCEPT ![t] = Mine(t)]
    /\ call' = [call EXCEPT ![t] = [NoCall EXCEPT !.at = "next", !.by = "flush", !.me = page[t].me]]
    /\ UNCHANGED <<theServer, browser, stored, owner, page, renewal, told, outboxBudget>>

\* The next one, while the account is still the one the flush began with.
FlushNext(t) ==
    /\ call[t].at = "next" /\ rest[t] # {} /\ page[t].me = call[t].me
    /\ \E k \in rest[t] :
          /\ rest' = [rest EXCEPT ![t] = rest[t] \ {k}]
          /\ Dispatch(t, [call[t] EXCEPT !.key = k, !.again = FALSE])
    /\ UNCHANGED <<theServer, browser, theOutbox, page, told, outboxBudget>>

FlushEnds(t) ==
    /\ call[t].at = "next" /\ (rest[t] = {} \/ page[t].me # call[t].me)
    /\ call' = [call EXCEPT ![t] = NoCall] /\ rest' = [rest EXCEPT ![t] = {}]
    /\ UNCHANGED <<theServer, browser, theOutbox, page, renewal, told, outboxBudget>>

\* JwtStrategy: whom a token lets in, or Nobody for none and for one that was cut.
LetIn(token) ==
    IF token \in DOMAIN sessions THEN (IF sessions[token].cut THEN Nobody ELSE sessions[token].owner)
    ELSE Nobody

(* LeaveService.submit: a key that is there answers with its row, to the one who filed it; a new
   one is filed or refused. *)
Serve(t) ==
    /\ call[t].at = "out"
    /\ LET k == call[t].key
           by == LetIn(call[t].token)
       IN \/ by = Nobody /\ UNCHANGED <<filed, refused>>
          \/ by # Nobody /\ filed[k] = by /\ UNCHANGED <<filed, refused>>
          \/ by # Nobody /\ filed[k] = Nobody /\ filed' = [filed EXCEPT ![k] = by] /\ UNCHANGED refused
          \/ by # Nobody /\ filed[k] # by /\ refused' = refused \cup {k} /\ UNCHANGED filed
    /\ call' = [call EXCEPT ![t].at = IF LetIn(call[t].token) = Nobody THEN "turned away" ELSE "done"]
    /\ UNCHANGED <<sessions, browser, theOutbox, page, renewal, rest, told, outboxBudget>>

(* A 429, a 500, a 502 on the way back: an answer in which nobody judged the request, though a
   row may be there.  Only a 401 is tried again. *)
ServeBreaks(t) ==
    /\ call[t].at = "out"
    /\ LET k == call[t].key
           by == LetIn(call[t].token)
       IN \/ UNCHANGED filed
          \/ by # Nobody /\ filed[k] = Nobody /\ filed' = [filed EXCEPT ![k] = by]
    /\ call' = [call EXCEPT ![t].at = "unjudged"]
    /\ UNCHANGED <<sessions, refused, browser, theOutbox, page, renewal, rest, told, outboxBudget>>

\* A 401 is tried once more with a new token.
TurnedAway(t) ==
    /\ call[t].at = "turned away"
    /\ IF call[t].again \/ mark = "out"
       THEN call' = [call EXCEPT ![t].at = "unsigned"] /\ UNCHANGED renewal
       ELSE call' = [call EXCEPT ![t].at = "renewing", ![t].again = TRUE] /\ Asking(t)
    /\ UNCHANGED <<theServer, browser, theOutbox, page, rest, told, outboxBudget>>

\* The form is done, a flush goes on.
Goes(t) == call' = [call EXCEPT ![t] = IF call[t].by = "flush" THEN [call[t] EXCEPT !.at = "next"] ELSE NoCall]

\* Takes the request the call was about out of the outbox.
Drops(t) ==
    IF call[t].by = "flush"
    THEN /\ stored' = stored \ {call[t].key}
         /\ shown' = [shown EXCEPT ![t] = stored']
    ELSE UNCHANGED <<stored, shown>>

\* Filed or refused: the outbox is done with it.
Answered(t) ==
    /\ call[t].at = "done"
    /\ Drops(t) /\ Goes(t)
    /\ UNCHANGED <<theServer, browser, owner, page, renewal, rest, told, outboxBudget>>

\* An answer all the same, and taken for a refusal: the form shows it, a flush drops the request.
TakenForRefusal(t) ==
    /\ call[t].at \in {"unsigned", "unjudged"}
    /\ Drops(t) /\ Goes(t)
    /\ outboxHoles' = outboxHoles \cup IF call[t].by = "flush" THEN {<<call[t].at, call[t].key>>} ELSE {}
    /\ UNCHANGED <<theServer, browser, owner, page, renewal, rest, pressed, agreed, outboxBudget>>

\* No answer came: the form keeps the request for whoever is signed in now, and a flush stops.
NoAnswer(t) ==
    /\ Troubled /\ call[t].at \in {"out", "turned away", "done"}
    /\ IF call[t].by = "form" /\ page[t].me # Nobody
       THEN /\ stored' = stored \cup {call[t].key}
            /\ owner' = [owner EXCEPT ![call[t].key] = page[t].me]
            /\ shown' = [shown EXCEPT ![t] = stored']
            /\ outboxHoles' = outboxHoles \cup
                  IF page[t].me # call[t].me THEN {<<"switched", call[t].key>>} ELSE {}
       ELSE UNCHANGED <<theOutbox, outboxHoles>>
    /\ call' = [call EXCEPT ![t] = NoCall] /\ rest' = [rest EXCEPT ![t] = {}]
    /\ UNCHANGED <<theServer, browser, page, renewal, pressed, agreed, expiries>>

-----------------------------------------------------------------------------
OutboxNext ==
    \/ \E t \in Tabs :
          \/ SignOut(t) \/ Expires(t) \/ Reload(t)
          \/ Reopen(t) \/ Rotate(t) \/ Renewed(t) \/ NotRenewed(t)
          \/ FlushBegins(t) \/ FlushNext(t) \/ FlushEnds(t)
          \/ Serve(t) \/ ServeBreaks(t) \/ TurnedAway(t) \/ Answered(t)
          \/ TakenForRefusal(t) \/ NoAnswer(t)
          \/ \E a \in Accounts : SignIn(t, a)
          \/ \E k \in Requests : Press(t, k)
    \/ \E sid \in DOMAIN sessions : SessionEnds(sid)

OutboxSpec == OutboxInit /\ [][OutboxNext]_outboxVars

-----------------------------------------------------------------------------
People == Accounts \cup {Nobody}
Cookies == [sid : 0 .. MaxSignIns, jti : Nat]

OutboxTypeOK ==
    /\ Len(sessions) <= MaxSignIns
    /\ \A sid \in DOMAIN sessions :
          sessions[sid] \in [owner : Accounts, jti : Nat, open : BOOLEAN, cut : BOOLEAN]
    /\ filed \in [Requests -> People] /\ refused \subseteq Requests
    /\ cookie \in Cookies /\ mark \in {"in", "out", "none"}
    /\ stored \subseteq Requests /\ owner \in [Requests -> People] /\ shown \in [Tabs -> SUBSET Requests]
    /\ page \in [Tabs -> [me : People, token : 0 .. MaxSignIns, due : BOOLEAN]]
    /\ renewal \in [Tabs -> [at : {"rest", "asked", "answered"}, carries : Cookies]]
    /\ call \in [Tabs -> [at : {"rest", "next", "renewing", "out", "turned away", "unsigned", "unjudged", "done"},
                          key : Requests \cup {Nobody}, by : {"none", "form", "flush"}, me : People,
                          token : 0 .. MaxSignIns, again : BOOLEAN]]
    /\ rest \in [Tabs -> SUBSET Requests]
    /\ pressed \in [Requests -> People] /\ agreed \subseteq Requests
    /\ outboxHoles \subseteq {"switched", "unsigned", "unjudged"} \X Requests
    /\ expiries \in 0 .. MaxExpiries /\ troubles \in 0 .. MaxTroubles

\* What the outbox let go of, the server has or refused, or its owner gave up.
LetGo(k) == owner[k] # Nobody /\ k \notin stored
DealtWith(k) == filed[k] # Nobody \/ k \in refused \/ k \in agreed

(* A request that waited in the outbox leaves it only for the server's row, for a refusal, or
   with its owner's consent at a sign-out; and the row is its owner's: whoever signs in
   at the browser, whatever is lost, and however the tabs cross; but for one whose 401, or
   whose 429 or 5xx, was taken for a refusal, and one under whose call another account's
   session came in. *)
RequestsAccounted ==
    \A k \in Requests :
        /\ LetGo(k) => \/ DealtWith(k)
                       \/ <<"unsigned", k>> \in outboxHoles \/ <<"unjudged", k>> \in outboxHoles
        /\ filed[k] \in {Nobody, pressed[k]} \/ <<"switched", k>> \in outboxHoles

(* The same without the 401: a session that falls because its renewal failed leaves what waits. *)
UnsentStays ==
    \A k \in Requests : LetGo(k) => DealtWith(k) \/ <<"unjudged", k>> \in outboxHoles
=============================================================================
