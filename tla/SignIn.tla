------------------------------- MODULE SignIn -------------------------------
(***************************************************************************)
(* The ways into the webmail: the central sign-in with state and PKCE      *)
(* cookies, the hand-over of a signed-in session to the link of a Telegram *)
(* account, the mailbox password, the administrator's password and the     *)
(* public registration, with the counters that slow down guessing.         *)
(*                                                                         *)
(* A flow is one visit to the sign-in service, named by its state; it also *)
(* stands for the PKCE verifier that goes with it, and the session that it *)
(* creates has its name.  The service (external) gives out one code for a  *)
(* flow and takes it once.  A browser keeps the newest flow's cookies, the *)
(* URL of a callback may be opened again, late, or in another browser, and *)
(* a handler reads cookies when it starts, awaits the service, and writes  *)
(* the cookies of the browser as they are by then.                         *)
(*                                                                         *)
(* One client address.  A counter is kept by age: what is older than the   *)
(* window counts no more.  Sessions in memory and in the table are the     *)
(* subject of Sessions; here a session exists until its logout.            *)
(***************************************************************************)
EXTENDS Integers, FiniteSets

CONSTANTS
  Browsers,
  Subjects,   \* identities of the sign-in service
  Boxes,      \* names taken in the public registration
  Doors,      \* the password forms, each with a counter
  Webmail,    \* the one of them that opens a mailbox
  Requests,   \* handlers that run at the same time
  MaxFlows,   \* bound: flows ever begun
  MaxBegun,   \* bound: flows, attempts and registrations ever begun
  Window,     \* ticks a counter looks back
  MaxFails,   \* RATE_MAX_FAILS
  PerHour,    \* registrations of one address in a window
  NoOne

Flows == 1..MaxFlows
NoFlow == 0

ASSUME SignInAssumption ==
  /\ MaxFlows \in Nat /\ MaxBegun \in Nat /\ Window \in Nat \ {0}
  /\ MaxFails \in Nat \ {0} /\ PerHour \in Nat \ {0}
  /\ IsFiniteSet(Requests)
  /\ NoOne \notin Subjects \cup Browsers \cup Boxes \cup Flows
  /\ Boxes \cap Flows = {}

VARIABLES
  flow,     \* [kind, owner (browser), code, auth (who signed in)]
  mark,     \* browser -> the flow of its state and PKCE cookies
  linkMark, \* browser -> the flow of its Telegram link cookies
  sid,      \* browser -> session cookie: a flow, a mailbox, or NoOne
  sess,     \* session -> [who, open, link (transaction's flow)]
  req,      \* handlers at an await
  linked,   \* history: link flow -> the session it was confirmed for
  starter,  \* history: link flow -> the session that began it
  fails,    \* failed attempts a door's counter holds, by age
  missed,   \* history: failed attempts at a door, by age
  emptied,  \* history: times a door's counter was emptied, by age
  signups,  \* registrations counted, by age
  admitted, \* history: registrations let through, by age
  creator,  \* mailbox -> the browser that registered it
  begun

cookies == <<mark, linkMark, sid>>
links == <<linked, starter>>
guesses == <<fails, missed, emptied>>
counters == <<guesses, signups, admitted>>
vars == <<flow, cookies, sess, req, links, counters, creator, begun>>

Ages == 0..(Window - 1)
Rest == [at |-> "rest", by |-> NoOne, flow |-> NoFlow, who |-> NoOne, for |-> NoOne]

(* Flows, cookies, sessions, handlers and counters keep their shape; a     *)
(* handler that goes on from the service knows who signed in.              *)
TypeOK ==
  /\ flow \in [Flows -> [kind : {"unused", "login", "link"}, owner : Browsers \cup {NoOne},
                         code : {"none", "ready", "denied", "used"},
                         auth : Subjects \cup {NoOne}]]
  /\ mark \in [Browsers -> Flows \cup {NoFlow}]
  /\ linkMark \in [Browsers -> Flows \cup {NoFlow}]
  /\ sid \in [Browsers -> Flows \cup Boxes \cup {NoOne}]
  /\ sess \in [Flows -> [who : Subjects \cup {NoOne}, open : BOOLEAN,
                         link : Flows \cup {NoFlow}]]
  /\ req \in [Requests -> [at : {"rest", "token", "open", "answer", "prove", "add"},
                           by : Browsers \cup {NoOne}, flow : Flows \cup {NoFlow},
                           who : Subjects \cup {NoOne},
                           for : Flows \cup Boxes \cup Doors \cup {NoOne}]]
  /\ linked \in [Flows -> Flows \cup {NoFlow}] /\ starter \in [Flows -> Flows \cup {NoFlow}]
  /\ fails \in [Doors -> [Ages -> Nat]] /\ missed \in [Doors -> [Ages -> Nat]]
  /\ emptied \in [Doors -> [Ages -> Nat]]
  /\ signups \in [Ages -> Nat] /\ admitted \in [Ages -> Nat]
  /\ creator \in [Boxes -> Browsers \cup {NoOne}] /\ begun \in 0..MaxBegun
  /\ \A r \in Requests : req[r].at \in {"open", "answer"} => req[r].who # NoOne

None == [a \in Ages |-> 0]

Init ==
  /\ flow = [f \in Flows |-> [kind |-> "unused", owner |-> NoOne, code |-> "none", auth |-> NoOne]]
  /\ mark = [b \in Browsers |-> NoFlow] /\ linkMark = [b \in Browsers |-> NoFlow]
  /\ sid = [b \in Browsers |-> NoOne]
  /\ sess = [f \in Flows |-> [who |-> NoOne, open |-> FALSE, link |-> NoFlow]]
  /\ req = [r \in Requests |-> Rest]
  /\ linked = [f \in Flows |-> NoFlow] /\ starter = linked
  /\ fails = [d \in Doors |-> None] /\ missed = fails /\ emptied = fails
  /\ signups = None /\ admitted = None
  /\ creator = [n \in Boxes |-> NoOne] /\ begun = 0

-----------------------------------------------------------------------------
(* Helpers. *)

At(r, step) == req[r].at = step
End(r) == req' = [req EXCEPT ![r] = Rest]

(* session_get of the cookie a browser sends, as far as it is a sign-in's. *)
SignedIn(b) == sid[b] \in Flows /\ sess[sid[b]].open

Budget == begun < MaxBegun /\ begun' = begun + 1

Begun(f, kind, b) ==
  /\ Budget
  /\ flow[f].kind = "unused" /\ \A g \in Flows : g < f => flow[g].kind # "unused"
  /\ flow' = [flow EXCEPT ![f] = [@ EXCEPT !.kind = kind, !.owner = b]]

(* _mail_sso_clear_telegram_account_transaction: whatever transaction the  *)
(* session has by now, and whatever link cookies the browser has.          *)
ClearLink(b, s) ==
  /\ sess' = IF s \in Flows THEN [sess EXCEPT ![s].link = NoFlow] ELSE sess
  /\ linkMark' = [linkMark EXCEPT ![b] = NoFlow]

Clear(b) == mark' = [mark EXCEPT ![b] = NoFlow]

-----------------------------------------------------------------------------
(* Central sign-in and Telegram link. *)

(* GET /sso/login *)
BeginLogin(b) ==
  /\ \E f \in Flows :
       /\ Begun(f, "login", b)
       /\ mark' = [mark EXCEPT ![b] = f]
  /\ ClearLink(b, sid[b])
  /\ UNCHANGED <<sid, req, links, counters, creator>>

(* POST /api/sso/telegram-account/start, by a session of the sign-in.      *)
BeginLink(b) ==
  /\ SignedIn(b)
  /\ \E f \in Flows :
       /\ Begun(f, "link", b)
       /\ sess' = [sess EXCEPT ![sid[b]].link = f]
       /\ linkMark' = [linkMark EXCEPT ![b] = f]
       /\ starter' = [starter EXCEPT ![f] = sid[b]]
  /\ UNCHANGED <<mark, sid, req, linked, counters, creator>>

(* The service (external) sends the browser back with a code, or an error. *)
Authenticate(f) ==
  /\ flow[f].kind # "unused" /\ flow[f].code = "none"
  /\ \/ \E s \in Subjects : flow' = [flow EXCEPT ![f] = [@ EXCEPT !.code = "ready", !.auth = s]]
     \/ flow' = [flow EXCEPT ![f].code = "denied"]
  /\ UNCHANGED <<cookies, sess, req, links, counters, creator, begun>>

(* Mutation: the state is looked at, the cookies are not. *)
ExpectedAny(b, f) == f # NoFlow

Expected(b, f) == mark[b] = f

(* GET /sso/callback.  Without the cookies or a code nothing is changed.   *)
LoginCallback(r, b, f) ==
  /\ At(r, "rest") /\ linkMark[b] # f
  /\ flow[f].code \in {"ready", "used"} /\ Expected(b, f)
  /\ req' = [req EXCEPT ![r] = [Rest EXCEPT !.at = "token", !.by = b, !.flow = f]]
  /\ UNCHANGED <<flow, cookies, sess, links, counters, creator, begun>>

(* Mutation: any session of the sign-in will do. *)
TransactionAny(b, f) == SignedIn(b)

Transaction(b, f) == SignedIn(b) /\ sess[sid[b]].link = f

LinkCallback(r, b, f) ==
  /\ At(r, "rest") /\ linkMark[b] = f /\ flow[f].code # "none"
  /\ IF Transaction(b, f) /\ flow[f].code # "denied"
     THEN /\ req' = [req EXCEPT ![r] =
                       [Rest EXCEPT !.at = "token", !.by = b, !.flow = f, !.for = sid[b]]]
          /\ UNCHANGED <<sess, linkMark>>
     ELSE ClearLink(b, sid[b]) /\ UNCHANGED req
  /\ UNCHANGED <<flow, mark, sid, links, counters, creator, begun>>

Named(who) == who # NoOne

(* What the service says of the user: who signed in, or nobody.            *)
UserInfo(f) == {flow[f].auth, NoOne}

(* The code for a token, and the token for the user, each awaited.  A code *)
(* that was used, a service that fails or names nobody ends the callback.  *)
Exchange(r) ==
  LET f == req[r].flow
      b == req[r].by
      link == req[r].for # NoOne
      failed ==
        /\ End(r)
        /\ IF link THEN ClearLink(b, req[r].for) /\ UNCHANGED mark
           ELSE Clear(b) /\ UNCHANGED <<sess, linkMark>>
      spent == flow' = [flow EXCEPT ![f].code = "used"]
      goOn(who) ==
        /\ req' = [req EXCEPT ![r] = [@ EXCEPT !.at = IF link THEN "answer" ELSE "open", !.who = who]]
        /\ UNCHANGED <<sess, mark, linkMark>>
  IN  /\ At(r, "token")
      /\ \/ failed /\ UNCHANGED flow
         \/ /\ flow[f].code = "ready" /\ spent
            /\ \E who \in UserInfo(f) : IF Named(who) THEN goOn(who) ELSE failed
      /\ UNCHANGED <<sid, links, counters, creator, begun>>

(* The binding, the mailbox, the session.  Any of them may be refused.     *)
Open(r) ==
  LET f == req[r].flow
      b == req[r].by
  IN  /\ At(r, "open")
      /\ \/ /\ sess' = [sess EXCEPT ![f] = [who |-> req[r].who, open |-> TRUE, link |-> NoFlow]]
            /\ sid' = [sid EXCEPT ![b] = f]
         \/ UNCHANGED <<sess, sid>>
      /\ Clear(b) /\ End(r)
      /\ UNCHANGED <<flow, linkMark, links, counters, creator, begun>>

SamePerson(who, s) == who = sess[s].who

(* The person who signed in at the service must be the session's.          *)
Answer(r) ==
  LET f == req[r].flow
      s == req[r].for
  IN  /\ At(r, "answer")
      /\ linked' = IF SamePerson(req[r].who, s) THEN [linked EXCEPT ![f] = s] ELSE linked
      /\ ClearLink(req[r].by, s) /\ End(r)
      /\ UNCHANGED <<flow, mark, sid, starter, counters, creator, begun>>

Logout(b) ==
  /\ sid[b] # NoOne
  /\ sid' = [sid EXCEPT ![b] = NoOne]
  /\ sess' = IF sid[b] \in Flows THEN [sess EXCEPT ![sid[b]].open = FALSE] ELSE sess
  /\ UNCHANGED <<flow, mark, linkMark, req, links, counters, creator, begun>>

(* Cookies and transactions are kept for some minutes.                     *)
Lapse(b) ==
  /\ \/ mark[b] # NoFlow /\ Clear(b) /\ UNCHANGED <<linkMark, sess>>
     \/ /\ linkMark[b] # NoFlow /\ UNCHANGED mark
        /\ \/ linkMark' = [linkMark EXCEPT ![b] = NoFlow] /\ UNCHANGED sess
           \/ /\ SignedIn(b) /\ sess[sid[b]].link # NoFlow
              /\ sess' = [sess EXCEPT ![sid[b]].link = NoFlow] /\ UNCHANGED linkMark
  /\ UNCHANGED <<flow, sid, req, links, counters, creator, begun>>

-----------------------------------------------------------------------------
(* Counters: rate_check, rate_record_fail, rate_reset and the counter of   *)
(* the registrations.                                                      *)

(* The attempts in the list of a counter, each by its age. *)
Attempts(counter) == UNION {{a} \X (1..counter[a]) : a \in Ages}

Recent(counter) == Cardinality(Attempts(counter))
Recorded(counter) == [counter EXCEPT ![0] = @ + 1]

(* Mutation: one attempt more. *)
RateCheckAndOne(d) == Recent(fails[d]) <= MaxFails

RateCheck(d) == Recent(fails[d]) < MaxFails

SignUpAllowed == Recent(signups) < PerHour

Older(counter) == [a \in Ages |-> IF a = 0 THEN 0 ELSE counter[a - 1]]

(* POST /api/auth/login, POST /api/adminportal/login: the counter, and     *)
(* then the mail server or the directory, awaited.                         *)
Try(r, b, d) ==
  /\ Budget /\ At(r, "rest") /\ RateCheck(d)
  /\ req' = [req EXCEPT ![r] = [Rest EXCEPT !.at = "prove", !.by = b, !.for = d]]
  /\ UNCHANGED <<flow, cookies, sess, links, counters, creator>>

(* The mailboxes a login may stand for, as far as the password opens them. *)
Candidates(b, d) == IF d = Webmail THEN {n \in Boxes : creator[n] = b} ELSE {}

Emptied(d) == IF fails[d] = None THEN emptied[d] ELSE Recorded(emptied[d])

(* rate_reset comes first; building the session may fail.                  *)
Admit(b, d) ==
  /\ fails' = [fails EXCEPT ![d] = None] /\ emptied' = [emptied EXCEPT ![d] = Emptied(d)]
  /\ UNCHANGED missed
  /\ \/ UNCHANGED sid
     \/ \E n \in Candidates(b, d) : sid' = [sid EXCEPT ![b] = n]

(* Each name the login may stand for is tried in turn: the first accepted  *)
(* one opens the door; a server that does not answer hides a refusal.      *)
Prove(r) ==
  LET b == req[r].by
      d == req[r].for
  IN  /\ At(r, "prove") /\ End(r)
      /\ \/ Admit(b, d)
         \/ /\ fails' = [fails EXCEPT ![d] = Recorded(@)]
            /\ missed' = [missed EXCEPT ![d] = Recorded(@)] /\ UNCHANGED <<emptied, sid>>
         \/ UNCHANGED <<guesses, sid>>
      /\ UNCHANGED <<flow, mark, linkMark, sess, links, signups, admitted, creator, begun>>

(* Mutation: counted when the registration has succeeded. *)
CountedLater(counter) == counter

Counted(counter) == Recorded(counter)

(* POST /api/signup: nothing is awaited between the check and the record.  *)
SignUp(r, b, n) ==
  /\ Budget /\ At(r, "rest") /\ SignUpAllowed
  /\ signups' = Counted(signups) /\ admitted' = Recorded(admitted)
  /\ req' = [req EXCEPT ![r] = [Rest EXCEPT !.at = "add", !.by = b, !.for = n]]
  /\ UNCHANGED <<flow, cookies, sess, links, guesses, creator>>

(* Mutation: "already exists" is a success. *)
VacantAny(n) == TRUE

Vacant(n) == creator[n] = NoOne

(* The account is added; an answer that is lost leaves it there; a session *)
(* that cannot be built does not undo it.                                  *)
Add(r) ==
  LET n == req[r].for
      b == req[r].by
      created == creator' = [creator EXCEPT ![n] = IF @ = NoOne THEN b ELSE @]
  IN  /\ At(r, "add") /\ End(r)
      /\ \/ Vacant(n) /\ created /\ sid' = [sid EXCEPT ![b] = n]
         \/ created /\ UNCHANGED sid
         \/ UNCHANGED <<creator, sid>>
      /\ UNCHANGED <<flow, mark, linkMark, sess, links, counters, begun>>

Tick ==
  /\ fails' = [d \in Doors |-> Older(fails[d])]
  /\ missed' = [d \in Doors |-> Older(missed[d])]
  /\ emptied' = [d \in Doors |-> Older(emptied[d])]
  /\ signups' = Older(signups) /\ admitted' = Older(admitted)
  /\ UNCHANGED <<flow, cookies, sess, req, links, creator, begun>>

(* The counters live in memory, and so do the handlers.                    *)
Restart ==
  /\ req' = [r \in Requests |-> Rest]
  /\ fails' = [d \in Doors |-> None] /\ emptied' = [d \in Doors |-> Emptied(d)]
  /\ signups' = None /\ admitted' = None /\ UNCHANGED missed
  /\ UNCHANGED <<flow, cookies, sess, links, creator, begun>>

Handler(r) == Exchange(r) \/ Open(r) \/ Answer(r) \/ Prove(r) \/ Add(r)

Next ==
  \/ \E b \in Browsers : BeginLogin(b) \/ BeginLink(b) \/ Logout(b) \/ Lapse(b)
  \/ \E f \in Flows : Authenticate(f)
  \/ \E r \in Requests, b \in Browsers, f \in Flows : LoginCallback(r, b, f) \/ LinkCallback(r, b, f)
  \/ \E r \in Requests, b \in Browsers, d \in Doors : Try(r, b, d)
  \/ \E r \in Requests, b \in Browsers, n \in Boxes : SignUp(r, b, n)
  \/ \E r \in Requests : Handler(r)
  \/ Tick
  \/ Restart

Spec == Init /\ [][Next]_vars

-----------------------------------------------------------------------------
(* Properties. *)

(* The sign-in session a browser holds is that of a flow it began itself,  *)
(* for the person who signed in at the service in that flow, with several  *)
(* flows open, repeated and late callbacks, and a callback's URL opened in *)
(* another browser.                                                        *)
SessionIsOwnFlow ==
  \A b \in Browsers : sid[b] \in Flows =>
    /\ flow[sid[b]].kind = "login" /\ flow[sid[b]].owner = b
    /\ sess[sid[b]].who = flow[sid[b]].auth

(* A Telegram link is only confirmed to the session that began it, not to  *)
(* another one of the same browser and person, and after the session's own *)
(* person signed in, though a logout, another sign-in or a second link may *)
(* come in between.                                                        *)
LinkIsOwn ==
  \A f \in Flows : linked[f] # NoFlow =>
    /\ linked[f] = starter[f]
    /\ flow[f].kind = "link" /\ flow[f].owner = flow[linked[f]].owner
    /\ flow[f].auth = sess[linked[f]].who

(* An address fails a door in a window no more often than the limit says,  *)
(* but for the attempts that were under way when it was reached, and as    *)
(* often again each time that a success or a restart has emptied the       *)
(* counter in that window.                                                 *)
GuessesBounded ==
  \A d \in Doors :
    Recent(missed[d]) <= (MaxFails - 1 + Cardinality(Requests)) * (1 + Recent(emptied[d]))

(* Between two restarts an address starts no more registrations in a       *)
(* window than the limit says, however many arrive at once.                *)
SignUpsBounded == Recent(admitted) <= PerHour

(* A browser that is signed in to a mailbox registered it, whoever else    *)
(* asked for the name at the same time.                                    *)
RegisteredItself == \A b \in Browsers : sid[b] \in Boxes => creator[sid[b]] = b
=============================================================================
