---------------------------- MODULE SignInProofs ----------------------------
(***************************************************************************)
(* Proofs about the ways into the webmail: whose session a browser holds,  *)
(* to whom a Telegram account is linked, and whose mailbox a registration  *)
(* opens, for any number of browsers, flows and handlers.                  *)
(*                                                                         *)
(* The argument: a flow keeps its kind and the browser that began it, and  *)
(* once the service has spent its code, the person who signed in there.    *)
(* Cookies, handlers and sessions only ever name flows of their browser,   *)
(* so that it does not matter when, or how often, a callback arrives.  A   *)
(* transaction is in the session that began it (Started).                  *)
(*                                                                         *)
(* The counters: a limit that is looked at before an await is passed by    *)
(* those under way and by no more, because each of them was let in below   *)
(* it and counts when it is no longer under way (GuessesCounted); and what *)
(* a success or a restart takes out of the counter is no more than it held *)
(* (FailuresHeld).                                                         *)
(*                                                                         *)
(* The mailboxes a sign-in opens (MailboxBindings, beside SignIn with      *)
(* names of its own): what is stored for a mailbox, and what a request is  *)
(* about to store, carries a password of the mailbox that                  *)
(* exists now (Forgotten), so that the row the ticket intake works with    *)
(* can be told from one of an earlier mailbox; and what the worker does    *)
(* not hold of a mailbox was handed over or came later (Followed).         *)
(***************************************************************************)
EXTENDS SignIn, MailboxBindings, FiniteSetTheorems, WellFoundedInduction, TLAPS

(* What a handler at an await carries. *)
Shaped(x) ==
  /\ x.at = "token" => x.flow \in Flows /\ x.for \in Flows \cup {NoOne}
  /\ x.at = "open" => x.flow \in Flows /\ x.for = NoOne /\ x.who # NoOne
  /\ x.at = "answer" => x.flow \in Flows /\ x.for \in Flows /\ x.who # NoOne
  /\ x.at = "prove" => x.for \in Doors
  /\ x.at = "add" => x.for \in Boxes
  /\ x.at # "rest" => x.by \in Browsers
Shape == \A r \in Requests : Shaped(req[r])

(* The type invariant, by what an action may disturb. *)
FlowRec ==
  [kind : {"unused", "login", "link"}, owner : Browsers \cup {NoOne},
   code : {"none", "ready", "denied", "used"}, auth : Subjects \cup {NoOne}]
SessRec == [who : Subjects \cup {NoOne}, open : BOOLEAN, link : Flows \cup {NoFlow}]
FlowsOK ==
  flow \in [Flows -> FlowRec]
CookiesOK ==
  /\ mark \in [Browsers -> Flows \cup {NoFlow}]
  /\ linkMark \in [Browsers -> Flows \cup {NoFlow}]
  /\ sid \in [Browsers -> Flows \cup Boxes \cup {NoOne}]
SessionsOK ==
  sess \in [Flows -> SessRec]
HandlerRec ==
  [at : {"rest", "token", "open", "answer", "prove", "add"},
   by : Browsers \cup {NoOne}, flow : Flows \cup {NoFlow}, who : Subjects \cup {NoOne},
   for : Flows \cup Boxes \cup Doors \cup {NoOne}]
HandlersOK ==
  /\ req \in [Requests -> HandlerRec]
  /\ Shape
GuessesOK ==
  /\ fails \in [Doors -> [Ages -> Nat]] /\ missed \in [Doors -> [Ages -> Nat]]
  /\ emptied \in [Doors -> [Ages -> Nat]]
CountersOK ==
  /\ GuessesOK
  /\ signups \in [Ages -> Nat] /\ admitted \in [Ages -> Nat]
  /\ begun \in 0..MaxBegun
OthersOK ==
  /\ linked \in [Flows -> Flows \cup {NoFlow}] /\ starter \in [Flows -> Flows \cup {NoFlow}]
  /\ creator \in [Boxes -> Browsers \cup {NoOne}]

Types == FlowsOK /\ CookiesOK /\ SessionsOK /\ HandlersOK /\ CountersOK /\ OthersOK

(* It is the type invariant, and more. *)
LEMMA TypesAreRight ==
  Types => TypeOK
  BY DEF Types, TypeOK, FlowsOK, CookiesOK, SessionsOK, HandlersOK, CountersOK, GuessesOK,
     OthersOK, At,
         FlowRec, SessRec, HandlerRec, Shape, Shaped, At

(* What begins, is decided or is spent stays a flow. *)
LEMMA FlowUpdates ==
  ASSUME NEW x \in FlowRec, NEW b \in Browsers
  PROVE  /\ [x EXCEPT !.kind = "login", !.owner = b] \in FlowRec
         /\ [x EXCEPT !.kind = "link", !.owner = b] \in FlowRec
         /\ \A s \in Subjects : [x EXCEPT !.code = "ready", !.auth = s] \in FlowRec
         /\ [x EXCEPT !.code = "denied"] \in FlowRec
         /\ [x EXCEPT !.code = "used"] \in FlowRec
  BY DEF FlowRec

(* A session stays one when its transaction changes, and when it is closed. *)
LEMMA SessionUpdates ==
  ASSUME SessionsOK, NEW s \in Flows
  PROVE  /\ \A f \in Flows \cup {NoFlow} : [sess EXCEPT ![s].link = f] \in [Flows -> SessRec]
         /\ [sess EXCEPT ![s].open = FALSE] \in [Flows -> SessRec]
<1>1. sess[s] \in SessRec
  BY DEF SessionsOK
<1>2. \A f \in Flows \cup {NoFlow} : [sess[s] EXCEPT !.link = f] \in SessRec
  BY <1>1 DEF SessRec
<1>3. [sess[s] EXCEPT !.open = FALSE] \in SessRec
  BY <1>1 DEF SessRec
<1> QED
  BY <1>1, <1>2, <1>3 DEF SessionsOK

(* What ends a transaction leaves sessions and cookies in their shape. *)
LEMMA ClearLinkTypes ==
  ASSUME SessionsOK, CookiesOK, NEW b \in Browsers, NEW s, ClearLink(b, s)
  PROVE  SessionsOK' /\ linkMark' \in [Browsers -> Flows \cup {NoFlow}]
<1>1. CASE s \in Flows
  <2>1. [sess EXCEPT ![s].link = NoFlow] \in [Flows -> SessRec]
    BY <1>1, SessionUpdates
  <2> QED
    BY <1>1, <2>1 DEF ClearLink, SessionsOK, CookiesOK
<1>2. CASE s \notin Flows
  BY <1>2 DEF ClearLink, SessionsOK, CookiesOK
<1> QED
  BY <1>1, <1>2

(* A handler that takes one step leaves the others alone. *)
LEMMA HandlerUpdates ==
  ASSUME HandlersOK, NEW r \in Requests, NEW x \in HandlerRec, Shaped(x),
         req' = [req EXCEPT ![r] = x]
  PROVE  HandlersOK'
  BY DEF HandlersOK, Shape

(* A recorded attempt is one more of age 0. *)
LEMMA RecordedTypes ==
  ASSUME SignInAssumption, NEW c \in [Ages -> Nat]
  PROVE  Recorded(c) \in [Ages -> Nat]
<1>1. 0 \in Ages
  BY DEF Ages, SignInAssumption
<1>2. c[0] + 1 \in Nat
  BY <1>1
<1> QED
  BY <1>1, <1>2 DEF Recorded

(* Emptying a counter is counted, or there is nothing to empty. *)
LEMMA EmptiedTypes ==
  ASSUME SignInAssumption, GuessesOK, NEW d \in Doors
  PROVE  Emptied(d) \in [Ages -> Nat]
  BY RecordedTypes DEF GuessesOK, Emptied

(* The type invariant is inductive together with the shape of handlers.    *)
LEMMA TypesInductive ==
  ASSUME SignInAssumption, Types, [Next]_vars
  PROVE  Types'
<1> USE DEF Types
<1>1. ASSUME NEW b \in Browsers, BeginLogin(b) PROVE Types'
  <2>1. FlowsOK'
    <3>1. PICK f \in Flows : Begun(f, "login", b)
      BY <1>1 DEF BeginLogin
    <3>2. flow[f] \in FlowRec
      BY DEF FlowsOK
    <3> QED
      BY <3>1, <3>2, FlowUpdates DEF Begun, FlowsOK
  <2>2. CookiesOK'
    <3>1. PICK f \in Flows : mark' = [mark EXCEPT ![b] = f]
      BY <1>1 DEF BeginLogin
    <3>2. linkMark' \in [Browsers -> Flows \cup {NoFlow}] /\ UNCHANGED sid
      BY <1>1, ClearLinkTypes DEF BeginLogin
    <3> QED
      BY <3>1, <3>2 DEF CookiesOK
  <2>3. SessionsOK'
    BY <1>1, ClearLinkTypes DEF BeginLogin
  <2>4. CountersOK'
    BY <1>1 DEF BeginLogin, Begun, Budget, counters, guesses, links, CountersOK, GuessesOK,
       SignInAssumption
  <2> QED
    BY <1>1, <2>1, <2>2, <2>3, <2>4
       DEF BeginLogin, cookies, counters, guesses, links, HandlersOK, OthersOK, HandlerRec, Shape,
           Shaped, At
<1>2. ASSUME NEW b \in Browsers, BeginLink(b) PROVE Types'
  <2>1. FlowsOK'
    <3>1. PICK f \in Flows : Begun(f, "link", b)
      BY <1>2 DEF BeginLink
    <3>2. flow[f] \in FlowRec
      BY DEF FlowsOK
    <3> QED
      BY <3>1, <3>2, FlowUpdates DEF Begun, FlowsOK
  <2>2. CookiesOK'
    BY <1>2 DEF BeginLink, CookiesOK, Flows
  <2>3. SessionsOK'
    <3>1. PICK f \in Flows : sess' = [sess EXCEPT ![sid[b]].link = f]
      BY <1>2 DEF BeginLink
    <3>2. sid[b] \in Flows
      BY <1>2 DEF BeginLink, SignedIn
    <3> QED
      BY <3>1, <3>2, SessionUpdates DEF SessionsOK
  <2>5. OthersOK'
    <3>1. PICK f \in Flows : starter' = [starter EXCEPT ![f] = sid[b]]
      BY <1>2 DEF BeginLink
    <3>2. sid[b] \in Flows
      BY <1>2 DEF BeginLink, SignedIn
    <3> QED
      BY <1>2, <3>1, <3>2 DEF BeginLink, OthersOK
  <2>4. CountersOK'
    BY <1>2 DEF BeginLink, Begun, Budget, counters, guesses, links, CountersOK, GuessesOK,
       SignInAssumption
  <2> QED
    BY <1>2, <2>1, <2>2, <2>3, <2>4, <2>5
       DEF BeginLink, cookies, HandlersOK, HandlerRec, Shape, Shaped, At
<1>3. ASSUME NEW b \in Browsers, Logout(b) PROVE Types'
  <2>1. CookiesOK'
    BY <1>3 DEF Logout, CookiesOK
  <2>2. SessionsOK'
    BY <1>3, SessionUpdates DEF Logout, SessionsOK
  <2> QED
    BY <1>3, <2>1, <2>2
       DEF Logout, cookies, counters, guesses, links, FlowsOK, HandlersOK, CountersOK, GuessesOK,
           OthersOK, HandlerRec, Shape,
           Shaped, At
<1>4. ASSUME NEW b \in Browsers, Lapse(b) PROVE Types'
  <2>1. CookiesOK'
    BY <1>4 DEF Lapse, Clear, CookiesOK
  <2>2. SessionsOK'
    <3>1. \/ UNCHANGED sess
          \/ sid[b] \in Flows /\ sess' = [sess EXCEPT ![sid[b]].link = NoFlow]
      BY <1>4 DEF Lapse, SignedIn
    <3>2. ASSUME sid[b] \in Flows, sess' = [sess EXCEPT ![sid[b]].link = NoFlow] PROVE SessionsOK'
      BY <3>2, SessionUpdates DEF SessionsOK
    <3> QED
      BY <3>1, <3>2 DEF SessionsOK
  <2> QED
    BY <1>4, <2>1, <2>2
       DEF Lapse, cookies, counters, guesses, links, FlowsOK, HandlersOK, CountersOK, GuessesOK,
           OthersOK, HandlerRec, Shape,
           Shaped, At
<1>5. ASSUME NEW f \in Flows, Authenticate(f) PROVE Types'
  <2>1. FlowsOK'
    <3>1. flow[f] \in FlowRec
      BY DEF FlowsOK
    <3>2. [flow[f] EXCEPT !.code = "denied"] \in FlowRec
      BY <3>1 DEF FlowRec
    <3>3. \A s \in Subjects : [flow[f] EXCEPT !.code = "ready", !.auth = s] \in FlowRec
      BY <3>1 DEF FlowRec
    <3> QED
      BY <1>5, <3>2, <3>3 DEF Authenticate, FlowsOK
  <2> QED
    BY <1>5, <2>1
       DEF Authenticate, cookies, counters, guesses, links, CookiesOK, SessionsOK, HandlersOK,
           CountersOK, GuessesOK,
           OthersOK, HandlerRec, Shape, Shaped, At
<1>6. ASSUME NEW r \in Requests, NEW b \in Browsers, NEW f \in Flows, LoginCallback(r, b, f)
      PROVE  Types'
  <2>1. HandlersOK'
    BY <1>6 DEF LoginCallback, HandlersOK, HandlerRec, Shape, Shaped, At, Rest, NoFlow
  <2> QED
    BY <1>6, <2>1
       DEF LoginCallback, cookies, counters, guesses, links, FlowsOK, CookiesOK, SessionsOK,
           CountersOK, GuessesOK, OthersOK
<1>7. ASSUME NEW r \in Requests, NEW b \in Browsers, NEW f \in Flows, LinkCallback(r, b, f)
      PROVE  Types'
  <2>1. HandlersOK'
    <3>1. CASE UNCHANGED req
      BY <3>1 DEF HandlersOK, HandlerRec, Shape, Shaped, At
    <3>2. CASE req' = [req EXCEPT ![r] = [Rest EXCEPT !.at = "token", !.by = b, !.flow = f,
                                            !.for = sid[b]]]
      <4>1. sid[b] \in Flows
        BY <1>7, <3>2 DEF LinkCallback, Transaction, SignedIn, HandlersOK, At, Rest
      <4> DEFINE x == [Rest EXCEPT !.at = "token", !.by = b, !.flow = f, !.for = sid[b]]
      <4>2. x \in HandlerRec /\ Shaped(x)
        BY <4>1 DEF Rest, HandlerRec, Shaped, NoFlow
      <4> QED
        BY <3>2, <4>2, HandlerUpdates
    <3> QED
      BY <1>7, <3>1, <3>2 DEF LinkCallback
  <2>2. CookiesOK'
    <3>1. UNCHANGED linkMark \/ ClearLink(b, sid[b])
      BY <1>7 DEF LinkCallback
    <3>2. linkMark' \in [Browsers -> Flows \cup {NoFlow}]
      BY <3>1, ClearLinkTypes DEF CookiesOK
    <3> QED
      BY <1>7, <3>2 DEF LinkCallback, CookiesOK
  <2>3. SessionsOK'
    <3>1. UNCHANGED sess \/ ClearLink(b, sid[b])
      BY <1>7 DEF LinkCallback
    <3> QED
      BY <3>1, ClearLinkTypes DEF SessionsOK
  <2> QED
    BY <1>7, <2>1, <2>2, <2>3 DEF LinkCallback, cookies, counters, guesses, links, FlowsOK,
       CountersOK, GuessesOK, OthersOK
<1>8. ASSUME NEW r \in Requests, NEW b \in Browsers, NEW d \in Doors, Try(r, b, d) PROVE Types'
  <2>1. HandlersOK'
    BY <1>8 DEF Try, HandlersOK, HandlerRec, Shape, Shaped, At, Rest, NoFlow
  <2>2. CountersOK'
    BY <1>8 DEF Try, Budget, counters, guesses, links, CountersOK, GuessesOK, SignInAssumption
  <2> QED
    BY <1>8, <2>1, <2>2 DEF Try, cookies, counters, guesses, links, FlowsOK, CookiesOK,
       SessionsOK, OthersOK
<1>9. ASSUME NEW r \in Requests, NEW b \in Browsers, NEW n \in Boxes, SignUp(r, b, n) PROVE Types'
  <2>1. HandlersOK'
    BY <1>9 DEF SignUp, HandlersOK, HandlerRec, Shape, Shaped, At, Rest, NoFlow
  <2>2. CountersOK'
    <3>1. 0 \in Ages
      BY DEF Ages, SignInAssumption
    <3>2. signups[0] + 1 \in Nat /\ admitted[0] + 1 \in Nat
      BY <3>1 DEF CountersOK
    <3>3. begun' \in 0..MaxBegun /\ GuessesOK'
      BY <1>9 DEF SignUp, Budget, CountersOK, GuessesOK, guesses, SignInAssumption
    <3>4. /\ signups' = [signups EXCEPT ![0] = @ + 1]
          /\ admitted' = [admitted EXCEPT ![0] = @ + 1]
      BY <1>9 DEF SignUp, Counted, Recorded
    <3> QED
      BY <3>1, <3>2, <3>3, <3>4 DEF CountersOK
  <2> QED
    BY <1>9, <2>1, <2>2 DEF SignUp, cookies, counters, guesses, links, FlowsOK, CookiesOK,
       SessionsOK, OthersOK
<1>10. ASSUME NEW r \in Requests, Exchange(r) PROVE Types'
  <2>1. FlowsOK'
    <3>1. r \in Requests /\ req[r].flow \in Flows
      BY <1>10 DEF Exchange, HandlersOK, HandlerRec, Shape, Shaped, At
    <3>2. flow[req[r].flow] \in FlowRec
      BY <3>1 DEF FlowsOK
    <3>3. [flow[req[r].flow] EXCEPT !.code = "used"] \in FlowRec
      BY <3>2 DEF FlowRec
    <3> QED
      BY <1>10, <3>1, <3>3 DEF Exchange, FlowsOK
  <2>2. CookiesOK'
    <3>1. req[r].by \in Browsers
      BY <1>10 DEF Exchange, HandlersOK, HandlerRec, Shape, Shaped, At
    <3>2. UNCHANGED linkMark \/ ClearLink(req[r].by, req[r].for)
      BY <1>10 DEF Exchange
    <3>3. linkMark' \in [Browsers -> Flows \cup {NoFlow}]
      BY <3>1, <3>2, ClearLinkTypes DEF CookiesOK
    <3>4. UNCHANGED mark \/ mark' = [mark EXCEPT ![req[r].by] = NoFlow]
      BY <1>10 DEF Exchange, Clear
    <3> QED
      BY <1>10, <3>3, <3>4 DEF Exchange, CookiesOK
  <2>3. SessionsOK'
    <3>1. req[r].by \in Browsers
      BY <1>10 DEF Exchange, HandlersOK, HandlerRec, Shape, Shaped, At
    <3>2. UNCHANGED sess \/ ClearLink(req[r].by, req[r].for)
      BY <1>10 DEF Exchange
    <3> QED
      BY <3>1, <3>2, ClearLinkTypes DEF SessionsOK
  <2>4. HandlersOK'
    <3>1. At(r, "token") /\ req[r].flow \in Flows /\ req[r].for \in Flows \cup {NoOne}
      BY <1>10 DEF Exchange, HandlersOK, HandlerRec, Shape, Shaped, At
    <3>2. CASE End(r)
      BY <3>2 DEF End, HandlersOK, HandlerRec, Shape, Shaped, At, Rest, NoFlow
    <3>3. ASSUME NEW who \in UserInfo(req[r].flow), Named(who),
                 req' = [req EXCEPT ![r] = [@ EXCEPT !.at = IF req[r].for # NoOne THEN "answer"
                                                           ELSE "open", !.who = who]]
          PROVE  HandlersOK'
      <4>1. who \in Subjects /\ who # NoOne
        BY <3>1, <3>3 DEF UserInfo, Named, FlowsOK, FlowRec
      <4>2. PICK step \in {"answer", "open"} :
              /\ req' = [req EXCEPT ![r] = [@ EXCEPT !.at = step, !.who = who]]
              /\ IF req[r].for = NoOne THEN step = "open" ELSE step = "answer"
        BY <3>3
      <4>3. req[r] \in HandlerRec /\ req[r].by \in Browsers
        BY <3>1 DEF HandlersOK, Shape, Shaped, At
      <4> DEFINE x == [req[r] EXCEPT !.at = step, !.who = who]
      <4>4. x \in HandlerRec
        BY <4>1, <4>3 DEF HandlerRec
      <4>5. Shaped(x)
        BY <3>1, <4>1, <4>2, <4>3 DEF HandlerRec, Shaped
      <4> QED
        BY <4>2, <4>4, <4>5, HandlerUpdates
    <3> QED
      BY <1>10, <3>1, <3>2, <3>3 DEF Exchange
  <2> QED
    BY <1>10, <2>1, <2>2, <2>3, <2>4 DEF Exchange, cookies, counters, guesses, links, CountersOK,
       GuessesOK, OthersOK
<1>11. ASSUME NEW r \in Requests, Open(r) PROVE Types'
  <2>1. CookiesOK'
    BY <1>11 DEF Open, Clear, CookiesOK, At, HandlersOK, HandlerRec, Shape, Shaped
  <2>2. SessionsOK'
    <3>1. req[r].flow \in Flows /\ req[r].who \in Subjects \cup {NoOne}
      BY <1>11 DEF Open, HandlersOK, HandlerRec, Shape, Shaped, At
    <3>2. [who |-> req[r].who, open |-> TRUE, link |-> NoFlow] \in SessRec
      BY <3>1 DEF SessRec
    <3> QED
      BY <1>11, <3>1, <3>2 DEF Open, SessionsOK
  <2>3. HandlersOK'
    BY <1>11 DEF Open, End, HandlersOK, HandlerRec, Shape, Shaped, At, Rest, NoFlow
  <2> QED
    BY <1>11, <2>1, <2>2, <2>3 DEF Open, cookies, counters, guesses, links, FlowsOK, CountersOK,
       GuessesOK, OthersOK
<1>12. ASSUME NEW r \in Requests, Answer(r) PROVE Types'
  <2>1. CookiesOK'
    <3>1. req[r].by \in Browsers /\ ClearLink(req[r].by, req[r].for)
      BY <1>12 DEF Answer, HandlersOK, HandlerRec, Shape, Shaped, At
    <3> QED
      BY <1>12, <3>1, ClearLinkTypes DEF Answer, CookiesOK
  <2>2. SessionsOK'
    <3>1. req[r].by \in Browsers /\ ClearLink(req[r].by, req[r].for)
      BY <1>12 DEF Answer, HandlersOK, HandlerRec, Shape, Shaped, At
    <3> QED
      BY <3>1, ClearLinkTypes
  <2>3. OthersOK'
    BY <1>12 DEF Answer, OthersOK, HandlersOK, HandlerRec, Shape, Shaped, At
  <2>4. HandlersOK'
    BY <1>12 DEF Answer, End, HandlersOK, HandlerRec, Shape, Shaped, At, Rest, NoFlow
  <2> QED
    BY <1>12, <2>1, <2>2, <2>3, <2>4 DEF Answer, cookies, counters, guesses, links, FlowsOK,
       CountersOK, GuessesOK
<1>13. ASSUME NEW r \in Requests, Prove(r) PROVE Types'
  <2>1. CookiesOK'
    BY <1>13 DEF Prove, Admit, Candidates, CookiesOK
  <2>2. CountersOK'
    <3>1. PICK d \in Doors : d = req[r].for
      BY <1>13 DEF Prove, HandlersOK, HandlerRec, Shape, Shaped, At
    <3>2. \/ UNCHANGED guesses
          \/ /\ fails' = [fails EXCEPT ![d] = None] /\ UNCHANGED missed
             /\ emptied' = [emptied EXCEPT ![d] = Emptied(d)]
          \/ /\ fails' = [fails EXCEPT ![d] = Recorded(fails[d])]
             /\ missed' = [missed EXCEPT ![d] = Recorded(missed[d])] /\ UNCHANGED emptied
      BY <1>13, <3>1 DEF Prove, Admit, CountersOK, GuessesOK
    <3>3. /\ Recorded(fails[d]) \in [Ages -> Nat] /\ Recorded(missed[d]) \in [Ages -> Nat]
          /\ Emptied(d) \in [Ages -> Nat] /\ None \in [Ages -> Nat]
      BY RecordedTypes, EmptiedTypes DEF CountersOK, GuessesOK, None
    <3>4. GuessesOK'
      BY <3>2, <3>3 DEF CountersOK, GuessesOK, guesses
    <3>5. UNCHANGED <<signups, admitted, begun>>
      BY <1>13 DEF Prove
    <3> QED
      BY <3>4, <3>5 DEF CountersOK
  <2>3. HandlersOK'
    BY <1>13 DEF Prove, End, HandlersOK, HandlerRec, Shape, Shaped, At, Rest, NoFlow
  <2> QED
    BY <1>13, <2>1, <2>2, <2>3 DEF Prove, cookies, counters, guesses, links, FlowsOK, SessionsOK,
       OthersOK
<1>14. ASSUME NEW r \in Requests, Add(r) PROVE Types'
  <2>1. CookiesOK'
    BY <1>14 DEF Add, CookiesOK, At, HandlersOK, HandlerRec, Shape, Shaped
  <2>2. OthersOK'
    BY <1>14 DEF Add, links, OthersOK, At, HandlersOK, HandlerRec, Shape, Shaped
  <2>3. HandlersOK'
    BY <1>14 DEF Add, End, HandlersOK, HandlerRec, Shape, Shaped, At, Rest, NoFlow
  <2> QED
    BY <1>14, <2>1, <2>2, <2>3 DEF Add, cookies, counters, guesses, links, FlowsOK, SessionsOK,
       CountersOK, GuessesOK
<1>15. CASE Tick
  <2>1. CountersOK'
    BY <1>15 DEF Tick, Older, Ages, CountersOK, GuessesOK, SignInAssumption
  <2> QED
    BY <1>15, <2>1
       DEF Tick, cookies, counters, guesses, links, FlowsOK, CookiesOK, SessionsOK, HandlersOK,
           OthersOK,
           HandlerRec, Shape, Shaped, At
<1>16. CASE Restart
  <2>1. CountersOK'
    <3>1. \A d \in Doors : Emptied(d) \in [Ages -> Nat]
      BY EmptiedTypes DEF CountersOK
    <3>2. None \in [Ages -> Nat]
      BY DEF None
    <3> QED
      BY <1>16, <3>1, <3>2 DEF Restart, CountersOK, GuessesOK
  <2>2. HandlersOK'
    BY <1>16 DEF Restart, HandlersOK, HandlerRec, Shape, Shaped, At, Rest, NoFlow
  <2> QED
    BY <1>16, <2>1, <2>2 DEF Restart, cookies, counters, guesses, links, FlowsOK, CookiesOK,
       SessionsOK, OthersOK
<1>17. CASE UNCHANGED vars
  BY <1>17
     DEF vars, cookies, counters, guesses, links, FlowsOK, CookiesOK, SessionsOK, HandlersOK,
         CountersOK, GuessesOK, OthersOK,
         HandlerRec, Shape, Shaped, At
<1> QED
  BY <1>1, <1>2, <1>3, <1>4, <1>5, <1>6, <1>7, <1>8, <1>9, <1>10, <1>11, <1>12, <1>13, <1>14,
  <1>15, <1>16, <1>17 DEF Next, Handler

(* It holds at first. *)
LEMMA TypesInitial ==
  ASSUME SignInAssumption, Init
  PROVE  Types
  BY
     DEF SignInAssumption, Init, Types, FlowsOK, CookiesOK, SessionsOK, HandlersOK, CountersOK,
         GuessesOK, OthersOK, HandlerRec, Shape, Shaped, At, Rest, None, Ages, Flows, NoFlow,
         FlowRec, SessRec
-----------------------------------------------------------------------------
(* The inductive invariant: whose flows cookies, handlers and links name,  *)
(* and which person a flow, once its code is spent, is known to be of.     *)
FreshFlows == \A f \in Flows : flow[f].kind = "unused" => flow[f].code = "none"
Of(f, kind, b) == flow[f].kind = kind /\ flow[f].owner = b
OwnMarks == \A b \in Browsers : mark[b] \in Flows => Of(mark[b], "login", b)
OwnLinkMarks == \A b \in Browsers : linkMark[b] \in Flows => Of(linkMark[b], "link", b)
OwnSessions ==
  \A b \in Browsers : sid[b] \in Flows =>
    Of(sid[b], "login", b) /\ sess[sid[b]].who # NoOne
OwnHandlers ==
  \A r \in Requests : req[r].at \in {"token", "open", "answer"} =>
    /\ Of(req[r].flow, IF req[r].for = NoOne THEN "login" ELSE "link", req[r].by)
    /\ req[r].for # NoOne => Of(req[r].for, "login", req[r].by)
Spent(f, who) == flow[f].code = "used" /\ flow[f].auth = who
KnownHandlers ==
  \A r \in Requests : req[r].at \in {"open", "answer"} => Spent(req[r].flow, req[r].who)
KnownSessions == \A s \in Flows : sess[s].who # NoOne => Spent(s, sess[s].who)
OwnLinks ==
  \A f \in Flows : linked[f] # NoFlow =>
    /\ \E b \in Browsers : Of(f, "link", b) /\ Of(linked[f], "login", b)
    /\ sess[linked[f]].who # NoOne /\ Spent(f, sess[linked[f]].who)
(* Which session began the links that sessions, handlers and confirmations *)
(* name: a transaction is put into the session that begins it.             *)
StartedTransactions ==
  \A s \in Flows : sess[s].link # NoFlow =>
    /\ starter[sess[s].link] = s
    /\ \E b \in Browsers : Of(sess[s].link, "link", b)
StartedHandlers ==
  \A r \in Requests : req[r].at \in {"token", "answer"} /\ req[r].for # NoOne =>
    starter[req[r].flow] = req[r].for
StartedLinks == \A f \in Flows : linked[f] # NoFlow => linked[f] = starter[f]
Started == StartedTransactions /\ StartedHandlers /\ StartedLinks

Persons ==
  /\ FreshFlows /\ OwnMarks /\ OwnLinkMarks /\ OwnSessions /\ OwnHandlers
  /\ KnownHandlers /\ KnownSessions /\ OwnLinks

(* A flow that was begun keeps its kind and its browser, one whose code is *)
(* spent keeps its person, and none is answered before it is begun.        *)
LEMMA FlowsStand ==
  ASSUME SignInAssumption, Types, FreshFlows, [Next]_vars
  PROVE  /\ FreshFlows'
         /\ \A f \in Flows, kind \in {"login", "link"}, b \in Browsers :
              Of(f, kind, b) => Of(f, kind, b)'
         /\ \A f \in Flows, who \in Subjects \cup {NoOne} : Spent(f, who) => Spent(f, who)'
<1> DEFINE Same == UNCHANGED flow
<1> DEFINE Starts == \E f \in Flows, kind \in {"login", "link"}, b \in Browsers : Begun(f, kind, b)
<1>1. Same \/ Starts \/ (\E f \in Flows : Authenticate(f))
           \/ (\E r \in Requests : Exchange(r) /\ ~Same)
  BY
     DEF Next, vars, Handler, BeginLogin, BeginLink, Logout, Lapse, LoginCallback, LinkCallback,
         Try, SignUp, Open, Answer, Prove, Add, Tick, Restart
<1>2. CASE Same
  BY <1>2 DEF FreshFlows, Of, Spent
<1>3. CASE Starts
  <2>1. PICK g \in Flows, kind \in {"login", "link"}, b \in Browsers : Begun(g, kind, b)
    BY <1>3
  <2>2. flow[g] \in FlowRec /\ flow[g].kind = "unused" /\ flow[g].code = "none"
    BY <2>1 DEF Begun, FreshFlows, Types, FlowsOK
  <2>3. flow' = [flow EXCEPT ![g] = [@ EXCEPT !.kind = kind, !.owner = b]]
    BY <2>1 DEF Begun
  <2> QED
    BY <2>2, <2>3 DEF FreshFlows, Of, Spent, Types, FlowsOK, FlowRec
<1>4. CASE \E f \in Flows : Authenticate(f)
  <2>1. PICK g \in Flows : Authenticate(g)
    BY <1>4
  <2>2. flow[g] \in FlowRec /\ flow[g].kind # "unused" /\ flow[g].code = "none"
    BY <2>1 DEF Authenticate, Types, FlowsOK
  <2>3. \A f \in Flows : f # g => flow'[f] = flow[f]
    BY <2>1 DEF Authenticate, Types, FlowsOK
  <2>4. flow'[g].kind = flow[g].kind /\ flow'[g].owner = flow[g].owner
    <3>1. \/ flow'[g] = [flow[g] EXCEPT !.code = "denied"]
          \/ \E s \in Subjects : flow'[g] = [flow[g] EXCEPT !.code = "ready", !.auth = s]
      BY <2>1 DEF Authenticate, Types, FlowsOK
    <3> QED
      BY <2>2, <3>1 DEF FlowRec
  <2> QED
    BY <2>2, <2>3, <2>4 DEF FreshFlows, Of, Spent
<1>5. ASSUME NEW r \in Requests, Exchange(r), ~Same
      PROVE  /\ FreshFlows'
             /\ \A f \in Flows, kind \in {"login", "link"}, b \in Browsers :
                  Of(f, kind, b) => Of(f, kind, b)'
             /\ \A f \in Flows, who \in Subjects \cup {NoOne} : Spent(f, who) => Spent(f, who)'
  <2>1. /\ flow[req[r].flow].code = "ready"
        /\ flow' = [flow EXCEPT ![req[r].flow].code = "used"]
    BY <1>5 DEF Exchange
  <2>2. req[r].flow \in Flows /\ flow[req[r].flow] \in FlowRec
    BY <1>5 DEF Exchange, Types, FlowsOK, HandlersOK, Shape, Shaped, At
  <2>3. flow[req[r].flow].kind # "unused"
    BY <2>1, <2>2 DEF FreshFlows
  <2> QED
    BY <2>1, <2>2, <2>3 DEF FreshFlows, Of, Spent, Types, FlowsOK, FlowRec
<1> QED
  BY <1>1, <1>2, <1>3, <1>4, <1>5

(* The sign-in cookies: cleared, or those of a login its browser begins.   *)
LEMMA MarkSteps ==
  ASSUME SignInAssumption, Types, [Next]_vars, NEW b \in Browsers
  PROVE  mark'[b] \in {mark[b], NoFlow} \/ Of(mark[b], "login", b)'
<1> DEFINE Begins == \E c \in Browsers : BeginLogin(c)
<1>1. \/ UNCHANGED mark \/ Begins \/ \E c \in Browsers : Clear(c)
      \/ \E r \in Requests : (Exchange(r) \/ Open(r)) /\ Clear(req[r].by)
  BY
     DEF Next, vars, cookies, Handler, Lapse, Exchange, Open, BeginLink, Logout, Authenticate,
         LoginCallback, LinkCallback, Try, SignUp, Answer, Prove, Add, Tick, Restart
<1>2. CASE Begins
  <2>1. PICK c \in Browsers, f \in Flows : Begun(f, "login", c) /\ mark' = [mark EXCEPT ![c] = f]
    BY <1>2 DEF BeginLogin
  <2>2. CASE b = c
    <3>1. flow[f] \in FlowRec /\ flow'[f] = [flow[f] EXCEPT !.kind = "login", !.owner = c]
      BY <2>1 DEF Begun, Types, FlowsOK
    <3>2. flow'[f].kind = "login" /\ flow'[f].owner = c
      BY <3>1 DEF FlowRec
    <3>3. mark'[b] = f
      BY <2>1, <2>2 DEF Types, CookiesOK
    <3> QED
      BY <2>2, <3>2, <3>3 DEF Of
  <2> QED
    BY <2>1, <2>2 DEF Types, CookiesOK
<1> QED
  BY <1>1, <1>2 DEF Clear, Types, CookiesOK, HandlersOK, Shape, Shaped, At, Exchange, Open

(* The link cookies: cleared, or those of a link its browser begins.       *)
LEMMA LinkMarkSteps ==
  ASSUME SignInAssumption, Types, [Next]_vars, NEW b \in Browsers
  PROVE  linkMark'[b] \in {linkMark[b], NoFlow} \/ Of(linkMark[b], "link", b)'
<1> DEFINE Begins == \E c \in Browsers : BeginLink(c)
<1>1. \/ UNCHANGED linkMark \/ Begins
      \/ \E c : linkMark' = [linkMark EXCEPT ![c] = NoFlow]
  BY
     DEF Next, vars, cookies, Handler, ClearLink, BeginLogin, Logout, Lapse, Authenticate,
         LoginCallback, LinkCallback, Try, SignUp, Exchange, Open, Answer, Prove, Add, Tick, Restart
<1>2. CASE Begins
  <2>1. PICK c \in Browsers, f \in Flows :
          Begun(f, "link", c) /\ linkMark' = [linkMark EXCEPT ![c] = f]
    BY <1>2 DEF BeginLink
  <2>2. CASE b = c
    <3>1. flow[f] \in FlowRec /\ flow'[f] = [flow[f] EXCEPT !.kind = "link", !.owner = c]
      BY <2>1 DEF Begun, Types, FlowsOK
    <3>2. flow'[f].kind = "link" /\ flow'[f].owner = c
      BY <3>1 DEF FlowRec
    <3>3. linkMark'[b] = f
      BY <2>1, <2>2 DEF Types, CookiesOK
    <3> QED
      BY <2>2, <3>2, <3>3 DEF Of
  <2> QED
    BY <2>1, <2>2 DEF Types, CookiesOK
<1> QED
  BY <1>1, <1>2 DEF Types, CookiesOK

(* The session cookie: kept, cleared, that of a mailbox, or that of a      *)
(* sign-in which has just been answered.                                   *)
LEMMA SidSteps ==
  ASSUME SignInAssumption, Types, [Next]_vars, NEW b \in Browsers
  PROVE  \/ sid'[b] = sid[b] \/ sid'[b] \notin Flows
         \/ \E r \in Requests : /\ Open(r) /\ req[r].by = b /\ sid'[b] = req[r].flow
                                /\ sess'[req[r].flow].who = req[r].who
<1> DEFINE Opens == \E r \in Requests : Open(r) /\ ~UNCHANGED sid
<1> DEFINE Enters == \E c, n : n \notin Flows /\ sid' = [sid EXCEPT ![c] = n]
<1>1. UNCHANGED sid \/ Opens \/ Enters
  <2>1. ASSUME NEW r \in Requests, Prove(r) PROVE UNCHANGED sid \/ Enters
    BY <2>1 DEF Prove, Admit, Candidates, SignInAssumption
  <2>2. ASSUME NEW r \in Requests, Add(r) PROVE UNCHANGED sid \/ Enters
    <3>1. req[r].for \in Boxes
      BY <2>2 DEF Add, Types, HandlersOK, Shape, Shaped, At
    <3> QED
      BY <2>2, <3>1 DEF Add, SignInAssumption
  <2>3. ASSUME NEW c \in Browsers, Logout(c) PROVE Enters
    BY <2>3 DEF Logout, SignInAssumption
  <2> QED
    BY <2>1, <2>2, <2>3
       DEF Next, vars, cookies, Handler, BeginLogin, BeginLink, Lapse, Authenticate, LoginCallback,
           LinkCallback, Try, SignUp, Exchange, Answer, Tick, Restart
<1>2. CASE Opens
  <2>1. PICK r \in Requests : Open(r) /\ ~UNCHANGED sid
    BY <1>2
  <2>2. req[r].flow \in Flows
    BY <2>1 DEF Open, Types, HandlersOK, Shape, Shaped, At
  <2>3. /\ sid' = [sid EXCEPT ![req[r].by] = req[r].flow]
        /\ sess' = [sess EXCEPT ![req[r].flow] =
                    [who |-> req[r].who, open |-> TRUE, link |-> NoFlow]]
    BY <2>1 DEF Open
  <2>4. sess'[req[r].flow].who = req[r].who
    BY <2>2, <2>3 DEF Types, SessionsOK
  <2> QED
    BY <2>1, <2>3, <2>4 DEF Types, CookiesOK
<1> QED
  BY <1>1, <1>2 DEF Types, CookiesOK

(* A session's person: kept, or the one who has just been answered for it. *)
LEMMA SessSteps ==
  ASSUME SignInAssumption, Types, [Next]_vars, NEW s \in Flows
  PROVE  \/ sess'[s].who = sess[s].who
         \/ \E r \in Requests : Open(r) /\ req[r].flow = s /\ sess'[s].who = req[r].who
<1>1. sess[s] \in SessRec
  BY DEF Types, SessionsOK
<1> DEFINE Cuts == \E t, f : sess' = [sess EXCEPT ![t].link = f]
<1> DEFINE Shuts == \E t : sess' = [sess EXCEPT ![t].open = FALSE]
<1> DEFINE Opens == \E r \in Requests :
      /\ Open(r)
      /\ sess' = [sess EXCEPT ![req[r].flow] = [who |-> req[r].who, open |-> TRUE, link |-> NoFlow]]
<1>2. UNCHANGED sess \/ Cuts \/ Shuts \/ Opens
  BY
     DEF Next, vars, Handler, ClearLink, BeginLogin, BeginLink, Logout, Lapse, Authenticate,
         LoginCallback, LinkCallback, Try, SignUp, Exchange, Open, Answer, Prove, Add, Tick, Restart
<1>3. CASE Cuts
  BY <1>1, <1>3 DEF Types, SessionsOK, SessRec
<1>4. CASE Shuts
  BY <1>1, <1>4 DEF Types, SessionsOK, SessRec
<1>5. CASE Opens
  BY <1>1, <1>5 DEF Types, SessionsOK, SessRec
<1> QED
  BY <1>2, <1>3, <1>4, <1>5

(* A handler at an await of the sign-in: as it was, one that has checked   *)
(* its browser's cookies, or one that has learned who signed in.           *)
LEMMA HandlerSteps ==
  ASSUME SignInAssumption, Types, [Next]_vars, NEW r \in Requests,
         req'[r].at \in {"token", "open", "answer"}
  PROVE  \/ req'[r] = req[r]
         \/ /\ req'[r].at = "token" /\ req'[r].for = NoOne
            /\ req'[r].by \in Browsers /\ mark[req'[r].by] = req'[r].flow
         \/ /\ req'[r].at = "token" /\ req'[r].by \in Browsers
            /\ linkMark[req'[r].by] = req'[r].flow
            /\ req'[r].for \in Flows /\ sid[req'[r].by] = req'[r].for
            /\ sess[req'[r].for].link = req'[r].flow
         \/ /\ req[r].at = "token" /\ req'[r].by = req[r].by
            /\ req'[r].flow = req[r].flow /\ req'[r].for = req[r].for
            /\ req'[r].who = flow[req[r].flow].auth
            /\ flow' = [flow EXCEPT ![req[r].flow].code = "used"]
<1> DEFINE Starts(q) == /\ req'[q].at = "token" /\ req'[q].for = NoOne
                        /\ req'[q].by \in Browsers /\ mark[req'[q].by] = req'[q].flow
<1> DEFINE Links(q) == /\ req'[q].at = "token" /\ req'[q].by \in Browsers
                       /\ linkMark[req'[q].by] = req'[q].flow
                       /\ req'[q].for \in Flows /\ sid[req'[q].by] = req'[q].for
                       /\ sess[req'[q].for].link = req'[q].flow
<1> DEFINE Learns(q) == /\ req[q].at = "token" /\ req'[q].by = req[q].by
                        /\ req'[q].flow = req[q].flow /\ req'[q].for = req[q].for
                        /\ req'[q].who = flow[req[q].flow].auth
                        /\ flow' = [flow EXCEPT ![req[q].flow].code = "used"]
<1> DEFINE Away(q) == req'[q].at \in {"rest", "prove", "add"}
<1> DEFINE Only(q) == \A p \in Requests : p # q => req'[p] = req[p]
<1>1. ASSUME NEW q \in Requests, NEW b \in Browsers, NEW f \in Flows, LoginCallback(q, b, f)
      PROVE  Only(q) /\ Starts(q)
  BY <1>1 DEF LoginCallback, Expected, Rest, Types, HandlersOK
<1>2. ASSUME NEW q \in Requests, NEW b \in Browsers, NEW f \in Flows, LinkCallback(q, b, f)
      PROVE  UNCHANGED req \/ (Only(q) /\ Links(q))
  <2>1. CASE Transaction(b, f) /\ flow[f].code # "denied"
    <3> DEFINE x == [Rest EXCEPT !.at = "token", !.by = b, !.flow = f, !.for = sid[b]]
    <3>1. req' = [req EXCEPT ![q] = x] /\ linkMark[b] = f
      BY <1>2, <2>1 DEF LinkCallback
    <3>2. x.at = "token" /\ x.by = b /\ x.flow = f /\ x.for = sid[b]
      BY DEF Rest
    <3>3. sid[b] \in Flows /\ sess[sid[b]].link = f
      BY <2>1 DEF Transaction, SignedIn
    <3> HIDE DEF x
    <3> QED
      BY <3>1, <3>2, <3>3 DEF Types, HandlersOK
  <2> QED
    BY <1>2, <2>1 DEF LinkCallback
<1>3. ASSUME NEW q \in Requests, Exchange(q) PROVE Only(q) /\ (Away(q) \/ Learns(q))
  <2>1. CASE End(q)
    BY <2>1 DEF End, Rest, Types, HandlersOK
  <2>2. CASE ~End(q)
    <3>1. PICK who \in UserInfo(req[q].flow) :
            /\ Named(who) /\ flow' = [flow EXCEPT ![req[q].flow].code = "used"]
            /\ req' = [req EXCEPT ![q] = [@ EXCEPT !.at = IF req[q].for # NoOne THEN "answer"
                                                          ELSE "open", !.who = who]]
      BY <1>3, <2>2 DEF Exchange
    <3>2. req[q].at = "token" /\ req[q] \in HandlerRec
      BY <1>3 DEF Exchange, At, Types, HandlersOK
    <3>3. who = flow[req[q].flow].auth
      BY <3>1 DEF UserInfo, Named
    <3>4. /\ req'[q].by = req[q].by /\ req'[q].flow = req[q].flow
          /\ req'[q].for = req[q].for /\ req'[q].who = who
      BY <3>1, <3>2 DEF HandlerRec, Types, HandlersOK
    <3> QED
      BY <3>1, <3>2, <3>3, <3>4 DEF Types, HandlersOK
  <2> QED
    BY <2>1, <2>2
<1>4. ASSUME NEW q \in Requests, Open(q) \/ Answer(q) \/ Prove(q) \/ Add(q) PROVE Only(q) /\ Away(q)
  BY <1>4 DEF Open, Answer, Prove, Add, End, Rest, Types, HandlersOK
<1>5. ASSUME NEW q \in Requests, NEW b \in Browsers,
             (\E d \in Doors : Try(q, b, d)) \/ (\E n \in Boxes : SignUp(q, b, n))
      PROVE  Only(q) /\ Away(q)
  BY <1>5 DEF Try, SignUp, Rest, Types, HandlersOK
<1>6. CASE Restart
  BY <1>6 DEF Restart, Rest
<1>7. \/ UNCHANGED req \/ Restart
      \/ \E q \in Requests : Only(q) /\ (Starts(q) \/ Links(q) \/ Learns(q) \/ Away(q))
  <2> HIDE DEF Only, Starts, Links, Learns, Away
  <2> QED
    BY <1>1, <1>2, <1>3, <1>4, <1>5
       DEF Next, vars, Handler, BeginLogin, BeginLink, Logout, Lapse, Authenticate, Tick
<1> QED
  BY <1>6, <1>7

(* A link: as it was, or confirmed for the session of the same person.     *)
LEMMA LinkedSteps ==
  ASSUME SignInAssumption, Types, [Next]_vars, NEW f \in Flows
  PROVE  \/ linked'[f] = linked[f]
         \/ \E r \in Requests :
              /\ At(r, "answer") /\ req[r].flow = f /\ linked'[f] = req[r].for
              /\ req[r].who = sess[req[r].for].who
<1>1. UNCHANGED linked \/ \E r \in Requests : Answer(r)
  BY
     DEF Next, vars, links, Handler, BeginLogin, BeginLink, Logout, Lapse, Authenticate,
         LoginCallback, LinkCallback, Try, SignUp, Exchange, Open, Prove, Add, Tick, Restart
<1> QED
  BY <1>1 DEF Answer, SamePerson, Types, OthersOK

(* Whose flows cookies, handlers, sessions and links name is inductive.    *)
LEMMA PersonsInductive ==
  ASSUME SignInAssumption, Types, Types', Persons, [Next]_vars
  PROVE  Persons'
<1> USE DEF Persons
<1>1. FreshFlows'
  BY FlowsStand
<1>2. ASSUME NEW f \in Flows, NEW kind \in {"login", "link"}, NEW b \in Browsers, Of(f, kind, b)
      PROVE  Of(f, kind, b)'
  BY <1>2, FlowsStand
<1>3. ASSUME NEW f \in Flows, NEW who \in Subjects \cup {NoOne}, Spent(f, who)
      PROVE  Spent(f, who)'
  BY <1>3, FlowsStand
<1>4. OwnMarks'
  <2>1. SUFFICES ASSUME NEW b \in Browsers, mark'[b] \in Flows PROVE Of(mark[b], "login", b)'
    BY DEF OwnMarks
  <2>2. CASE mark'[b] = mark[b]
    <3>1. Of(mark[b], "login", b)
      BY <2>1, <2>2 DEF OwnMarks
    <3>2. \A f \in Flows : Of(f, "login", b) => Of(f, "login", b)'
      BY <1>2
    <3> QED
      BY <2>1, <2>2, <3>1, <3>2 DEF Of
  <2> QED
    BY <2>1, <2>2, MarkSteps DEF Flows, NoFlow
<1>5. OwnLinkMarks'
  <2>1. SUFFICES ASSUME NEW b \in Browsers, linkMark'[b] \in Flows PROVE Of(linkMark[b], "link", b)'
    BY DEF OwnLinkMarks
  <2>2. CASE linkMark'[b] = linkMark[b]
    <3>1. Of(linkMark[b], "link", b)
      BY <2>1, <2>2 DEF OwnLinkMarks
    <3>2. \A f \in Flows : Of(f, "link", b) => Of(f, "link", b)'
      BY <1>2
    <3> QED
      BY <2>1, <2>2, <3>1, <3>2 DEF Of
  <2> QED
    BY <2>1, <2>2, LinkMarkSteps DEF Flows, NoFlow
<1>6. KnownSessions'
  <2>1. SUFFICES ASSUME NEW s \in Flows, sess'[s].who # NoOne PROVE Spent(s, sess[s].who)'
    BY DEF KnownSessions
  <2>2. \E who \in Subjects \cup {NoOne} : sess'[s].who = who /\ Spent(s, who)
    <3>1. CASE sess'[s].who = sess[s].who
      BY <2>1, <3>1 DEF KnownSessions, Types, SessionsOK, SessRec
    <3>2. ASSUME NEW r \in Requests, Open(r), req[r].flow = s, sess'[s].who = req[r].who
          PROVE  \E who \in Subjects \cup {NoOne} : sess'[s].who = who /\ Spent(s, who)
      BY <3>2 DEF KnownHandlers, Open, At, Types, HandlersOK, HandlerRec
    <3> QED
      BY <2>1, <3>1, <3>2, SessSteps
  <2> QED
    BY <1>3, <2>2 DEF Spent
<1>7. \A s \in Flows : sess[s].who # NoOne => sess'[s].who = sess[s].who
  <2>1. SUFFICES ASSUME NEW s \in Flows, sess[s].who # NoOne PROVE sess'[s].who = sess[s].who
    OBVIOUS
  <2>2. ASSUME NEW r \in Requests, Open(r), req[r].flow = s PROVE req[r].who = sess[s].who
    BY <2>1, <2>2 DEF KnownSessions, KnownHandlers, Spent, Open, At
  <2> QED
    BY <2>1, <2>2, SessSteps
<1>8. OwnSessions'
  <2>1. SUFFICES ASSUME NEW b \in Browsers, sid'[b] \in Flows
                 PROVE  Of(sid[b], "login", b)' /\ sess'[sid'[b]].who # NoOne
    BY DEF OwnSessions
  <2>2. \A f \in Flows : Of(f, "login", b) => Of(f, "login", b)'
    BY <1>2
  <2>3. CASE sid'[b] = sid[b]
    BY <1>7, <2>1, <2>2, <2>3 DEF OwnSessions, Of
  <2>4. ASSUME NEW r \in Requests, Open(r), req[r].by = b, sid'[b] = req[r].flow,
               sess'[req[r].flow].who = req[r].who
        PROVE  Of(sid[b], "login", b)' /\ sess'[sid'[b]].who # NoOne
    <3>1. req[r].at = "open" /\ req[r].for = NoOne /\ req[r].who # NoOne
      BY <2>4 DEF Open, Types, HandlersOK, Shape, Shaped, At
    <3>2. Of(req[r].flow, "login", b)
      BY <2>4, <3>1 DEF OwnHandlers
    <3> QED
      BY <2>1, <2>2, <2>4, <3>1, <3>2 DEF Of
  <2> QED
    BY <2>1, <2>3, <2>4, SidSteps
<1>9. OwnHandlers'
  <2>1. SUFFICES ASSUME NEW r \in Requests, req'[r].at \in {"token", "open", "answer"}
                 PROVE  /\ Of(req[r].flow, IF req[r].for = NoOne THEN "login" ELSE "link",
                              req[r].by)'
                        /\ (req[r].for # NoOne => Of(req[r].for, "login", req[r].by))'
    BY DEF OwnHandlers
  <2>2. PICK f \in Flows, s \in Flows \cup {NoOne}, b \in Browsers :
          f = req'[r].flow /\ s = req'[r].for /\ b = req'[r].by
    BY <2>1 DEF Types, HandlersOK, Shape, Shaped
  <2> DEFINE kind == IF s = NoOne THEN "login" ELSE "link"
  <2>3. Of(f, kind, b) /\ (s # NoOne => Of(s, "login", b))
    <3>1. CASE req'[r] = req[r]
      BY <2>1, <2>2, <3>1 DEF OwnHandlers
    <3>2. CASE req'[r].for = NoOne /\ mark[b] = f
      BY <2>2, <3>2 DEF OwnMarks
    <3>3. CASE s \in Flows /\ linkMark[b] = f /\ sid[b] = s
      BY <3>3, SignInAssumption DEF OwnLinkMarks, OwnSessions
    <3>4. CASE /\ req[r].at = "token" /\ b = req[r].by /\ f = req[r].flow /\ s = req[r].for
      BY <3>4 DEF OwnHandlers
    <3> QED
      BY <2>1, <2>2, <3>1, <3>2, <3>3, <3>4, HandlerSteps
  <2>4. Of(f, kind, b)' /\ (s # NoOne => Of(s, "login", b)')
    <3>1. kind \in {"login", "link"}
      OBVIOUS
    <3>2. s # NoOne => s \in Flows
      OBVIOUS
    <3> HIDE DEF kind
    <3> QED
      BY <1>2, <2>3, <3>1, <3>2
  <2> QED
    BY <2>2, <2>4 DEF Of
<1>10. KnownHandlers'
  <2>1. SUFFICES ASSUME NEW r \in Requests, req'[r].at \in {"open", "answer"}
                 PROVE  Spent(req[r].flow, req[r].who)'
    BY DEF KnownHandlers
  <2>2. PICK f \in Flows, who \in Subjects \cup {NoOne} : f = req'[r].flow /\ who = req'[r].who
    BY <2>1 DEF Types, HandlersOK, HandlerRec, Shape, Shaped
  <2>3. CASE req'[r] = req[r]
    <3>1. Spent(f, who)
      BY <2>1, <2>2, <2>3 DEF KnownHandlers
    <3> QED
      BY <1>3, <2>2, <3>1 DEF Spent
  <2>4. CASE who = flow[f].auth /\ flow' = [flow EXCEPT ![f].code = "used"]
    <3>1. flow[f] \in FlowRec /\ flow'[f] = [flow[f] EXCEPT !.code = "used"]
      BY <2>4 DEF Types, FlowsOK
    <3> QED
      BY <2>2, <2>4, <3>1 DEF Spent, FlowRec
  <2> QED
    BY <2>1, <2>2, <2>3, <2>4, HandlerSteps
<1>11. OwnLinks'
  <2>1. SUFFICES ASSUME NEW f \in Flows, linked'[f] # NoFlow
                 PROVE  /\ \E b \in Browsers : Of(f, "link", b)' /\ Of(linked[f], "login", b)'
                        /\ sess'[linked'[f]].who # NoOne /\ Spent(f, sess[linked[f]].who)'
    BY DEF OwnLinks
  <2>2. PICK s \in Flows, b \in Browsers :
          /\ linked'[f] = s /\ Of(f, "link", b) /\ Of(s, "login", b)
          /\ sess[s].who # NoOne /\ Spent(f, sess[s].who)
    <3>1. CASE linked'[f] = linked[f]
      BY <2>1, <3>1 DEF OwnLinks, Types, OthersOK
    <3>2. ASSUME NEW r \in Requests, At(r, "answer"), req[r].flow = f, linked'[f] = req[r].for,
                 req[r].who = sess[req[r].for].who
          PROVE  \E s \in Flows, b \in Browsers :
                   /\ linked'[f] = s /\ Of(f, "link", b) /\ Of(s, "login", b)
                   /\ sess[s].who # NoOne /\ Spent(f, sess[s].who)
      <4>1. req[r].for \in Flows /\ req[r].by \in Browsers /\ req[r].who # NoOne
        BY <3>2 DEF Types, HandlersOK, Shape, Shaped, At
      <4>2. Of(f, "link", req[r].by) /\ Of(req[r].for, "login", req[r].by)
        BY <3>2, <4>1, SignInAssumption DEF OwnHandlers, At
      <4>3. Spent(f, req[r].who)
        BY <3>2 DEF KnownHandlers, At
      <4> QED
        BY <3>2, <4>1, <4>2, <4>3
    <3> QED
      BY <3>1, <3>2, LinkedSteps
  <2>3. Of(f, "link", b)' /\ Of(s, "login", b)'
    BY <1>2, <2>2
  <2>4. sess[s].who \in Subjects \cup {NoOne} /\ sess'[s].who = sess[s].who
    BY <1>7, <2>2 DEF Types, SessionsOK, SessRec
  <2>5. Spent(f, sess[s].who)'
    BY <1>3, <2>2, <2>4 DEF Spent
  <2> QED
    BY <2>2, <2>3, <2>4, <2>5 DEF Of
<1> QED
  BY <1>1, <1>4, <1>5, <1>6, <1>8, <1>9, <1>10, <1>11

(* A link that has begun keeps the session that began it. *)
LEMMA StarterSteps ==
  ASSUME Types, [Next]_vars, NEW f \in Flows, flow[f].kind # "unused"
  PROVE  starter'[f] = starter[f]
<1>1. UNCHANGED starter \/ \E b \in Browsers : BeginLink(b)
  BY
     DEF Next, vars, links, Handler, BeginLogin, Logout, Lapse, Authenticate, LoginCallback,
         LinkCallback, Try, SignUp, Exchange, Open, Answer, Prove, Add, Tick, Restart
<1>2. ASSUME NEW b \in Browsers, BeginLink(b) PROVE starter'[f] = starter[f]
  <2>1. PICK g \in Flows : Begun(g, "link", b) /\ starter' = [starter EXCEPT ![g] = sid[b]]
    BY <1>2 DEF BeginLink
  <2>2. g # f
    BY <2>1 DEF Begun
  <2> QED
    BY <2>1, <2>2 DEF Types, OthersOK
<1> QED
  BY <1>1, <1>2

(* A session's transaction: kept, ended, or that of a link it begins.      *)
LEMMA TransactionSteps ==
  ASSUME SignInAssumption, Types, [Next]_vars, NEW s \in Flows
  PROVE  \/ sess'[s].link \in {sess[s].link, NoFlow}
         \/ \E f \in Flows, b \in Browsers :
              sess'[s].link = f /\ Of(f, "link", b)' /\ starter'[f] = s
<1>1. sess[s] \in SessRec
  BY DEF Types, SessionsOK
<1> DEFINE Cuts == \E t : sess' = [sess EXCEPT ![t].link = NoFlow]
<1> DEFINE Shuts == \E t : sess' = [sess EXCEPT ![t].open = FALSE]
<1> DEFINE Opens == \E t, who : sess' = [sess EXCEPT ![t] = [who |-> who, open |-> TRUE,
link |-> NoFlow]]
<1> DEFINE Begins == \E b \in Browsers : BeginLink(b)
<1>2. UNCHANGED sess \/ Cuts \/ Shuts \/ Opens \/ Begins
  BY
     DEF Next, vars, Handler, ClearLink, BeginLogin, Logout, Lapse, Authenticate,
         LoginCallback, LinkCallback, Try, SignUp, Exchange, Open, Answer, Prove, Add, Tick, Restart
<1>3. CASE Cuts
  BY <1>1, <1>3 DEF Types, SessionsOK, SessRec
<1>4. CASE Shuts
  BY <1>1, <1>4 DEF Types, SessionsOK, SessRec
<1>5. CASE Opens
  BY <1>1, <1>5 DEF Types, SessionsOK, SessRec
<1>6. CASE Begins
  <2>1. PICK b \in Browsers, f \in Flows :
          /\ SignedIn(b) /\ Begun(f, "link", b) /\ sess' = [sess EXCEPT ![sid[b]].link = f]
          /\ starter' = [starter EXCEPT ![f] = sid[b]]
    BY <1>6 DEF BeginLink
  <2>2. CASE sid[b] # s
    BY <2>1, <2>2 DEF Types, SessionsOK
  <2>3. CASE sid[b] = s
    <3>1. sess'[s].link = f /\ starter'[f] = s
      BY <1>1, <2>1, <2>3 DEF Types, SessionsOK, SessRec, OthersOK
    <3>2. flow[f] \in FlowRec /\ flow'[f] = [flow[f] EXCEPT !.kind = "link", !.owner = b]
      BY <2>1 DEF Begun, Types, FlowsOK
    <3>3. flow'[f].kind = "link" /\ flow'[f].owner = b
      BY <3>2 DEF FlowRec
    <3> QED
      BY <3>1, <3>3 DEF Of
  <2> QED
    BY <2>2, <2>3
<1> QED
  BY <1>2, <1>3, <1>4, <1>5, <1>6

(* Which session began a link is inductive. *)
LEMMA StartedInductive ==
  ASSUME SignInAssumption, Types, Types', Persons, Started, [Next]_vars
  PROVE  Started'
<1>1. ASSUME NEW f \in Flows, NEW b \in Browsers, Of(f, "link", b)
      PROVE  Of(f, "link", b)' /\ starter'[f] = starter[f]
  <2>1. \A kind \in {"login", "link"} : Of(f, kind, b) => Of(f, kind, b)'
    BY FlowsStand DEF Persons
  <2>2. flow[f].kind # "unused"
    BY <1>1 DEF Of
  <2> QED
    BY <1>1, <2>1, <2>2, StarterSteps
<1>2. StartedTransactions'
  <2>1. SUFFICES ASSUME NEW s \in Flows, sess'[s].link # NoFlow
                 PROVE  /\ starter'[sess'[s].link] = s
                        /\ \E b \in Browsers : Of(sess[s].link, "link", b)'
    BY DEF StartedTransactions
  <2>2. CASE sess'[s].link = sess[s].link
    <3>1. PICK f \in Flows : f = sess[s].link
      BY <2>1, <2>2 DEF Types, SessionsOK, SessRec
    <3>2. starter[f] = s /\ \E b \in Browsers : Of(f, "link", b)
      BY <2>1, <2>2, <3>1 DEF Started, StartedTransactions
    <3>3. starter'[f] = s /\ \E b \in Browsers : Of(f, "link", b)'
      BY <1>1, <3>2
    <3> QED
      BY <2>2, <3>1, <3>3 DEF Of
  <2>3. ASSUME NEW f \in Flows, NEW b \in Browsers,
               sess'[s].link = f, Of(f, "link", b)', starter'[f] = s
        PROVE  /\ starter'[sess'[s].link] = s
               /\ \E c \in Browsers : Of(sess[s].link, "link", c)'
    BY <2>3 DEF Of
  <2> QED
    BY <2>1, <2>2, <2>3, TransactionSteps
<1>3. StartedHandlers'
  <2>1. SUFFICES ASSUME NEW r \in Requests, req'[r].at \in {"token", "answer"},
                        req'[r].for # NoOne
                 PROVE  starter'[req'[r].flow] = req'[r].for
    BY DEF StartedHandlers
  <2>2. PICK f \in Flows, s \in Flows, b \in Browsers :
          f = req'[r].flow /\ s = req'[r].for /\ b = req'[r].by
    BY <2>1 DEF Types, HandlersOK, Shape, Shaped
  <2>3. Of(f, "link", b) /\ starter[f] = s
    <3>1. CASE req'[r] = req[r]
      BY <2>1, <2>2, <3>1 DEF Persons, OwnHandlers, Started, StartedHandlers
    <3>2. CASE linkMark[b] = f /\ sess[s].link = f
      <4>1. f # NoFlow
        BY DEF Flows, NoFlow
      <4> QED
        BY <3>2, <4>1 DEF Persons, OwnLinkMarks, Started, StartedTransactions
    <3>3. CASE req[r].at = "token" /\ b = req[r].by /\ f = req[r].flow /\ s = req[r].for
      BY <2>1, <2>2, <3>3 DEF Persons, OwnHandlers, Started, StartedHandlers
    <3> QED
      BY <2>1, <2>2, <3>1, <3>2, <3>3, HandlerSteps
  <2> QED
    BY <1>1, <2>2, <2>3
<1>4. StartedLinks'
  <2>1. SUFFICES ASSUME NEW f \in Flows, linked'[f] # NoFlow PROVE linked'[f] = starter'[f]
    BY DEF StartedLinks
  <2>2. linked'[f] = starter[f] /\ \E b \in Browsers : Of(f, "link", b)
    <3>1. CASE linked'[f] = linked[f]
      BY <2>1, <3>1 DEF Started, StartedLinks, Persons, OwnLinks
    <3>2. ASSUME NEW r \in Requests, At(r, "answer"), req[r].flow = f, linked'[f] = req[r].for
          PROVE  linked'[f] = starter[f] /\ \E b \in Browsers : Of(f, "link", b)
      <4>1. req[r].for \in Flows /\ req[r].by \in Browsers
        BY <3>2 DEF Types, HandlersOK, Shape, Shaped, At
      <4>2. req[r].for # NoOne
        BY <4>1, SignInAssumption DEF SignInAssumption
      <4> QED
        BY <3>2, <4>1, <4>2 DEF At, Persons, OwnHandlers, Started, StartedHandlers
    <3> QED
      BY <3>1, <3>2, LinkedSteps
  <2> QED
    BY <1>1, <2>2
<1> QED
  BY <1>2, <1>3, <1>4 DEF Started

(* The type invariant and the shape of the handlers hold.                  *)
LEMMA TypesHold == Spec => []Types
<1>1. Init => Types
  BY SignInAssumption, TypesInitial
<1>2. Types /\ [Next]_vars => Types'
  BY SignInAssumption, TypesInductive
<1> QED
  BY <1>1, <1>2, PTL DEF Spec

(* Flows, cookies, sessions, handlers and counters keep their shape, and a *)
(* handler that goes on from the sign-in service knows who signed in.      *)
THEOREM TypeCorrect == Spec => []TypeOK
  BY TypesHold, TypesAreRight, PTL

(* Cookies, handlers, sessions and links only name flows of their browser, *)
(* and only persons the service has named for them.                        *)
LEMMA PersonsHold == Spec => []Persons
<1>1. Init => Persons
  BY SignInAssumption
     DEF Init, Persons, FreshFlows, OwnMarks, OwnLinkMarks, OwnSessions, OwnHandlers, Rest, NoFlow,
         Flows, KnownHandlers, KnownSessions, OwnLinks
<1>2. Types /\ Types' /\ Persons /\ [Next]_vars => Persons'
  BY SignInAssumption, PersonsInductive
<1> QED
  BY <1>1, <1>2, TypesHold, PTL DEF Spec

(* What sessions, handlers and confirmations say of a link, they say of    *)
(* one their own session began.                                            *)
LEMMA StartedHold == Spec => []Started
<1>1. Init => Started
  BY SignInAssumption
     DEF Init, Started, StartedTransactions, StartedHandlers, StartedLinks, Rest, NoFlow, Flows
<1>2. Types /\ Types' /\ Persons /\ Started /\ [Next]_vars => Started'
  BY SignInAssumption, StartedInductive
<1> QED
  BY <1>1, <1>2, TypesHold, PersonsHold, PTL DEF Spec

(* The sign-in session a browser holds is that of a flow it began itself,  *)
(* for the person who signed in at the service in that flow: /sso/callback *)
(* with repeated, late and misdirected callbacks.                          *)
THEOREM SessionsAreOwn == Spec => []SessionIsOwnFlow
<1>1. Types /\ Persons => SessionIsOwnFlow
  BY DEF Types, Persons, SessionIsOwnFlow, OwnSessions, KnownSessions, Of, Spent
<1> QED
  BY <1>1, TypesHold, PersonsHold, PTL

(* A Telegram link is only confirmed to the session that began it, which   *)
(* is the one whose transaction names the link, and after that session's   *)
(* own person signed in at the service:                                    *)
(* _complete_mail_sso_telegram_account_callback looks for the transaction  *)
(* in the session of the browser's cookie, and keeps to that session over  *)
(* its awaits.                                                             *)
THEOREM LinksAreOwn == Spec => []LinkIsOwn
<1>1. Types /\ Persons /\ Started => LinkIsOwn
  BY DEF Types, Persons, LinkIsOwn, OwnLinks, Of, Spent, Started, StartedLinks
<1> QED
  BY <1>1, TypesHold, PersonsHold, StartedHold, PTL

(* A browser that is signed in to a mailbox is the one that registered it: *)
(* the creator never changes, and a cookie names a mailbox only after its  *)
(* browser was answered that it registered it or gave its password.        *)
THEOREM RegistrantsOnly == Spec => []RegisteredItself
<1>1. Init => RegisteredItself
  BY SignInAssumption DEF Init, RegisteredItself
<1>2. Types /\ RegisteredItself /\ [Next]_vars => RegisteredItself'
  <2> SUFFICES ASSUME Types, RegisteredItself, [Next]_vars PROVE RegisteredItself'
    OBVIOUS
  <2>1. \A n \in Boxes : creator[n] # NoOne => creator'[n] = creator[n]
    <3>1. UNCHANGED creator \/ \E r \in Requests : Add(r)
      BY DEF Next, vars, Handler, BeginLogin, BeginLink, Logout, Lapse, Authenticate, LoginCallback,
             LinkCallback, Try, SignUp, Exchange, Open, Answer, Prove, Tick, Restart
    <3> QED
      BY <3>1 DEF Add, Types, OthersOK
  <2>2. SUFFICES ASSUME NEW b \in Browsers, sid'[b] \in Boxes PROVE creator'[sid'[b]] = b
    BY DEF RegisteredItself
  <2>3. CASE sid'[b] = sid[b]
    BY <2>1, <2>2, <2>3, SignInAssumption DEF RegisteredItself
  <2>4. ASSUME NEW r \in Requests, NEW n \in Boxes, sid' = [sid EXCEPT ![req[r].by] = n],
               UNCHANGED creator, creator[n] = req[r].by
        PROVE  sid'[b] = sid[b] \/ creator'[sid'[b]] = b
    BY <2>4 DEF Types, CookiesOK
  <2>5. ASSUME NEW r \in Requests, Prove(r), ~UNCHANGED sid
        PROVE  sid'[b] = sid[b] \/ creator'[sid'[b]] = b
    BY <2>4, <2>5 DEF Prove, Admit, Candidates
  <2>6. ASSUME NEW r \in Requests, Add(r), ~UNCHANGED sid
        PROVE  sid'[b] = sid[b] \/ creator'[sid'[b]] = b
    <3>1. req[r].for \in Boxes
      BY <2>6 DEF Add, Types, HandlersOK, Shape, Shaped, At
    <3>2. /\ sid' = [sid EXCEPT ![req[r].by] = req[r].for]
          /\ creator' = [creator EXCEPT ![req[r].for] = req[r].by]
      BY <2>6 DEF Add, Vacant
    <3> QED
      BY <3>1, <3>2 DEF Types, CookiesOK, OthersOK
  <2>7. \/ UNCHANGED sid \/ \E r \in Requests : (Prove(r) \/ Add(r)) /\ ~UNCHANGED sid
        \/ \E c \in Browsers : sid' = [sid EXCEPT ![c] = NoOne]
        \/ \E c \in Browsers, f \in Flows : sid' = [sid EXCEPT ![c] = f]
    <3>1. ASSUME NEW r \in Requests, Open(r)
          PROVE UNCHANGED sid \/ \E c \in Browsers, f \in Flows : sid' = [sid EXCEPT ![c] = f]
      BY <3>1 DEF Open, Types, HandlersOK, Shape, Shaped, At
    <3> QED
      BY <3>1 DEF Next, vars, cookies, Handler, BeginLogin, BeginLink, Logout, Lapse, Authenticate,
                  LoginCallback, LinkCallback, Try, SignUp, Exchange, Answer, Tick, Restart
  <2>8. ASSUME NEW c \in Browsers, NEW f \in Flows \cup {NoOne}, sid' = [sid EXCEPT ![c] = f]
        PROVE  sid'[b] = sid[b]
    BY <2>2, <2>8, SignInAssumption DEF Types, CookiesOK
  <2> QED
    BY <2>3, <2>5, <2>6, <2>7, <2>8
<1> QED
  BY <1>1, <1>2, TypesHold, PTL DEF Spec

-----------------------------------------------------------------------------
(* The counters. *)

(* A counter's list holds one entry for each attempt of the window.        *)
LEMMA InAttempts ==
  ASSUME NEW c \in [Ages -> Nat]
  PROVE  \A a, i : <<a, i>> \in Attempts(c) <=> a \in Ages /\ i \in 1..c[a]
  BY DEF Attempts

(* The list is finite, so that its length is a number.                     *)
LEMMA AttemptsFinite ==
  ASSUME SignInAssumption, NEW c \in [Ages -> Nat]
  PROVE  IsFiniteSet(Attempts(c)) /\ Recent(c) \in Nat
<1> DEFINE Lists == {{a} \X (1..c[a]) : a \in Ages}
           list == [a \in Ages |-> {a} \X (1..c[a])]
<1>1. IsFiniteSet(Ages)
  BY FS_Interval DEF Ages, SignInAssumption
<1>2. list \in Surjection(Ages, Lists)
  BY DEF Surjection
<1>3. IsFiniteSet(Lists)
  BY <1>1, <1>2, FS_Surjection
<1>4. ASSUME NEW a \in Ages PROVE IsFiniteSet({a} \X (1..c[a]))
  <2>1. IsFiniteSet({a})
    BY FS_Singleton
  <2>2. IsFiniteSet(1..c[a])
    <3>1. c[a] \in Int
      OBVIOUS
    <3> QED
      BY <3>1, FS_Interval
  <2> QED
    BY <2>1, <2>2, FS_Product
<1>5. IsFiniteSet(UNION Lists)
  <2> HIDE DEF Lists
  <2>1. \A T \in Lists : IsFiniteSet(T)
    BY <1>4 DEF Lists
  <2> QED
    BY <1>3, <2>1, FS_UNION
<1> QED
  BY <1>5, FS_CardinalityType DEF Attempts, Recent

(* Those of them that are not older than a given age. *)
Youngest(c, k) == {x \in Attempts(c) : x[1] <= k}
Upto(c, k) == Cardinality(Youngest(c, k))

(* They are a number, no more than all; with the greatest age, they are all. *)
LEMMA UptoCounts ==
  ASSUME SignInAssumption, NEW c \in [Ages -> Nat], NEW k \in Ages
  PROVE  /\ IsFiniteSet(Youngest(c, k)) /\ Upto(c, k) \in Nat /\ Upto(c, k) <= Recent(c)
         /\ Window - 1 \in Ages /\ Upto(c, Window - 1) = Recent(c)
<1>1. Youngest(c, k) \in SUBSET Attempts(c)
  BY DEF Youngest
<1>2. Youngest(c, Window - 1) = Attempts(c)
  <2>1. ASSUME NEW x \in Attempts(c) PROVE x[1] <= Window - 1
    BY <2>1 DEF Attempts, Ages, SignInAssumption
  <2> QED
    BY <2>1 DEF Youngest
<1> QED
  BY <1>1, <1>2, AttemptsFinite, FS_Subset, FS_CardinalityType
     DEF Upto, Recent, Ages, SignInAssumption

(* rate_record_fail puts a new attempt into the list. *)
LEMMA RecordedAttempts ==
  ASSUME SignInAssumption, NEW c \in [Ages -> Nat]
  PROVE  /\ Attempts(Recorded(c)) = Attempts(c) \cup {<<0, c[0] + 1>>}
         /\ <<0, c[0] + 1>> \notin Attempts(c)
<1>1. 0 \in Ages /\ Recorded(c) \in [Ages -> Nat]
  BY RecordedTypes DEF SignInAssumption, Ages
<1>2. ASSUME NEW a \in Ages
      PROVE  {a} \X (1..Recorded(c)[a]) =
               ({a} \X (1..c[a])) \cup (IF a = 0 THEN {<<0, c[0] + 1>>} ELSE {})
  BY <1>1 DEF Recorded
<1>3. Attempts(Recorded(c)) = Attempts(c) \cup {<<0, c[0] + 1>>}
  BY <1>1, <1>2 DEF Attempts
<1> QED
  BY <1>1, <1>3, InAttempts

(* The list, and each part of it by age, is longer by one.                 *)
LEMMA RecordedUpto ==
  ASSUME SignInAssumption, NEW c \in [Ages -> Nat], NEW k \in Ages
  PROVE  Upto(Recorded(c), k) = Upto(c, k) + 1
<1>0. 0 <= k
  BY DEF Ages, SignInAssumption
<1>1. PICK x : x = <<0, c[0] + 1>> /\ x[1] <= k
  <2>1. PICK x : x = <<0, c[0] + 1>>
    OBVIOUS
  <2>2. x[1] = 0
    BY <2>1
  <2> QED
    BY <1>0, <2>1, <2>2
<1>2. Youngest(Recorded(c), k) = Youngest(c, k) \cup {<<0, c[0] + 1>>}
  <2>1. Attempts(Recorded(c)) = Attempts(c) \cup {x}
    BY <1>1, RecordedAttempts
  <2> QED
    BY <1>1, <2>1 DEF Youngest
<1>3. <<0, c[0] + 1>> \notin Youngest(c, k)
  BY RecordedAttempts DEF Youngest
<1> QED
  BY <1>2, <1>3, UptoCounts, FS_AddElement DEF Upto

(* The whole list is. *)
LEMMA RecordedCounts ==
  ASSUME SignInAssumption, NEW c \in [Ages -> Nat]
  PROVE  Recorded(c) \in [Ages -> Nat] /\ Recent(Recorded(c)) = Recent(c) + 1
<1>1. Window - 1 \in Ages /\ Recorded(c) \in [Ages -> Nat]
  BY RecordedTypes DEF Ages, SignInAssumption
<1> QED
  BY <1>1, RecordedUpto, UptoCounts

(* As time goes by attempts grow older, and none comes in. *)
LEMMA OlderUpto ==
  ASSUME SignInAssumption, NEW c \in [Ages -> Nat], NEW k \in Ages
  PROVE  /\ Older(c) \in [Ages -> Nat]
         /\ k = 0 => Upto(Older(c), k) = 0
         /\ k # 0 => k - 1 \in Ages /\ Upto(Older(c), k) = Upto(c, k - 1)
<1>1. /\ \A a \in Ages : a = 0 \/ a - 1 \in Ages
      /\ Older(c) \in [Ages -> Nat]
  BY DEF SignInAssumption, Ages, Older
<1>2. \A a, i : <<a, i>> \in Attempts(Older(c)) <=> a \in Ages /\ a # 0 /\ i \in 1..c[a - 1]
  <2> TAKE a, i
  <2>1. a \in Ages => Older(c)[a] = IF a = 0 THEN 0 ELSE c[a - 1]
    BY DEF Older
  <2> QED
    BY <1>1, <2>1, InAttempts
<1>3. \A x : x \in Attempts(c) \/ x \in Attempts(Older(c)) => x = <<x[1], x[2]>>
  BY DEF Attempts
<1>4. CASE k = 0
  <2>1. ASSUME NEW x \in Youngest(Older(c), k) PROVE FALSE
    <3>1. x = <<x[1], x[2]>> /\ x \in Attempts(Older(c)) /\ x[1] <= 0
      BY <1>3, <1>4 DEF Youngest
    <3>2. x[1] \in Ages /\ x[1] # 0
      BY <1>2, <3>1
    <3> QED
      BY <3>1, <3>2 DEF Ages
  <2>2. Youngest(Older(c), k) = {}
    BY <2>1
  <2> QED
    BY <1>1, <1>4, <2>2, FS_EmptySet DEF Upto
<1>5. CASE k # 0
  <2> DEFINE S == Youngest(Older(c), k)
             T == Youngest(c, k - 1)
             younger == [x \in S |-> <<x[1] - 1, x[2]>>]
  <2>1. k - 1 \in Ages /\ k \in Int
    BY <1>1, <1>5 DEF Ages
  <2>2. ASSUME NEW x \in S
        PROVE  /\ x = <<x[1], x[2]>> /\ x[1] \in Ages /\ x[1] # 0 /\ x[1] <= k
               /\ x[2] \in 1..c[x[1] - 1]
    <3>1. x = <<x[1], x[2]>> /\ x \in Attempts(Older(c)) /\ x[1] <= k
      BY <1>3 DEF Youngest
    <3> QED
      BY <1>2, <3>1
  <2>3. ASSUME NEW x \in S PROVE <<x[1] - 1, x[2]>> \in T
    <3>1. x[1] - 1 \in Ages /\ x[1] \in Int
      BY <1>1, <2>2 DEF Ages
    <3>2. <<x[1] - 1, x[2]>> \in Attempts(c)
      BY <2>2, <3>1, InAttempts
    <3>3. x[1] - 1 <= k - 1
      BY <2>1, <2>2, <3>1
    <3> QED
      BY <3>2, <3>3 DEF Youngest
  <2>4. ASSUME NEW x \in S, NEW y \in S, <<x[1] - 1, x[2]>> = <<y[1] - 1, y[2]>>
        PROVE  x = y
    <3>1. x[1] \in Int /\ y[1] \in Int
      BY <2>2 DEF Ages
    <3>2. x[1] - 1 = y[1] - 1 /\ x[2] = y[2]
      BY <2>4
    <3>3. x[1] = y[1]
      BY <3>1, <3>2
    <3> QED
      BY <2>2, <3>2, <3>3
  <2>5. ASSUME NEW y \in T PROVE \E x \in S : <<x[1] - 1, x[2]>> = y
    <3>1. y = <<y[1], y[2]>> /\ y \in Attempts(c) /\ y[1] <= k - 1
      BY <1>3 DEF Youngest
    <3>2. y[1] \in Ages /\ y[2] \in 1..c[y[1]]
      BY <3>1, InAttempts
    <3>3. PICK a : a = y[1] + 1
      OBVIOUS
    <3>4. a \in Ages /\ a # 0 /\ a - 1 = y[1] /\ a <= k
      <4>1. y[1] \in 0..(Window - 1) /\ k \in 0..(Window - 1) /\ Window \in Nat
        BY <3>2 DEF Ages, SignInAssumption
      <4>2. PICK n \in Int : n = y[1]
        BY <4>1
      <4>3. a = n + 1 /\ n >= 0 /\ n <= k - 1
        BY <3>1, <3>3, <4>1, <4>2
      <4> QED
        BY <4>1, <4>2, <4>3 DEF Ages
    <3>5. <<a, y[2]>> \in Attempts(Older(c))
      BY <1>2, <3>2, <3>4
    <3>6. <<a, y[2]>> \in S
      BY <3>4, <3>5 DEF Youngest
    <3> WITNESS <<a, y[2]>> \in S
    <3> QED
      BY <3>1, <3>4
  <2> HIDE DEF S, T
  <2>6. younger \in [S -> T] /\ \A x \in S : younger[x] = <<x[1] - 1, x[2]>>
    BY <2>3
  <2> HIDE DEF younger
  <2>7. younger \in Injection(S, T)
    BY <2>4, <2>6 DEF Injection, IsInjective
  <2>8. younger \in Surjection(S, T)
    BY <2>5, <2>6 DEF Surjection
  <2>9. IsFiniteSet(T)
    BY <2>1, UptoCounts DEF T
  <2>10. Cardinality(S) = Cardinality(T)
    BY <2>7, <2>8, <2>9, FS_Injection
  <2> QED
    BY <1>1, <1>5, <2>1, <2>10 DEF Upto, S, T
<1> QED
  BY <1>4, <1>5

(* Some of them leave the window. *)
LEMMA OlderCounts ==
  ASSUME SignInAssumption, NEW c \in [Ages -> Nat]
  PROVE  Older(c) \in [Ages -> Nat] /\ Recent(Older(c)) <= Recent(c)
<1>1. Window - 1 \in Ages
  BY DEF Ages, SignInAssumption
<1>2. Older(c) \in [Ages -> Nat] /\ Recent(Older(c)) = Upto(Older(c), Window - 1)
  BY <1>1, OlderUpto, UptoCounts
<1>3. CASE Window - 1 = 0
  BY <1>1, <1>2, <1>3, OlderUpto, AttemptsFinite
<1>4. CASE Window - 1 # 0
  <2>1. PICK k \in Ages : k = (Window - 1) - 1 /\ Upto(Older(c), Window - 1) = Upto(c, k)
    BY <1>1, <1>4, OlderUpto
  <2> QED
    BY <1>2, <2>1, UptoCounts
<1> QED
  BY <1>3, <1>4

(* A new counter's list is empty.                                          *)
LEMMA NoneCounts ==
  SignInAssumption =>
    None \in [Ages -> Nat] /\ Recent(None) = 0 /\ \A k \in Ages : Upto(None, k) = 0
<1>1. Attempts(None) = {}
  BY DEF Attempts, None
<1>2. \A k \in Ages : Youngest(None, k) = {}
  BY <1>1 DEF Youngest
<1> QED
  BY <1>1, <1>2, FS_EmptySet DEF Recent, Upto, None

(* The counter of the registrations and the registrations are one.         *)
SignUpsCounted == signups = admitted /\ SignUpsBounded

(* Between two restarts an address starts no more registrations in a       *)
(* window than the limit says: api_public_signup looks at the counter and  *)
(* raises it before anything is awaited.                                   *)
THEOREM SignUpsAreBounded == Spec => []SignUpsBounded
<1>1. Init => SignUpsCounted
  BY SignInAssumption, NoneCounts DEF Init, SignUpsCounted, SignUpsBounded, SignInAssumption
<1>2. Types /\ SignUpsCounted /\ [Next]_vars => SignUpsCounted'
  <2> SUFFICES ASSUME Types, SignUpsCounted, [Next]_vars PROVE SignUpsCounted'
    OBVIOUS
  <2> USE DEF SignUpsCounted, SignUpsBounded
  <2>1. signups \in [Ages -> Nat] /\ Recent(signups) \in Nat /\ PerHour \in Nat \ {0}
    BY SignInAssumption, AttemptsFinite DEF Types, CountersOK, SignInAssumption
  <2>2. \/ signups' = signups /\ admitted' = admitted
        \/ SignUpAllowed /\ signups' = Recorded(signups) /\ admitted' = Recorded(admitted)
        \/ signups' = Older(signups) /\ admitted' = Older(admitted)
        \/ signups' = None /\ admitted' = None
    BY DEF Next, vars, counters, guesses, links, Handler, BeginLogin, BeginLink, Logout, Lapse,
       Authenticate,
           LoginCallback, LinkCallback, Try, SignUp, Counted, Exchange, Open, Answer, Prove, Add,
           Tick, Restart
  <2>3. CASE SignUpAllowed /\ signups' = Recorded(signups) /\ admitted' = Recorded(admitted)
    BY <2>1, <2>3, SignInAssumption, RecordedCounts DEF SignUpAllowed
  <2>4. CASE signups' = Older(signups) /\ admitted' = Older(admitted)
    <3>1. Recent(Older(signups)) <= Recent(signups) /\ Recent(Older(signups)) \in Nat
      BY <2>1, SignInAssumption, OlderCounts, AttemptsFinite
    <3> QED
      BY <2>1, <2>4, <3>1
  <2>5. CASE signups' = None /\ admitted' = None
    BY <2>1, <2>5, SignInAssumption, NoneCounts
  <2> QED
    BY <2>2, <2>3, <2>4, <2>5
<1>3. SignUpsCounted => SignUpsBounded
  BY DEF SignUpsCounted
<1> QED
  BY <1>1, <1>2, <1>3, TypesHold, PTL DEF Spec

(* The attempts at a door that the mail server has yet to answer.          *)
Trying(d) == {r \in Requests : At(r, "prove") /\ req[r].for = d}

(* Each of them was let in under the limit, and may count.                 *)
GuessesCounted ==
  \A d \in Doors :
    Recent(fails[d]) + Cardinality(Trying(d)) <= MaxFails - 1 + Cardinality(Requests)

(* The attempts under way are some of the handlers.                        *)
LEMMA TryingFinite ==
  ASSUME SignInAssumption, NEW d
  PROVE  /\ IsFiniteSet(Trying(d)) /\ Cardinality(Trying(d)) \in Nat
         /\ Cardinality(Requests) \in Nat /\ Cardinality(Trying(d)) <= Cardinality(Requests)
<1>1. Trying(d) \in SUBSET Requests
  BY DEF Trying
<1> QED
  BY <1>1, FS_Subset, FS_CardinalityType DEF SignInAssumption

(* The same of the attempts after a step.                                  *)
LEMMA TryingFiniteNext ==
  ASSUME SignInAssumption, NEW d
  PROVE  /\ IsFiniteSet(Trying(d)') /\ Cardinality(Trying(d)') \in Nat
         /\ Cardinality(Trying(d)') <= Cardinality(Requests)
<1>1. Trying(d)' \in SUBSET Requests
  BY DEF Trying
<1> QED
  BY <1>1, FS_Subset, FS_CardinalityType DEF SignInAssumption

(* Fewer attempts are under way when none has begun.                       *)
LEMMA TryingFewer ==
  ASSUME SignInAssumption, NEW d, \A r \in Requests : r \in Trying(d)' => r \in Trying(d)
  PROVE  Cardinality(Trying(d)') <= Cardinality(Trying(d))
<1>1. Trying(d)' \in SUBSET Trying(d)
  BY DEF Trying
<1> QED
  BY <1>1, TryingFinite, FS_Subset

(* Whatever a step does to a handler, only Try makes it an attempt.        *)
LEMMA OnlyTryTries ==
  ASSUME Types, NEW d \in Doors, [Next]_vars,
         ~ \E r \in Requests, b \in Browsers : Try(r, b, d)
  PROVE  \A r \in Requests : r \in Trying(d)' => r \in Trying(d)
<1> SUFFICES ASSUME NEW r \in Requests, r \in Trying(d)' PROVE r \in Trying(d)
  OBVIOUS
<1>0. req \in [Requests -> HandlerRec] /\ req'[r].at = "prove" /\ req'[r].for = d
  BY DEF Types, HandlersOK, Trying, At
<1> DEFINE Same == req'[r] = req[r]
<1>1. ASSUME NEW q \in Requests, NEW b \in Browsers, NEW e \in Doors, Try(q, b, e) PROVE Same
  <2>1. e # d
    BY <1>1
  <2> QED
    BY <1>0, <1>1, <2>1 DEF Try, Rest
<1>2. ASSUME NEW q \in Requests, Exchange(q) PROVE Same
  <2>1. \/ req' = [req EXCEPT ![q] = Rest]
        \/ \E who : req' = [req EXCEPT ![q] = [req[q] EXCEPT !.at = "answer", !.who = who]]
        \/ \E who : req' = [req EXCEPT ![q] = [req[q] EXCEPT !.at = "open", !.who = who]]
    BY <1>2 DEF Exchange, End
  <2>2. \A who : /\ [req[q] EXCEPT !.at = "answer", !.who = who].at # "prove"
                 /\ [req[q] EXCEPT !.at = "open", !.who = who].at # "prove"
    BY <1>0 DEF HandlerRec
  <2>3. q \in DOMAIN req /\ Rest.at # "prove"
    BY <1>0 DEF Rest
  <2>4. req'[q].at # "prove" /\ (r # q => req'[r] = req[r])
    BY <1>0, <2>1, <2>2, <2>3
  <2> QED
    BY <1>0, <2>4
<1>3. ASSUME NEW q \in Requests, Open(q) \/ Answer(q) \/ Prove(q) \/ Add(q) PROVE Same
  BY <1>0, <1>3 DEF Open, Answer, Prove, Add, End, Rest
<1>4. ASSUME NEW q \in Requests, NEW b \in Browsers, NEW n \in Boxes, SignUp(q, b, n) PROVE Same
  BY <1>0, <1>4 DEF SignUp, Rest
<1>5. ASSUME NEW q \in Requests, NEW b \in Browsers, NEW f \in Flows,
             LoginCallback(q, b, f) \/ LinkCallback(q, b, f)
      PROVE  Same
  BY <1>0, <1>5 DEF LoginCallback, LinkCallback, ClearLink, Rest
<1>6. ASSUME Restart PROVE Same
  BY <1>0, <1>6 DEF Restart, Rest
<1>7. Same
  BY <1>1, <1>2, <1>3, <1>4, <1>5, <1>6
     DEF Next, vars, Handler, BeginLogin, BeginLink, Logout, Lapse, Authenticate, Tick
<1> QED
  BY <1>0, <1>7 DEF Trying, At

(* Nothing but an answer of the mail server counts, or clears the count.   *)
LEMMA FailsSteps ==
  ASSUME [Next]_vars
  PROVE  UNCHANGED guesses \/ Tick \/ Restart \/ \E r \in Requests : Prove(r)
  BY DEF Next, vars, counters, guesses, links, Handler, BeginLogin, BeginLink, Logout, Lapse,
     Authenticate,
         LoginCallback, LinkCallback, Try, SignUp, Exchange, Open, Answer, Add, Tick, Restart

(* An attempt that is answered is no longer under way, and counts at most  *)
(* once.                                                                   *)
LEMMA GuessesInductive ==
  ASSUME SignInAssumption, Types, GuessesCounted, [Next]_vars
  PROVE  GuessesCounted'
<1> SUFFICES ASSUME NEW d \in Doors
    PROVE  Recent(fails'[d]) + Cardinality(Trying(d)')
             <= MaxFails - 1 + Cardinality(Requests)
  BY DEF GuessesCounted
<1>1. /\ fails \in [Doors -> [Ages -> Nat]] /\ fails[d] \in [Ages -> Nat]
      /\ Recent(fails[d]) \in Nat /\ MaxFails \in Nat \ {0}
      /\ Recent(fails[d]) + Cardinality(Trying(d)) <= MaxFails - 1 + Cardinality(Requests)
  BY AttemptsFinite DEF Types, CountersOK, GuessesOK, SignInAssumption, GuessesCounted
<1>2. /\ Cardinality(Trying(d)) \in Nat /\ Cardinality(Trying(d)') \in Nat
      /\ Cardinality(Requests) \in Nat /\ Cardinality(Trying(d)') <= Cardinality(Requests)
  BY TryingFinite, TryingFiniteNext
<1>3. CASE \E r \in Requests, b \in Browsers : Try(r, b, d)
  <2>1. Recent(fails[d]) < MaxFails /\ fails' = fails
    BY <1>3 DEF Try, RateCheck, counters, guesses, links
  <2> QED
    BY <1>1, <1>2, <2>1
<1>4. CASE ~ \E r \in Requests, b \in Browsers : Try(r, b, d)
  <2>1. /\ \A r \in Requests : r \in Trying(d)' => r \in Trying(d)
        /\ Cardinality(Trying(d)') <= Cardinality(Trying(d))
    BY <1>4, OnlyTryTries, TryingFewer
  <2>2. ASSUME fails'[d] = fails[d] \/ fails'[d] = Older(fails[d]) \/ fails'[d] = None
        PROVE  Recent(fails'[d]) \in Nat /\ Recent(fails'[d]) <= Recent(fails[d])
    <3>1. /\ Recent(Older(fails[d])) \in Nat /\ Recent(Older(fails[d])) <= Recent(fails[d])
          /\ Recent(None) = 0
      BY <1>1, OlderCounts, AttemptsFinite, NoneCounts
    <3> QED
      BY <1>1, <2>2, <3>1
  <2>3. ASSUME fails'[d] = fails[d] \/ fails'[d] = Older(fails[d]) \/ fails'[d] = None
        PROVE  Recent(fails'[d]) + Cardinality(Trying(d)')
                 <= MaxFails - 1 + Cardinality(Requests)
    BY <1>1, <1>2, <2>1, <2>2, <2>3
  <2>4. ASSUME NEW r \in Requests, Prove(r)
        PROVE  Recent(fails'[d]) + Cardinality(Trying(d)')
                 <= MaxFails - 1 + Cardinality(Requests)
    <3>1. PICK e \in Doors : e = req[r].for
      BY <2>4 DEF Prove, Types, HandlersOK, Shape, Shaped, At
    <3>2. \/ UNCHANGED fails
          \/ fails' = [fails EXCEPT ![e] = None]
          \/ fails' = [fails EXCEPT ![e] = Recorded(fails[e])]
      BY <2>4, <3>1 DEF Prove, Admit, guesses
    <3>3. CASE e = d /\ fails' = [fails EXCEPT ![e] = Recorded(fails[e])]
      <4>1. Recent(fails'[d]) = Recent(fails[d]) + 1
        BY <1>1, <3>3, RecordedCounts
      <4>2. r \in Trying(d) /\ Trying(d)' \in SUBSET (Trying(d) \ {r})
        <5>1. r \in Trying(d)
          BY <2>4, <3>1, <3>3 DEF Prove, Trying
        <5>2. ~ At(r, "prove")'
          BY <2>4 DEF Prove, End, Rest, At, Types, HandlersOK
        <5> QED
          BY <2>1, <5>1, <5>2 DEF Trying
      <4>3. Cardinality(Trying(d)') <= Cardinality(Trying(d)) - 1
        <5>1. /\ IsFiniteSet(Trying(d) \ {r})
              /\ Cardinality(Trying(d) \ {r}) = Cardinality(Trying(d)) - 1
          BY <4>2, TryingFinite, FS_RemoveElement
        <5> QED
          BY <4>2, <5>1, FS_Subset
      <4> QED
        BY <1>1, <1>2, <4>1, <4>3
    <3>4. CASE ~ (e = d /\ fails' = [fails EXCEPT ![e] = Recorded(fails[e])])
      BY <1>1, <2>3, <3>2, <3>4
    <3> QED
      BY <3>3, <3>4
  <2>5. CASE Tick \/ Restart
    BY <2>3, <2>5 DEF Tick, Restart
  <2>6. CASE UNCHANGED guesses
    BY <2>3, <2>6 DEF guesses
  <2> QED
    BY <2>4, <2>5, <2>6, FailsSteps
<1> QED
  BY <1>3, <1>4

(* What a counter may hold at most. *)
Most == MaxFails - 1 + Cardinality(Requests)

(* A counter holds no more than that, and it is a number. *)
LEMMA FailsAtMost ==
  ASSUME SignInAssumption, Types, GuessesCounted, NEW d \in Doors
  PROVE  Most \in Nat /\ Recent(fails[d]) \in Nat /\ Recent(fails[d]) <= Most
<1>1. Recent(fails[d]) \in Nat /\ MaxFails \in Nat \ {0}
  BY AttemptsFinite DEF Types, CountersOK, GuessesOK, SignInAssumption
<1> QED
  BY <1>1, TryingFinite DEF GuessesCounted, Most

(* The failures of the last so many ticks are those the counter still      *)
(* holds, and for each time it was emptied since, at most a counter full.  *)
FailuresHeld ==
  \A d \in Doors, k \in Ages :
    Upto(missed[d], k) <= Upto(fails[d], k) + Most * Upto(emptied[d], k)

(* A counter full of failures is one more for which it was emptied. *)
LEMMA EmptiedHeld ==
  ASSUME SignInAssumption, Types, GuessesCounted, FailuresHeld, NEW d \in Doors, NEW k \in Ages
  PROVE  Upto(missed[d], k) <= Upto(None, k) + Most * Upto(Emptied(d), k)
<1>1. /\ missed[d] \in [Ages -> Nat] /\ fails[d] \in [Ages -> Nat]
      /\ emptied[d] \in [Ages -> Nat]
  BY DEF Types, CountersOK, GuessesOK
<1>2. PICK m \in Nat, f \in Nat, e \in Nat, b \in Nat :
        /\ m = Upto(missed[d], k) /\ f = Upto(fails[d], k) /\ e = Upto(emptied[d], k) /\ b = Most
  BY <1>1, UptoCounts, FailsAtMost
<1>3. m <= f + b * e /\ f <= b
  <2>1. f <= Recent(fails[d]) /\ Recent(fails[d]) \in Nat /\ Recent(fails[d]) <= b
    BY <1>1, <1>2, UptoCounts, FailsAtMost
  <2> QED
    BY <1>2, <2>1 DEF FailuresHeld
<1>4. CASE fails[d] = None
  BY <1>2, <1>3, <1>4 DEF Emptied
<1>5. CASE fails[d] # None
  <2>1. Upto(Emptied(d), k) = e + 1 /\ Upto(None, k) = 0
    BY <1>1, <1>2, <1>5, RecordedUpto, NoneCounts DEF Emptied
  <2>2. b * e + b = b * (e + 1) /\ b * e \in Nat /\ b * (e + 1) \in Nat
    OBVIOUS
  <2> QED
    BY <1>2, <1>3, <2>1, <2>2
<1> QED
  BY <1>4, <1>5

(* That holds of each part of the window is inductive. *)
LEMMA FailuresInductive ==
  ASSUME SignInAssumption, Types, GuessesCounted, FailuresHeld, [Next]_vars
  PROVE  FailuresHeld'
<1> SUFFICES ASSUME NEW d \in Doors, NEW k \in Ages
    PROVE  Upto(missed'[d], k) <= Upto(fails'[d], k) + Most * Upto(emptied'[d], k)
  BY DEF FailuresHeld, Upto, Youngest, Attempts, Most
<1>1. /\ missed[d] \in [Ages -> Nat] /\ fails[d] \in [Ages -> Nat]
      /\ emptied[d] \in [Ages -> Nat]
      /\ missed \in [Doors -> [Ages -> Nat]] /\ fails \in [Doors -> [Ages -> Nat]]
      /\ emptied \in [Doors -> [Ages -> Nat]]
  BY DEF Types, CountersOK, GuessesOK
<1>2. Upto(missed[d], k) <= Upto(fails[d], k) + Most * Upto(emptied[d], k)
  BY DEF FailuresHeld
<1>3. ASSUME UNCHANGED <<missed, fails, emptied>>
      PROVE  Upto(missed'[d], k) <= Upto(fails'[d], k) + Most * Upto(emptied'[d], k)
  BY <1>2, <1>3
<1>4. ASSUME missed'[d] = missed[d], fails'[d] = None, emptied'[d] = Emptied(d)
      PROVE  Upto(missed'[d], k) <= Upto(fails'[d], k) + Most * Upto(emptied'[d], k)
  BY <1>4, EmptiedHeld
<1>5. ASSUME missed'[d] = Recorded(missed[d]), fails'[d] = Recorded(fails[d]),
             emptied'[d] = emptied[d]
      PROVE  Upto(missed'[d], k) <= Upto(fails'[d], k) + Most * Upto(emptied'[d], k)
  <2>1. PICK m \in Nat, f \in Nat, n \in Int :
          m = Upto(missed[d], k) /\ f = Upto(fails[d], k) /\ n = Most * Upto(emptied[d], k)
    <3>1. PICK e \in Int, b \in Int : e = Upto(emptied[d], k) /\ b = Most
      BY <1>1, UptoCounts, FailsAtMost
    <3>2. b * e \in Int
      OBVIOUS
    <3> QED
      BY <1>1, <3>1, <3>2, UptoCounts
  <2>2. Upto(missed'[d], k) = m + 1 /\ Upto(fails'[d], k) = f + 1 /\ emptied'[d] = emptied[d]
    BY <1>1, <1>5, <2>1, RecordedUpto
  <2> QED
    BY <1>2, <2>1, <2>2
<1>6. CASE Tick
  <2>1. /\ missed'[d] = Older(missed[d]) /\ fails'[d] = Older(fails[d])
        /\ emptied'[d] = Older(emptied[d])
    BY <1>6 DEF Tick
  <2>2. CASE k = 0
    <3>1. Upto(missed'[d], k) = 0 /\ Upto(fails'[d], k) = 0 /\ Upto(emptied'[d], k) = 0
      BY <1>1, <2>1, <2>2, OlderUpto
    <3>2. Most \in Nat
      BY FailsAtMost
    <3> QED
      BY <3>1, <3>2
  <2>3. CASE k # 0
    <3>1. PICK j \in Ages : j = k - 1
      BY <1>1, <2>3, OlderUpto
    <3>2. /\ Upto(missed'[d], k) = Upto(missed[d], j) /\ Upto(fails'[d], k) = Upto(fails[d], j)
          /\ Upto(emptied'[d], k) = Upto(emptied[d], j)
      BY <1>1, <2>1, <2>3, <3>1, OlderUpto
    <3>3. Upto(missed[d], j) <= Upto(fails[d], j) + Most * Upto(emptied[d], j)
      BY DEF FailuresHeld
    <3> QED
      BY <3>2, <3>3
  <2> QED
    BY <2>2, <2>3
<1>7. CASE Restart
  BY <1>4, <1>7 DEF Restart
<1>8. ASSUME NEW r \in Requests, Prove(r)
      PROVE  Upto(missed'[d], k) <= Upto(fails'[d], k) + Most * Upto(emptied'[d], k)
  <2>1. PICK e \in Doors : e = req[r].for
    BY <1>8 DEF Prove, Types, HandlersOK, Shape, Shaped, At
  <2>2. \/ UNCHANGED <<missed, fails, emptied>>
        \/ /\ fails' = [fails EXCEPT ![e] = None] /\ UNCHANGED missed
           /\ emptied' = [emptied EXCEPT ![e] = Emptied(e)]
        \/ /\ fails' = [fails EXCEPT ![e] = Recorded(fails[e])]
           /\ missed' = [missed EXCEPT ![e] = Recorded(missed[e])] /\ UNCHANGED emptied
    BY <1>1, <1>8, <2>1 DEF Prove, Admit, guesses
  <2>3. CASE d # e
    <3>1. missed'[d] = missed[d] /\ fails'[d] = fails[d] /\ emptied'[d] = emptied[d]
      BY <1>1, <2>2, <2>3
    <3> QED
      BY <1>2, <3>1
  <2>4. CASE d = e
    BY <1>1, <1>3, <1>4, <1>5, <2>2, <2>4
  <2> QED
    BY <2>3, <2>4
<1>9. CASE UNCHANGED guesses
  BY <1>3, <1>9 DEF guesses
<1> QED
  BY <1>6, <1>7, <1>8, <1>9, FailsSteps

(* An address fails a door in a window no more often than the limit says,  *)
(* but for the attempts that were under way when it was reached, and as    *)
(* often again each time that a success or a restart has emptied the       *)
(* counter in that window: api_login looks at the counter first, counts    *)
(* after the server's answer, and forgets the failures at a success.       *)
THEOREM GuessesAreBounded == Spec => []GuessesBounded
<1>1. Init => GuessesCounted
  <2> SUFFICES ASSUME Init, NEW d \in Doors
      PROVE  Recent(fails[d]) + Cardinality(Trying(d)) <= MaxFails - 1 + Cardinality(Requests)
    BY DEF GuessesCounted
  <2>1. Recent(fails[d]) = 0
    BY SignInAssumption, NoneCounts DEF Init
  <2>2. MaxFails \in Nat \ {0}
    BY SignInAssumption DEF SignInAssumption
  <2>3. Trying(d) = {}
    BY DEF Init, Trying, At, Rest
  <2>4. Cardinality(Trying(d)) = 0 /\ Cardinality(Requests) \in Nat
    BY <2>3, SignInAssumption, TryingFinite, FS_EmptySet
  <2> QED
    BY <2>1, <2>2, <2>4
<1>2. Types /\ GuessesCounted /\ [Next]_vars => GuessesCounted'
  BY SignInAssumption, GuessesInductive
<1>3. Init => FailuresHeld
  <2> SUFFICES ASSUME Init, NEW d \in Doors, NEW k \in Ages
      PROVE  Upto(missed[d], k) <= Upto(fails[d], k) + Most * Upto(emptied[d], k)
    BY DEF FailuresHeld
  <2>1. Upto(missed[d], k) = 0 /\ Upto(fails[d], k) = 0 /\ Upto(emptied[d], k) = 0
    BY SignInAssumption, NoneCounts DEF Init
  <2>2. Most \in Int
    BY SignInAssumption, TryingFinite DEF Most, SignInAssumption
  <2> QED
    BY <2>1, <2>2
<1>4. Types /\ GuessesCounted /\ FailuresHeld /\ [Next]_vars => FailuresHeld'
  BY SignInAssumption, FailuresInductive
<1>5. Types /\ GuessesCounted /\ FailuresHeld => GuessesBounded
  <2> SUFFICES ASSUME Types, GuessesCounted, FailuresHeld, NEW d \in Doors
      PROVE  Recent(missed[d]) <= Most * (1 + Recent(emptied[d]))
    BY DEF GuessesBounded, Most
  <2>1. /\ missed[d] \in [Ages -> Nat] /\ fails[d] \in [Ages -> Nat]
        /\ emptied[d] \in [Ages -> Nat] /\ Window - 1 \in Ages
    BY SignInAssumption DEF Types, CountersOK, GuessesOK, Ages, SignInAssumption
  <2>2. PICK m \in Nat, f \in Nat, e \in Nat, b \in Nat :
          m = Recent(missed[d]) /\ f = Recent(fails[d]) /\ e = Recent(emptied[d]) /\ b = Most
    BY <2>1, SignInAssumption, AttemptsFinite, FailsAtMost
  <2>3. m <= f + b * e /\ f <= b
    <3>1. /\ Upto(missed[d], Window - 1) = m /\ Upto(fails[d], Window - 1) = f
          /\ Upto(emptied[d], Window - 1) = e
      BY <2>1, <2>2, SignInAssumption, UptoCounts
    <3>2. Upto(missed[d], Window - 1)
            <= Upto(fails[d], Window - 1) + Most * Upto(emptied[d], Window - 1)
      BY <2>1 DEF FailuresHeld
    <3>3. f <= b
      BY <2>2, SignInAssumption, FailsAtMost
    <3> QED
      BY <2>2, <3>1, <3>2, <3>3
  <2>4. b + b * e = b * (1 + e) /\ b * e \in Nat /\ b * (1 + e) \in Nat
    OBVIOUS
  <2> QED
    BY <2>2, <2>3, <2>4
<1> QED
  BY <1>1, <1>2, <1>3, <1>4, <1>5, TypesHold, PTL DEF Spec

-----------------------------------------------------------------------------
(* The bindings of the sign-in and the ticket intake (MailboxBindings).    *)

(* A set of numbers has a least one. *)
LEMMA LeastNumber ==
  ASSUME NEW T, T \subseteq Nat, T # {}
  PROVE  \E x \in T : \A y \in T : x <= y
<1>1. PICK x \in T : \A y \in T : ~ (<<y, x>> \in OpToRel(<, Nat))
  BY NatLessThanWellFounded, WFMin
<1>2. \A y \in T : ~ (y < x)
  BY <1>1 DEF OpToRel
<1> QED
  BY <1>2

(* The types again, by what an action may disturb, with what the requests  *)
(* and the worker carry at each step.  Passwords are among those issued.   *)
MailboxesTyped ==
  /\ real \in [AllBoxes -> 0..issued] /\ born \in [AllBoxes -> 0..issued]
  /\ issued \in 1..MaxPass
  /\ inbox \in [Managed -> SUBSET Uids] /\ uidNext \in [Managed -> 1..(MaxUid + 1)]
BindingsTyped ==
  /\ managed \in [Identities -> [box : Managed, pass : 1..issued, ok : BOOLEAN] \cup {NoRow}]
  /\ external \in [Identities -> [box : External, pass : 1..issued, ok : BOOLEAN] \cup {NoRow}]
IntakeRows == [pass : 1..issued, cursor : 0..MaxUid, first : BOOLEAN]
IntakeTyped == intake \in [Managed -> IntakeRows \cup {NoRow}]
Jobs ==
  [kind : Kinds \cup {"none"}, who : SUBSET Identities,
   box : AllBoxes \cup {NoBox}, pass : 0..issued]
Apt(step, j) ==
  /\ step \in {"prove", "put"} =>
       /\ j.kind \in {"bind", "bulk", "register"} /\ j.box \in AllBoxes /\ j.pass > 0
       /\ j.kind = "register" => j.box \in Managed
       /\ j.kind = "bulk" => j.box \in External
  /\ step \in {"delete", "forget"} => j.box \in Managed
JobsTyped ==
  /\ pc \in [Calls -> {"idle", "prove", "put", "drop", "delete", "forget", "done"}]
  /\ job \in [Calls -> Jobs]
  /\ \A r \in Calls : Apt(pc[r], job[r])
WorkerRec ==
  [at : {"rest", "pick", "start", "post", "save"}, rows : SUBSET (Managed \X IntakeRows),
   box : Managed \cup {NoBox}, born : 0..issued, uids : SUBSET Uids, left : 0..Batch]
WorkerTyped ==
  /\ worker \in WorkerRec
  /\ worker.at \in {"start", "post", "save"} => worker.box \in Managed
  /\ worker.at = "save" => worker.uids # {} /\ worker.left # 0
HistoryTyped ==
  /\ tickets \subseteq Managed \X (0..MaxPass) \X Uids
  /\ raced \subseteq Managed /\ leftover \subseteq Managed /\ misplaced \subseteq Managed
  /\ faults \in 0..MaxFaults
AllTyped ==
  /\ MailboxesTyped /\ BindingsTyped /\ IntakeTyped /\ JobsTyped /\ WorkerTyped /\ HistoryTyped

(* It is the type invariant, and more. *)
LEMMA AllTypedIsTypeOK ==
  ASSUME AllTyped
  PROVE  BindingsTypeOK
<1>1. 1..issued \subseteq Passwords /\ 0..issued \subseteq 0..MaxPass
      /\ 0..issued \subseteq Passwords \cup {0}
  BY BindingsAssumption DEF AllTyped, MailboxesTyped, Passwords
<1>2. /\ real \in [AllBoxes -> Passwords \cup {0}]
      /\ born \in [AllBoxes -> 0..MaxPass] /\ issued \in 0..MaxPass
  BY <1>1 DEF AllTyped, MailboxesTyped
<1>3. /\ managed \in [Identities -> [box : Managed, pass : Passwords, ok : BOOLEAN]
                                    \cup {NoRow}]
      /\ external \in [Identities -> [box : External, pass : Passwords, ok : BOOLEAN]
                                     \cup {NoRow}]
  BY <1>1 DEF AllTyped, BindingsTyped
<1>4. IntakeRows \subseteq Intakes
  BY <1>1 DEF IntakeRows, Intakes
<1>5. intake \in [Managed -> Intakes \cup {NoRow}]
  BY <1>4 DEF AllTyped, IntakeTyped
<1>6. job \in [Calls -> [kind : Kinds \cup {"none"}, who : SUBSET Identities,
                            box : AllBoxes \cup {NoBox}, pass : 0..MaxPass]]
  <2>1. Jobs \subseteq [kind : Kinds \cup {"none"}, who : SUBSET Identities,
                        box : AllBoxes \cup {NoBox}, pass : 0..MaxPass]
    BY <1>1 DEF Jobs
  <2> QED
    BY <2>1 DEF AllTyped, JobsTyped
<1>7. worker \in [at : {"rest", "pick", "start", "post", "save"},
                  rows : SUBSET (Managed \X Intakes), box : Managed \cup {NoBox},
                  born : 0..MaxPass, uids : SUBSET Uids, left : 0..Batch]
  <2>1. SUBSET (Managed \X IntakeRows) \subseteq SUBSET (Managed \X Intakes)
    BY <1>4
  <2> QED
    BY <1>1, <2>1 DEF AllTyped, WorkerTyped, WorkerRec
<1> QED
  BY <1>2, <1>3, <1>5, <1>6, <1>7
     DEF BindingsTypeOK, AllTyped, MailboxesTyped, JobsTyped, HistoryTyped

(* The world at its start. *)
LEMMA AllTypedInitially ==
  ASSUME BindingsInit
  PROVE  AllTyped
<1> USE BindingsAssumption DEF BindingsInit
<1>1. MailboxesTyped
  <2>1. 1 \in 1..MaxUid /\ 2 \in 1..(MaxUid + 1)
    OBVIOUS
  <2> QED
    BY <2>1 DEF MailboxesTyped, Uids
<1>2. BindingsTyped
  <2>1. issued = 1 /\ 1 \in 1..1
    OBVIOUS
  <2>2. /\ \A b \in Managed : [box |-> b, pass |-> 1, ok |-> TRUE]
                               \in [box : Managed, pass : 1..1, ok : BOOLEAN]
        /\ \A b \in External : [box |-> b, pass |-> 1, ok |-> FALSE]
                                \in [box : External, pass : 1..1, ok : BOOLEAN]
    BY <2>1
  <2>3. \A s \in Identities :
          /\ managed[s] = NoRow
               \/ \E b \in Managed : managed[s] = [box |-> b, pass |-> 1, ok |-> TRUE]
          /\ external[s] = NoRow
               \/ \E b \in External : external[s] = [box |-> b, pass |-> 1, ok |-> FALSE]
    OBVIOUS
  <2>4. \A s \in Identities :
          /\ managed[s] \in [box : Managed, pass : 1..1, ok : BOOLEAN] \cup {NoRow}
          /\ external[s] \in [box : External, pass : 1..1, ok : BOOLEAN] \cup {NoRow}
    <3> HIDE BindingsAssumption DEF BindingsInit
    <3>1. ASSUME NEW s \in Identities
          PROVE  managed[s] \in [box : Managed, pass : 1..1, ok : BOOLEAN] \cup {NoRow}
      BY <2>2, <2>3
    <3>2. ASSUME NEW s \in Identities
          PROVE  external[s] \in [box : External, pass : 1..1, ok : BOOLEAN] \cup {NoRow}
      BY <2>2, <2>3
    <3> QED
      BY <3>1, <3>2
  <2> QED
    BY <2>1, <2>4 DEF BindingsTyped
<1>3. IntakeTyped /\ HistoryTyped
  BY DEF IntakeTyped, HistoryTyped
<1>4. JobsTyped
  BY DEF JobsTyped, Jobs, Apt, NoJob
<1>5. WorkerTyped
  BY DEF WorkerTyped, WorkerRec, Idle
<1> QED
  BY <1>1, <1>2, <1>3, <1>4, <1>5 DEF AllTyped


(* A request that takes one step leaves the others alone. *)
LEMMA JobsStep ==
  ASSUME JobsTyped, NEW r \in Calls, NEW j \in Jobs,
         NEW step \in {"idle", "prove", "put", "drop", "delete", "forget", "done"},
         Apt(step, j), issued' = issued,
         pc' = [pc EXCEPT ![r] = step], job' = [job EXCEPT ![r] = j]
  PROVE  JobsTyped'
<1>1. Jobs' = Jobs
  BY DEF Jobs
<1> QED
  BY <1>1 DEF JobsTyped, Apt

(* What is written into the tables is of their shape. *)
LEMMA RowsStored ==
  ASSUME AllTyped, NEW r \in Calls, Store(r)
  PROVE  BindingsTyped' /\ IntakeTyped' /\ HistoryTyped'
<1>1. /\ job[r] \in Jobs /\ pc[r] = "put" /\ issued' = issued
      /\ job[r].kind \in {"bind", "bulk", "register"} /\ job[r].box \in AllBoxes
      /\ job[r].pass \in 1..issued
      /\ job[r].kind = "register" => job[r].box \in Managed
  BY DEF AllTyped, JobsTyped, Jobs, Apt, Store, Here, mailboxes,
         MailboxesTyped
<1> DEFINE row == [box |-> job[r].box, pass |-> job[r].pass, ok |-> TRUE]
<1>2. managed' \in [Identities -> [box : Managed, pass : 1..issued, ok : BOOLEAN] \cup {NoRow}]
  <2>1. CASE job[r].kind = "bind" /\ job[r].box \in Managed
    <3>1. row \in [box : Managed, pass : 1..issued, ok : BOOLEAN]
      BY <1>1, <2>1
    <3>2. managed' = Put(managed, job[r].who, row)
      BY <2>1 DEF Store
    <3> QED
      BY <3>1, <3>2 DEF AllTyped, BindingsTyped, Put
  <2>2. CASE ~ (job[r].kind = "bind" /\ job[r].box \in Managed)
    BY <2>2 DEF AllTyped, BindingsTyped, Store
  <2> QED
    BY <2>1, <2>2
<1>3. external' \in [Identities -> [box : External, pass : 1..issued, ok : BOOLEAN] \cup {NoRow}]
  <2>1. CASE job[r].box \in External
    <3>1. row \in [box : External, pass : 1..issued, ok : BOOLEAN]
      BY <1>1, <2>1
    <3>2. external' = Put(external, job[r].who, row)
      BY <2>1 DEF Store
    <3> QED
      BY <3>1, <3>2 DEF AllTyped, BindingsTyped, Put
  <2>2. CASE job[r].box \notin External
    BY <2>2 DEF AllTyped, BindingsTyped, Store
  <2> QED
    BY <2>1, <2>2
<1>4. IntakeTyped'
  <2>1. CASE job[r].kind = "register"
    <3>1. Registered(job[r].box, job[r].pass) \in IntakeRows
      <4>1. 0 \in 0..MaxUid
        BY BindingsAssumption
      <4> QED
        BY <1>1, <2>1, <4>1 DEF Registered, IntakeRows, AllTyped, IntakeTyped
    <3>2. intake' = [intake EXCEPT ![job[r].box] = Registered(job[r].box, job[r].pass)]
      BY <2>1 DEF Store
    <3>3. IntakeRows' = IntakeRows /\ job[r].box \in Managed
      BY <1>1, <2>1 DEF IntakeRows
    <3> QED
      BY <3>1, <3>2, <3>3 DEF AllTyped, IntakeTyped
  <2>2. CASE job[r].kind # "register"
    BY <1>1, <2>2 DEF Store, AllTyped, IntakeTyped, IntakeRows
  <2> QED
    BY <2>1, <2>2
<1>5. HistoryTyped'
  BY <1>1 DEF Store, AllTyped, HistoryTyped
<1> QED
  BY <1>1, <1>2, <1>3, <1>4, <1>5 DEF BindingsTyped

(* The requests keep the types. *)
LEMMA RequestTyped ==
  ASSUME AllTyped, NEW r \in Calls, Step(r)
  PROVE  AllTyped'
<1> USE DEF AllTyped, Here, history
<1>0. /\ NoJob \in Jobs /\ Apt("done", NoJob) /\ job[r] \in Jobs
      /\ Apt("done", job[r]) /\ issued \in Nat
  BY DEF NoJob, Jobs, Apt, JobsTyped, MailboxesTyped
<1>1. ASSUME NEW kind \in Kinds, NEW who \in SUBSET Identities,
             NEW box \in AllBoxes \cup {NoBox}, NEW pass \in 0..issued,
             NEW step \in {"prove", "drop", "delete"},
             Apt(step, [kind |-> kind, who |-> who, box |-> box, pass |-> pass]),
             Begin(r, kind, who, box, pass, step)
      PROVE  AllTyped'
  <2>1. [kind |-> kind, who |-> who, box |-> box, pass |-> pass] \in Jobs
    BY <1>1 DEF Jobs
  <2>2. UNCHANGED <<real, born, issued, inbox, uidNext, managed, external, intake, worker,
                    tickets, history, faults>>
    BY <1>1 DEF Begin, mailboxes, bindings
  <2>3. JobsTyped'
    BY <1>1, <2>1, <2>2, JobsStep DEF Begin
  <2> QED
    BY <2>2, <2>3 DEF MailboxesTyped, BindingsTyped, IntakeTyped, WorkerTyped, WorkerRec,
                      HistoryTyped,
                      IntakeRows
<1>2. CASE \/ BeginBind(r) \/ BeginConnect(r) \/ BeginBulk(r)
           \/ BeginRegister(r)
  <2>1. PICK kind \in {"bind", "bulk", "register"}, who \in SUBSET Identities,
             box \in AllBoxes, pass \in 1..issued :
          /\ Begin(r, kind, who, box, pass, "prove")
          /\ kind = "register" => box \in Managed
          /\ kind = "bulk" => box \in External
    BY <1>2 DEF BeginBind, BeginConnect, BeginBulk,
                BeginRegister, AllBoxes
  <2>2. Apt("prove", [kind |-> kind, who |-> who, box |-> box, pass |-> pass])
    BY <2>1 DEF Apt
  <2>3. kind \in Kinds /\ pass \in 0..issued
    BY <2>1 DEF Kinds
  <2> QED
    BY <1>1, <2>1, <2>2, <2>3
<1>3. CASE BeginUnbind(r) \/ BeginUnbulk(r) \/ BeginDisconnect(r)
  <2>1. ASSUME NEW S, Status(S) # NoBox, S \subseteq Identities
        PROVE  Status(S) \in AllBoxes
    <3>1. /\ S # {} /\ \A s \in S : external[s] # NoRow
          /\ Status(S) = external[CHOOSE s \in S : TRUE].box
      BY <2>1 DEF Status
    <3>2. (CHOOSE s \in S : TRUE) \in S
      BY <3>1
    <3>3. external[CHOOSE s \in S : TRUE] \in [box : External, pass : 1..issued, ok : BOOLEAN]
      BY <2>1, <3>1, <3>2 DEF BindingsTyped
    <3> QED
      BY <3>1, <3>3 DEF AllBoxes
  <2>2. PICK kind \in {"unbind", "unbulk", "disconnect"}, who \in SUBSET Identities,
             box \in AllBoxes \cup {NoBox} :
          Begin(r, kind, who, box, 0, "drop")
    BY <1>3, <2>1 DEF BeginUnbind, BeginUnbulk, BeginDisconnect,
                      AllBoxes
  <2>3. Apt("drop", [kind |-> kind, who |-> who, box |-> box, pass |-> 0])
    BY DEF Apt
  <2>4. kind \in Kinds /\ 0 \in 0..issued
    BY <1>0, <2>2 DEF Kinds
  <2> QED
    BY <1>1, <2>2, <2>3, <2>4
<1>4. CASE BeginRemove(r) \/ BeginDiscard(r)
  <2>1. PICK kind \in {"remove", "discard"}, b \in Managed : Begin(r, kind, {}, b, 0, "delete")
    BY <1>4 DEF BeginRemove, BeginDiscard
  <2>2. Apt("delete", [kind |-> kind, who |-> {}, box |-> b, pass |-> 0])
    BY DEF Apt
  <2>3. kind \in Kinds /\ 0 \in 0..issued /\ b \in AllBoxes
    BY <1>0 DEF Kinds, AllBoxes
  <2> QED
    BY <1>1, <2>1, <2>2, <2>3
<1>5. ASSUME issued' = issued, Goto(r, "done") PROVE JobsTyped'
  <2>1. pc' = [pc EXCEPT ![r] = "done"] /\ job' = [job EXCEPT ![r] = NoJob]
    BY <1>5 DEF Goto
  <2> QED
    BY <1>0, <1>5, <2>1, JobsStep
<1>6. CASE ProvePassword(r)
  <2>1. /\ UNCHANGED <<real, born, issued, inbox, uidNext, managed, external, intake, worker,
                       tickets, history, faults>>
        /\ pc[r] = "prove" /\ (Goto(r, "put") \/ Goto(r, "done"))
    BY <1>6 DEF ProvePassword, mailboxes, bindings
  <2>2. CASE Goto(r, "put")
    <3>1. pc' = [pc EXCEPT ![r] = "put"] /\ job' = [job EXCEPT ![r] = job[r]]
      BY <2>2 DEF Goto
    <3>2. Apt("put", job[r])
      BY <2>1 DEF JobsTyped, Apt
    <3> QED
      BY <1>0, <2>1, <3>1, <3>2, JobsStep
         DEF MailboxesTyped, BindingsTyped, IntakeTyped, WorkerTyped, WorkerRec, HistoryTyped,
             IntakeRows
  <2> QED
    BY <1>5, <2>1, <2>2
       DEF MailboxesTyped, BindingsTyped, IntakeTyped, WorkerTyped, WorkerRec, HistoryTyped,
           IntakeRows
<1>7. CASE Store(r)
  <2>1. UNCHANGED <<real, born, issued, inbox, uidNext, worker>> /\ Goto(r, "done")
    BY <1>7 DEF Store, mailboxes
  <2> QED
    BY <1>5, <1>7, <2>1, RowsStored DEF MailboxesTyped, WorkerTyped, WorkerRec, IntakeRows
<1>8. CASE Drop(r)
  <2>1. /\ UNCHANGED <<real, born, issued, inbox, uidNext, intake, worker, tickets, history,
                     faults>>
        /\ Goto(r, "done")
    BY <1>8 DEF Drop, mailboxes
  <2>2. BindingsTyped'
    BY <1>8, <2>1 DEF Drop, Put, BindingsTyped
  <2> QED
    BY <1>5, <2>1, <2>2 DEF MailboxesTyped, IntakeTyped, WorkerTyped, WorkerRec, HistoryTyped,
                            IntakeRows
<1>9. CASE Delete(r)
  <2>1. /\ UNCHANGED <<born, issued, uidNext, managed, external, intake, worker, tickets>>
        /\ pc[r] = "delete" /\ job[r].box \in Managed
    BY <1>9 DEF Delete, bindings, JobsTyped, Apt
  <2>2. MailboxesTyped' /\ HistoryTyped'
    <3>1. MailboxesTyped'
      BY <1>9, <2>1, BindingsAssumption DEF Delete, MailboxesTyped, AllBoxes
    <3>2. raced' \subseteq Managed /\ leftover' \subseteq Managed /\ faults' \in 0..MaxFaults
      BY <1>9, <2>1, BindingsAssumption DEF Delete, HistoryTyped, Fault
    <3> QED
      BY <1>9, <2>1, <3>1, <3>2 DEF Delete, HistoryTyped
  <2>3. JobsTyped'
    <3>1. CASE Goto(r, "forget")
      <4>1. pc' = [pc EXCEPT ![r] = "forget"] /\ job' = [job EXCEPT ![r] = job[r]]
        BY <3>1 DEF Goto
      <4>2. Apt("forget", job[r])
        BY <2>1 DEF JobsTyped, Apt
      <4> QED
        BY <1>0, <2>1, <4>1, <4>2, JobsStep
    <3> QED
      BY <1>5, <1>9, <2>1, <3>1 DEF Delete
  <2> QED
    BY <2>1, <2>2, <2>3 DEF BindingsTyped, IntakeTyped, WorkerTyped, WorkerRec, IntakeRows
<1>10. CASE Forget(r)
  <2>1. /\ UNCHANGED <<real, born, issued, inbox, uidNext, external, worker, tickets, raced,
                       faults>>
        /\ leftover' \subseteq leftover /\ misplaced' \subseteq misplaced
        /\ Goto(r, "done")
    BY <1>10 DEF Forget, mailboxes
  <2>2. BindingsTyped' /\ IntakeTyped'
    BY <1>10, <2>1 DEF Forget, Without, BindingsTyped, IntakeTyped, IntakeRows
  <2> QED
    BY <1>5, <2>1, <2>2 DEF MailboxesTyped, WorkerTyped, WorkerRec, HistoryTyped, IntakeRows
<1> QED
  BY <1>2, <1>3, <1>4, <1>6, <1>7, <1>8, <1>9, <1>10 DEF Step


(* A set of letters has a first and a last one. *)
LEMMA LeastUid ==
  ASSUME NEW U \in SUBSET Uids, U # {}
  PROVE  /\ Min(U) \in U /\ \A u \in U : Min(U) <= u
         /\ Max(U) \in U /\ \A u \in U : Max(U) >= u
<1>1. U \subseteq 1..MaxUid /\ MaxUid \in Nat
  BY BindingsAssumption DEF Uids
<1>2. \E x \in U : \A y \in U : x <= y
  <2>1. U \subseteq Nat
    BY <1>1
  <2> QED
    BY <2>1, LeastNumber
<1>3. \E x \in U : \A y \in U : x >= y
  <2> DEFINE fromEnd == {n \in 0..MaxUid : MaxUid - n \in U}
  <2>1. PICK u \in U : TRUE
    OBVIOUS
  <2>2. MaxUid - u \in fromEnd
    BY <1>1, <2>1
  <2>3. PICK n \in fromEnd : \A k \in fromEnd : n <= k
    <3>1. fromEnd \subseteq Nat /\ fromEnd # {}
      BY <2>2
    <3> QED
      BY <3>1, LeastNumber
  <2>4. \A y \in U : MaxUid - y \in fromEnd
    BY <1>1
  <2>5. \A y \in U : n <= MaxUid - y
    BY <2>3, <2>4
  <2>6. MaxUid - n \in U /\ \A y \in U : MaxUid - n >= y
    BY <1>1, <2>3, <2>5
  <2> QED
    BY <2>6
<1> QED
  BY <1>2, <1>3 DEF Min, Max

(* Who the worker's steps leave alone keeps its types. *)
LEMMA WorkerLeaves ==
  ASSUME AllTyped, UNCHANGED others
  PROVE  /\ MailboxesTyped' /\ BindingsTyped' /\ JobsTyped' /\ IntakeRows' = IntakeRows
         /\ issued' = issued
  BY DEF AllTyped, others, mailboxes, bindings, MailboxesTyped,
         BindingsTyped, JobsTyped, Jobs, IntakeRows

(* The cursor of a row moves to a letter, or to the start. *)
LEMMA CursorTyped ==
  ASSUME IntakeTyped, NEW b \in Managed, NEW u \in 0..MaxUid
  PROVE  Cursor(b, u) \in [Managed -> IntakeRows \cup {NoRow}]
<1>1. CASE intake[b] = NoRow
  BY <1>1 DEF IntakeTyped, Cursor
<1>2. CASE intake[b] # NoRow
  <2>1. intake[b] \in IntakeRows
    BY <1>2 DEF IntakeTyped
  <2>2. [intake[b] EXCEPT !.cursor = u, !.first = FALSE] \in IntakeRows
    BY <2>1 DEF IntakeRows
  <2>3. Cursor(b, u)
          = [intake EXCEPT ![b] = [intake[b] EXCEPT !.cursor = u, !.first = FALSE]]
    BY <1>2, <2>1 DEF Cursor, IntakeTyped, IntakeRows
  <2> QED
    BY <2>2, <2>3 DEF IntakeTyped
<1> QED
  BY <1>1, <1>2

(* The letters a search answers with. *)
LEMMA FoundLetters ==
  ASSUME MailboxesTyped, NEW b \in Managed, NEW c \in 0..MaxUid
  PROVE  Found(b, c) \subseteq inbox[b]
<1>1. inbox[b] \in SUBSET Uids
  BY DEF MailboxesTyped
<1>2. inbox[b] # {} => Max(inbox[b]) \in inbox[b]
  BY <1>1, LeastUid
<1> QED
  BY <1>2 DEF Found

(* The worker's record through its steps. *)
LEMMA WorkerRounds ==
  ASSUME NEW w \in WorkerRec, NEW R \in SUBSET (Managed \X IntakeRows)
  PROVE  /\ [w EXCEPT !.at = "pick", !.rows = R] \in WorkerRec
         /\ [w EXCEPT !.at = "pick", !.rows = R].at = "pick"
         /\ [w EXCEPT !.rows = R] \in WorkerRec /\ [w EXCEPT !.rows = R].at = w.at
  BY DEF WorkerRec

(* A letter that is done. *)
LEMMA WorkerAdvances ==
  ASSUME NEW w \in WorkerRec, NEW u, w.left # 0, Batch \in Nat
  PROVE  LET new == [w EXCEPT !.at = "post", !.uids = w.uids \ {u}, !.left = w.left - 1]
         IN  new \in WorkerRec /\ new.at = "post" /\ new.box = w.box
<1>1. w.left - 1 \in 0..Batch /\ w.uids \ {u} \in SUBSET Uids
  BY DEF WorkerRec
<1> QED
  BY <1>1 DEF WorkerRec

(* The worker keeps the types. *)
LEMMA IntakeWorkerTyped ==
  ASSUME AllTyped, Worker
  PROVE  AllTyped'
<1> USE DEF AllTyped, history
<1>0. /\ MailboxesTyped' /\ BindingsTyped' /\ JobsTyped' /\ IntakeRows' = IntakeRows
      /\ issued' = issued /\ Batch \in Nat /\ worker \in WorkerRec
  BY WorkerLeaves, BindingsAssumption DEF Worker, SelectRows, Visit, Start,
     Post, Save, EndRound, WorkerTyped
<1>00. WorkerRec' = WorkerRec
  BY <1>0 DEF WorkerRec
<1>1. CASE SelectRows
  <2>1. /\ worker' = [Idle EXCEPT !.at = "pick",
                        !.rows = {<<b, intake[b]>> : b \in {m \in Managed : intake[m] # NoRow}}]
        /\ UNCHANGED <<intake, tickets, history, faults>>
    BY <1>1 DEF SelectRows
  <2>2. {<<b, intake[b]>> : b \in {m \in Managed : intake[m] # NoRow}} \in
          SUBSET (Managed \X IntakeRows)
    BY DEF IntakeTyped
  <2>3. WorkerTyped'
    <3>1. Idle \in WorkerRec /\ Idle.at = "rest"
      BY <1>0 DEF WorkerRec, Idle, MailboxesTyped
    <3> QED
      BY <1>0, <2>1, <2>2, <1>00, <3>1, WorkerRounds DEF WorkerTyped
  <2> QED
    BY <1>0, <2>1, <2>3 DEF IntakeTyped, HistoryTyped
<1>2. ASSUME NEW entry \in worker.rows, Visit(entry) PROVE AllTyped'
  <2>1. UNCHANGED <<intake, tickets, history, faults>>
    BY <1>2 DEF Visit
  <2>2. /\ entry[1] \in Managed /\ entry[2] \in IntakeRows
        /\ worker.rows \ {entry} \in SUBSET (Managed \X IntakeRows)
    BY DEF WorkerTyped, WorkerRec
  <2>3. Found(entry[1], entry[2].cursor) \in SUBSET Uids
    BY <2>2, FoundLetters DEF IntakeRows, MailboxesTyped
  <2>4. born[entry[1]] \in 0..issued
    BY <2>2 DEF MailboxesTyped, AllBoxes
  <2>5. \/ worker' = [worker EXCEPT !.rows = @ \ {entry}] /\ worker.at = "pick"
        \/ \E place \in {"start", "post"} :
             worker' = [worker EXCEPT !.rows = @ \ {entry}, !.at = place, !.box = entry[1],
                          !.born = born[entry[1]],
                          !.uids = Found(entry[1], entry[2].cursor), !.left = Batch]
    BY <1>2 DEF Visit
  <2>6. WorkerTyped'
    <3>1. CASE worker' = [worker EXCEPT !.rows = @ \ {entry}] /\ worker.at = "pick"
      BY <1>0, <1>00, <2>2, <3>1, WorkerRounds DEF WorkerTyped
    <3>2. ASSUME NEW place \in {"start", "post"},
             worker' = [worker EXCEPT !.rows = @ \ {entry}, !.at = place, !.box = entry[1],
                          !.born = born[entry[1]],
                          !.uids = Found(entry[1], entry[2].cursor), !.left = Batch]
          PROVE WorkerTyped'
      <4>1. worker' = [at |-> place, rows |-> worker.rows \ {entry}, box |-> entry[1],
                       born |-> born[entry[1]],
                       uids |-> Found(entry[1], entry[2].cursor), left |-> Batch]
        BY <1>0, <3>2 DEF WorkerRec
      <4>2. Batch \in 0..Batch
        BY <1>0
      <4>3. worker' \in WorkerRec
        BY <2>2, <2>3, <2>4, <4>1, <4>2 DEF WorkerRec
      <4> QED
        BY <1>00, <2>2, <4>1, <4>3 DEF WorkerTyped
    <3> QED
      BY <2>5, <3>1, <3>2
  <2> QED
    BY <1>0, <2>1, <2>6 DEF IntakeTyped, HistoryTyped
<1>3. CASE Start
  <2>1. worker.box \in Managed /\ worker.uids \in SUBSET Uids /\ worker.born \in 0..issued
    BY <1>3 DEF Start, WorkerTyped, WorkerRec
  <2>2. PICK u \in 0..MaxUid :
          /\ intake' = Cursor(worker.box, u)
          /\ tickets' = tickets \cup {<<worker.box, worker.born, v>> : v \in 1..u}
    <3>1. worker.uids # {} => Max(worker.uids) \in 0..MaxUid
      BY <2>1, LeastUid DEF Uids
    <3> QED
      BY <1>3, <3>1, BindingsAssumption DEF Start
  <2>3. IntakeTyped'
    BY <1>0, <2>1, <2>2, CursorTyped DEF IntakeTyped
  <2>4. HistoryTyped'
    <3>1. 1..u \subseteq Uids /\ 0..issued \subseteq 0..MaxPass
      BY <2>2, BindingsAssumption DEF Uids, MailboxesTyped
    <3>2. tickets' \subseteq Managed \X (0..MaxPass) \X Uids
      BY <2>1, <2>2, <3>1 DEF HistoryTyped
    <3> QED
      BY <1>3, <2>1, <3>2 DEF Start, Misplace, HistoryTyped
  <2>5. WorkerTyped'
    BY <1>0, <1>3 DEF Start, WorkerTyped, WorkerRec
  <2> QED
    BY <1>0, <2>3, <2>4, <2>5
<1>4. CASE Post
  <2>1. UNCHANGED <<intake, history>> /\ worker.box \in Managed /\ worker.born \in 0..issued
    BY <1>4 DEF Post, WorkerTyped, WorkerRec
  <2>2. CASE UNCHANGED <<tickets, faults>> /\ worker' = [worker EXCEPT !.at = "pick"]
    BY <1>0, <2>1, <2>2 DEF WorkerTyped, WorkerRec, IntakeTyped, HistoryTyped
  <2>3. CASE worker.uids # {} /\ ~Full
    <3>1. Min(worker.uids) \in Uids
      BY <2>3, LeastUid DEF WorkerTyped, WorkerRec
    <3>2. /\ worker' = [worker EXCEPT !.at = "save"] \/ worker' = [worker EXCEPT !.at = "pick"]
          /\ tickets' \in {tickets, tickets \cup {<<worker.box, worker.born,
                                                     Min(worker.uids)>>}}
          /\ UNCHANGED faults \/ Fault
      BY <1>4 DEF Post
    <3>3. WorkerTyped'
      BY <1>0, <1>4, <2>3, <3>2 DEF WorkerTyped, WorkerRec, Full, Post
    <3>4. 0..issued \subseteq 0..MaxPass
      BY BindingsAssumption DEF MailboxesTyped
    <3>5. HistoryTyped'
      BY <2>1, <3>1, <3>2, <3>4, BindingsAssumption DEF HistoryTyped, Fault
    <3> QED
      BY <1>0, <2>1, <3>3, <3>5 DEF IntakeTyped
  <2> QED
    BY <1>4, <2>2, <2>3 DEF Post
<1>5. CASE Save
  <2>1. /\ worker.box \in Managed /\ worker.uids # {} /\ worker.left # 0
        /\ worker.uids \in SUBSET Uids
    BY <1>5 DEF Save, WorkerTyped, WorkerRec
  <2>2. Min(worker.uids) \in 0..MaxUid
    BY <2>1, LeastUid DEF Uids
  <2>3. IntakeTyped'
    BY <1>0, <1>5, <2>1, <2>2, CursorTyped DEF Save, IntakeTyped
  <2>4. WorkerTyped'
    <3>1. worker' = [worker EXCEPT !.at = "post",
                                   !.uids = worker.uids \ {Min(worker.uids)},
                                   !.left = worker.left - 1]
      BY <1>5 DEF Save
    <3>2. worker' \in WorkerRec /\ worker'.at = "post" /\ worker'.box = worker.box
      BY <1>0, <2>1, <3>1, WorkerAdvances
    <3> QED
      BY <1>00, <2>1, <3>2 DEF WorkerTyped
  <2>5. HistoryTyped'
    BY <1>5, <2>1 DEF Save, Misplace, HistoryTyped
  <2> QED
    BY <1>0, <2>3, <2>4, <2>5
<1>6. CASE EndRound
  <2>1. UNCHANGED <<intake, tickets, history, faults>> /\ worker' = Idle
    BY <1>6 DEF EndRound
  <2>2. Idle \in WorkerRec /\ Idle.at = "rest"
    BY <1>0 DEF WorkerRec, Idle, MailboxesTyped
  <2> QED
    BY <1>0, <1>00, <2>1, <2>2 DEF WorkerTyped, IntakeTyped, HistoryTyped
<1> QED
  BY <1>1, <1>2, <1>3, <1>4, <1>5, <1>6 DEF Worker

(* So does the world. *)
LEMMA WorldTyped ==
  ASSUME AllTyped, World
  PROVE  AllTyped'
<1> USE DEF AllTyped, history
<1>1. ASSUME NEW b \in Managed, Arrive(b) \/ Expunge(b) PROVE AllTyped'
  <2>1. UNCHANGED <<real, born, issued, managed, external, intake, pc, job, worker, tickets,
                    history, faults>>
    BY <1>1 DEF Arrive, Expunge, bindings
  <2>2. MailboxesTyped'
    BY <1>1, <2>1, BindingsAssumption DEF MailboxesTyped, Arrive, Expunge, Uids
  <2> QED
    BY <2>1, <2>2 DEF BindingsTyped, IntakeTyped, IntakeRows, JobsTyped, Jobs, WorkerTyped,
                      WorkerRec,
                      HistoryTyped
<1>2. ASSUME UNCHANGED <<managed, external, intake, pc, job, worker, tickets, history, faults>>,
             issued' = issued + 1, MailboxesTyped'
      PROVE  AllTyped'
  <2>1. 1..issued \subseteq 1..issued' /\ 0..issued \subseteq 0..issued'
    BY <1>2 DEF MailboxesTyped
  <2>2. IntakeRows \subseteq IntakeRows' /\ Jobs \subseteq Jobs'
    BY <2>1 DEF IntakeRows, Jobs
  <2>3. BindingsTyped'
    BY <1>2, <2>1 DEF BindingsTyped
  <2>4. IntakeTyped'
    BY <1>2, <2>2 DEF IntakeTyped
  <2>5. JobsTyped'
    BY <1>2, <2>2 DEF JobsTyped, Apt
  <2>6. WorkerTyped'
    <3>1. SUBSET (Managed \X IntakeRows) \subseteq SUBSET (Managed \X IntakeRows')
      BY <2>2
    <3> QED
      BY <1>2, <2>1, <3>1 DEF WorkerTyped, WorkerRec
  <2> QED
    BY <1>2, <2>3, <2>4, <2>5, <2>6 DEF HistoryTyped
<1>3. ASSUME NEW b \in Changing, SetPassword(b) PROVE AllTyped'
  <2>1. MailboxesTyped'
    BY <1>3, BindingsAssumption DEF MailboxesTyped, SetPassword
  <2> QED
    BY <1>2, <1>3, <2>1 DEF SetPassword, bindings
<1>4. ASSUME NEW b \in Managed, Create(b) PROVE AllTyped'
  <2>1. MailboxesTyped'
    <3>1. /\ issued' = issued + 1 /\ issued' \in 1..MaxPass /\ UNCHANGED inbox
          /\ real' = [real EXCEPT ![b] = issued'] /\ born' = [born EXCEPT ![b] = issued']
          /\ uidNext' = [uidNext EXCEPT ![b] = 1] /\ 1 \in 1..(MaxUid + 1)
      BY <1>4, BindingsAssumption DEF Create, MailboxesTyped
    <3>2. 0..issued \subseteq 0..issued' /\ issued' \in 0..issued'
      BY <3>1 DEF MailboxesTyped
    <3> QED
      BY <3>1, <3>2 DEF MailboxesTyped
  <2> QED
    BY <1>2, <1>4, <2>1 DEF Create, bindings
<1>5. CASE RestartServer
  <2>1. UNCHANGED <<real, born, issued, inbox, uidNext, managed, external, tickets>>
    BY <1>5 DEF RestartServer, mailboxes, bindings
  <2>2. IntakeTyped'
    <3>1. /\ intake' \in [Managed -> Intakes \cup {NoRow}]
          /\ \A b \in Managed : intake'[b] \in Joined(b)
      BY <1>5 DEF RestartServer
    <3>2. ASSUME NEW b \in Managed PROVE intake'[b] \in IntakeRows \cup {NoRow}
      <4>1. \/ intake'[b] = intake[b]
            \/ \E s \in Identities : /\ managed[s] # NoRow
                                   /\ intake'[b]
                                        = [pass |-> managed[s].pass, cursor |-> 0, first |-> TRUE]
        BY <3>1 DEF Joined
      <4>2. 0 \in 0..MaxUid
        BY BindingsAssumption
      <4>3. \A s \in Identities : managed[s] # NoRow => managed[s].pass \in 1..issued
        BY DEF BindingsTyped
      <4>4. intake[b] \in IntakeRows \cup {NoRow}
        BY DEF IntakeTyped
      <4>5. \A p \in 1..issued : [pass |-> p, cursor |-> 0, first |-> TRUE] \in IntakeRows
        BY <4>2 DEF IntakeRows
      <4> QED
        BY <4>1, <4>3, <4>4, <4>5
    <3>3. IntakeRows' = IntakeRows
      BY <2>1 DEF IntakeRows
    <3> QED
      BY <3>1, <3>2, <3>3 DEF IntakeTyped
  <2>3. JobsTyped'
    BY <1>5, <2>1 DEF RestartServer, NoJob, JobsTyped, Jobs, Apt, Here,
                      MailboxesTyped
  <2>4. WorkerTyped'
    BY <1>5, <2>1, BindingsAssumption
       DEF RestartServer, Idle, WorkerTyped, WorkerRec, MailboxesTyped
  <2>5. HistoryTyped'
    BY <1>5, <2>1, BindingsAssumption DEF RestartServer, Fault, HistoryTyped
  <2> QED
    BY <2>1, <2>2, <2>3, <2>4, <2>5 DEF MailboxesTyped, BindingsTyped
<1> QED
  BY <1>1, <1>3, <1>4, <1>5 DEF World

(* What is stored, carried and handed over keeps its shape; letters and    *)
(* passwords are among those that were issued.                             *)
LEMMA AllTypedHolds == BindingsSpec => []AllTyped
<1>1. BindingsInit => AllTyped
  BY AllTypedInitially
<1>2. AllTyped /\ [BindingsNext]_bindingsVars => AllTyped'
  <2> SUFFICES ASSUME AllTyped, [BindingsNext]_bindingsVars PROVE AllTyped'
    OBVIOUS
  <2>1. CASE UNCHANGED bindingsVars
    BY <2>1 DEF bindingsVars, history, mailboxes, bindings, AllTyped, MailboxesTyped,
       BindingsTyped, IntakeTyped, IntakeRows, JobsTyped, Jobs, WorkerTyped, WorkerRec, HistoryTyped
  <2> QED
    BY <2>1, RequestTyped, IntakeWorkerTyped, WorldTyped DEF BindingsNext
<1> QED
  BY <1>1, <1>2, PTL DEF BindingsSpec


(* A password of the mailbox that exists now. *)
Standing(b, pass) == real[b] # 0 /\ pass >= born[b]

(* What is stored for a mailbox, and what is about to be, is of the        *)
(* mailbox that exists now, unless its deletion is about to drop it, or    *)
(* was one that drops nothing.                                             *)
Proven(b) == \A r \in Calls : pc[r] = "put" /\ job[r].box = b => Standing(b, job[r].pass)
Remembered(b) ==
  /\ \A s \in Identities : managed[s] # NoRow /\ managed[s].box = b => Standing(b, managed[s].pass)
  /\ intake[b] # NoRow => Standing(b, intake[b].pass)
Forgotten(b) ==
  /\ real[b] = 0 \/ real[b] >= born[b]
  /\ b \notin raced =>
       /\ Proven(b)
       /\ b \notin leftover /\ ~Deleting(b) => Remembered(b)

(* Steps that neither change a mailbox nor what is stored for it, and      *)
(* bring nobody to storing something.                                      *)
LEMMA ForgottenStill ==
  ASSUME NEW b \in Managed, Forgotten(b), raced \subseteq raced', leftover \subseteq leftover',
         UNCHANGED <<real, born, managed>>,
         intake'[b] = intake[b] \/ (intake[b] # NoRow /\ intake'[b].pass = intake[b].pass),
         \A r \in Calls : pc'[r] = "put" => pc[r] = "put" /\ job'[r] = job[r],
         b \notin raced' /\ Deleting(b) => Deleting(b)'
  PROVE  Forgotten(b)'
  BY DEF Forgotten, Proven, Remembered, Standing

(* Calls keep it. *)
LEMMA RequestForgotten ==
  ASSUME AllTyped, NEW r \in Calls, Step(r),
         NEW b \in Managed, Forgotten(b)
  PROVE  Forgotten(b)'
<1> USE DEF Here, mailboxes, bindings, history
<1>0. /\ pc \in [Calls -> {"idle", "prove", "put", "drop", "delete", "forget", "done"}]
      /\ job \in [Calls -> Jobs] /\ Apt(pc[r], job[r])
      /\ real \in [AllBoxes -> 0..issued] /\ born \in [AllBoxes -> 0..issued]
      /\ issued \in Nat /\ b \in AllBoxes
  BY DEF AllTyped, JobsTyped, MailboxesTyped, AllBoxes
<1>1. ASSUME NEW kind, NEW who, NEW box, NEW pass, NEW step \in {"prove", "drop", "delete"},
             Begin(r, kind, who, box, pass, step)
      PROVE  Forgotten(b)'
  BY <1>0, <1>1, ForgottenStill DEF Begin, Deleting
<1>2. CASE \/ BeginBind(r) \/ BeginConnect(r) \/ BeginBulk(r)
           \/ BeginRegister(r) \/ BeginUnbind(r) \/ BeginUnbulk(r)
           \/ BeginDisconnect(r) \/ BeginRemove(r) \/ BeginDiscard(r)
  BY <1>1, <1>2 DEF BeginBind, BeginConnect, BeginBulk,
     BeginRegister, BeginUnbind, BeginUnbulk,
     BeginDisconnect, BeginRemove, BeginDiscard
<1>3. ASSUME Goto(r, "done"), pc[r] # "forget"
      PROVE  /\ \A q \in Calls : pc'[q] = "put" => pc[q] = "put" /\ job'[q] = job[q]
             /\ Deleting(b) => Deleting(b)'
             /\ Deleting(b)' => Deleting(b)
  BY <1>0, <1>3 DEF Goto, Deleting
<1>4. CASE ProvePassword(r)
  <2>1. UNCHANGED <<real, born, managed, intake, raced, leftover>> /\ pc[r] = "prove"
    BY <1>4 DEF ProvePassword
  <2>2. CASE Goto(r, "done")
    BY <1>3, <2>1, <2>2, ForgottenStill
  <2>3. CASE Accepts(r) /\ Goto(r, "put")
    <3>1. /\ pc' = [pc EXCEPT ![r] = "put"] /\ job' = job
          /\ Deleting(b) <=> Deleting(b)'
      BY <1>0, <2>1, <2>3 DEF Goto, Deleting
    <3>2. job[r].box = b => Standing(b, job[r].pass)
      BY <1>0, <2>1, <2>3 DEF Accepts, Standing, Forgotten, Apt
    <3> QED
      BY <1>0, <2>1, <3>1, <3>2 DEF Forgotten, Proven, Remembered, Standing
  <2> QED
    BY <1>4, <2>2, <2>3 DEF ProvePassword
<1>5. CASE Store(r)
  <2>1. /\ UNCHANGED <<real, born>> /\ pc[r] = "put" /\ Goto(r, "done")
        /\ raced \subseteq raced' /\ leftover' = leftover
    BY <1>5 DEF Store
  <2>2. SUFFICES ASSUME b \notin raced', b \notin leftover', ~Deleting(b)'
        PROVE  Remembered(b)'
    BY <1>3, <2>1 DEF Forgotten, Proven, Standing
  <2>3. Remembered(b) /\ Proven(b) /\ ~Deleting(b)
    BY <1>3, <2>1, <2>2 DEF Forgotten
  <2>4. job[r].box = b => Standing(b, job[r].pass)
    BY <2>1, <2>3 DEF Proven
  <2>5. ASSUME NEW s \in Identities, managed'[s] # NoRow, managed'[s].box = b
        PROVE  Standing(b, managed'[s].pass)
    <3>1. \/ managed'[s] = managed[s]
          \/ managed'[s] = [box |-> job[r].box, pass |-> job[r].pass, ok |-> TRUE]
      BY <1>5 DEF Store, Put, AllTyped, BindingsTyped
    <3> QED
      BY <2>3, <2>4, <2>5, <3>1 DEF Remembered
  <2>6. ASSUME intake'[b] # NoRow PROVE Standing(b, intake'[b].pass)
    <3>1. CASE job[r].kind = "register" /\ job[r].box = b
      <4>1. intake'[b] = Registered(b, job[r].pass)
        BY <1>5, <3>1 DEF Store, AllTyped, IntakeTyped
      <4>2. Registered(b, job[r].pass).pass = job[r].pass
        BY DEF Registered, AllTyped, IntakeTyped, IntakeRows
      <4> QED
        BY <2>4, <3>1, <4>1, <4>2
    <3>2. CASE ~ (job[r].kind = "register" /\ job[r].box = b)
      BY <1>5, <2>3, <2>6, <3>2 DEF Store, AllTyped, IntakeTyped, Remembered
    <3> QED
      BY <3>1, <3>2
  <2> QED
    BY <2>1, <2>5, <2>6 DEF Remembered, Standing
<1>6. CASE Drop(r)
  <2>1. /\ UNCHANGED <<real, born, intake, raced, leftover>> /\ pc[r] = "drop" /\ Goto(r, "done")
        /\ \A s \in Identities : managed'[s] = managed[s] \/ managed'[s] = NoRow
    BY <1>6 DEF Drop, Put
  <2> QED
    BY <1>3, <2>1 DEF Forgotten, Proven, Remembered, Standing
<1>7. CASE Delete(r)
  <2>1. /\ UNCHANGED <<born, managed, intake>> /\ pc[r] = "delete"
        /\ raced \subseteq raced' /\ leftover \subseteq leftover'
        /\ \A q \in Calls : pc'[q] = "put" => pc[q] = "put" /\ job'[q] = job[q]
        /\ Deleting(b) => Deleting(b)'
    BY <1>0, <1>7 DEF Delete, Goto, Deleting
  <2>2. CASE real'[b] = real[b]
    BY <2>1, <2>2 DEF Forgotten, Proven, Remembered, Standing
  <2>3. CASE real'[b] # real[b]
    <3>1. job[r].box = b /\ real'[b] = 0
      BY <1>0, <1>7, <2>3 DEF Delete
    <3>2. ASSUME b \notin raced'
          PROVE  /\ \A q \in Calls : ~ (pc[q] = "put" /\ job[q].box = b)
                 /\ \/ job[r].kind = "remove" /\ Goto(r, "forget")
                    \/ b \in leftover'
                    \/ ~Stored(b)
      BY <1>7, <2>1, <2>3, <3>1, <3>2 DEF Delete
    <3>3. ASSUME b \notin raced', b \notin leftover' PROVE Deleting(b)' \/ ~Stored(b)
      BY <1>0, <3>1, <3>2, <3>3 DEF Goto, Deleting
    <3>4. ~Stored(b) => Remembered(b)'
      BY <2>1 DEF Stored, Remembered
    <3>5. b \notin raced' => Proven(b)'
      BY <2>1, <3>2 DEF Proven
    <3> QED
      BY <3>1, <3>3, <3>4, <3>5 DEF Forgotten
  <2> QED
    BY <2>2, <2>3
<1>8. CASE Forget(r)
  <2>1. /\ UNCHANGED <<real, born, raced>> /\ pc[r] = "forget" /\ Goto(r, "done")
        /\ \A q \in Calls : pc'[q] = "put" => pc[q] = "put" /\ job'[q] = job[q]
    BY <1>0, <1>8 DEF Forget, Goto
  <2>2. CASE job[r].box = b
    <3>1. intake'[b] = NoRow /\ \A s \in Identities : managed'[s] = NoRow \/ managed'[s].box # b
      BY <1>8, <2>2 DEF Forget, Without, AllTyped, IntakeTyped
    <3> QED
      BY <2>1, <3>1 DEF Forgotten, Proven, Remembered, Standing
  <2>3. CASE job[r].box # b
    <3>1. /\ intake'[b] = intake[b] /\ (b \notin leftover' => b \notin leftover)
          /\ \A s \in Identities : managed'[s] = NoRow \/ managed'[s] = managed[s]
      BY <1>8, <2>3 DEF Forget, Without, AllTyped, IntakeTyped
    <3>2. Deleting(b) => Deleting(b)'
      BY <1>0, <2>1, <2>3 DEF Goto, Deleting
    <3> QED
      BY <2>1, <3>1, <3>2 DEF Forgotten, Proven, Remembered, Standing
  <2> QED
    BY <2>2, <2>3
<1> QED
  BY <1>2, <1>4, <1>5, <1>6, <1>7, <1>8 DEF Step

(* The worker changes rows of the intake, and neither makes nor drops one. *)
LEMMA RowsKept ==
  ASSUME AllTyped, Worker, NEW b \in Managed
  PROVE  intake'[b] = intake[b]
           \/ (intake[b] # NoRow /\ intake'[b].pass = intake[b].pass)
<1>1. ASSUME NEW c \in Managed, NEW u, intake' = Cursor(c, u)
      PROVE  intake'[b] = intake[b]
               \/ (intake[b] # NoRow /\ intake'[b].pass = intake[b].pass)
  <2>1. CASE intake[c] = NoRow \/ c # b
    BY <1>1, <2>1 DEF Cursor, AllTyped, IntakeTyped
  <2>2. CASE intake[c] # NoRow /\ c = b
    <3>1. intake[b] \in IntakeRows
      BY <2>2 DEF AllTyped, IntakeTyped
    <3>2. intake'[b] = [intake[b] EXCEPT !.cursor = u, !.first = FALSE]
      BY <1>1, <2>2, <3>1 DEF Cursor, AllTyped, IntakeTyped, IntakeRows
    <3>3. intake'[b].pass = intake[b].pass
      BY <3>1, <3>2 DEF IntakeRows
    <3> QED
      BY <2>2, <3>3
  <2> QED
    BY <2>1, <2>2
<1> QED
  BY <1>1 DEF Worker, SelectRows, Visit, Start,
     Post, Save, EndRound, AllTyped, WorkerTyped

(* It keeps what is stored of the mailbox that exists now. *)
LEMMA WorkerForgotten ==
  ASSUME AllTyped, Worker, NEW b \in Managed, Forgotten(b)
  PROVE  Forgotten(b)'
<1>1. UNCHANGED <<real, born, managed, pc, job, raced, leftover>>
  BY DEF Worker, SelectRows, Visit, Start, Post,
     Save, EndRound, others, mailboxes, bindings, history
<1>2. Deleting(b) => Deleting(b)'
  BY <1>1 DEF Deleting, Here
<1> QED
  BY <1>1, <1>2, RowsKept, ForgottenStill


(* The world keeps it: an account is only created again when the last one  *)
(* is gone, and a restart that cuts a deletion short is noted.             *)
LEMMA WorldForgotten ==
  ASSUME AllTyped, World, NEW b \in Managed, Forgotten(b)
  PROVE  Forgotten(b)'
<1> USE DEF bindings, history
<1>0. /\ real \in [AllBoxes -> 0..issued] /\ born \in [AllBoxes -> 0..issued]
      /\ issued \in Nat \ {0} /\ b \in AllBoxes
  BY DEF AllTyped, MailboxesTyped, AllBoxes
<1>1. ASSUME UNCHANGED <<pc, job>> PROVE Deleting(b) <=> Deleting(b)'
  BY <1>1 DEF Deleting, Here
<1>2. ASSUME NEW c \in Managed, Arrive(c) \/ Expunge(c) PROVE Forgotten(b)'
  <2>1. UNCHANGED <<real, born, managed, intake, pc, job, raced, leftover>>
    BY <1>2 DEF Arrive, Expunge
  <2> QED
    BY <1>1, <2>1, ForgottenStill
<1>3. ASSUME NEW c \in Changing, SetPassword(c) PROVE Forgotten(b)'
  <2>1. /\ UNCHANGED <<born, managed, intake, pc, job, raced, leftover>>
        /\ real'[b] = real[b] \/ (real[b] # 0 /\ real'[b] = issued + 1)
    BY <1>0, <1>3 DEF SetPassword
  <2>2. \A p : Standing(b, p) => Standing(b, p)'
    BY <1>0, <2>1 DEF Standing
  <2>3. real'[b] = 0 \/ real'[b] >= born'[b]
    BY <1>0, <2>1 DEF Forgotten
  <2> QED
    BY <1>1, <2>1, <2>2, <2>3 DEF Forgotten, Proven, Remembered
<1>4. ASSUME NEW c \in Managed, Create(c) PROVE Forgotten(b)'
  <2>1. UNCHANGED <<managed, intake, pc, job, raced, leftover>>
    BY <1>4 DEF Create
  <2>2. CASE c = b
    <3>1. real[b] = 0 /\ real'[b] = born'[b] /\ real'[b] \in Nat
      BY <1>0, <1>4, <2>2 DEF Create
    <3>2. \A p : ~Standing(b, p)
      BY <3>1 DEF Standing
    <3> QED
      BY <1>1, <2>1, <3>1, <3>2 DEF Forgotten, Proven, Remembered
  <2>3. CASE c # b
    <3>1. UNCHANGED <<real[b], born[b]>>
      BY <1>0, <1>4, <2>3 DEF Create
    <3> QED
      BY <1>1, <2>1, <3>1 DEF Forgotten, Proven, Remembered, Standing
  <2> QED
    BY <2>2, <2>3
<1>5. CASE RestartServer
  <2>1. /\ UNCHANGED <<real, born, managed, leftover>> /\ raced \subseteq raced'
        /\ b \notin raced' => ~Deleting(b)
        /\ \A r \in Calls : pc'[r] # "put"
        /\ intake'[b] \in Joined(b)
    BY <1>5 DEF RestartServer, mailboxes
  <2>2. \/ intake'[b] = intake[b]
        \/ \E s \in Identities : /\ managed[s] # NoRow /\ managed[s].box = b
                               /\ intake'[b].pass = managed[s].pass
    BY <2>1 DEF Joined
  <2> QED
    BY <2>1, <2>2 DEF Forgotten, Proven, Remembered, Standing
<1> QED
  BY <1>2, <1>3, <1>4, <1>5 DEF World

(* What is stored for a mailbox is of the mailbox that exists now.         *)
LEMMA ForgottenHolds == BindingsSpec => [](\A b \in Managed : Forgotten(b))
<1>1. BindingsInit => \A b \in Managed : Forgotten(b)
  <2> SUFFICES ASSUME BindingsInit, NEW b \in Managed PROVE Forgotten(b)
    OBVIOUS
  <2>1. b \in AllBoxes
    BY DEF AllBoxes
  <2>2. /\ real[b] = 1 /\ born[b] = 1 /\ intake[b] = NoRow /\ \A r \in Calls : pc[r] = "idle"
        /\ \A s \in Identities : managed[s] = NoRow \/ managed[s].pass = 1
    BY <2>1 DEF BindingsInit
  <2> QED
    BY <2>2 DEF Forgotten, Proven, Remembered, Standing
<1>2. AllTyped /\ (\A b \in Managed : Forgotten(b)) /\ [BindingsNext]_bindingsVars
        => (\A b \in Managed : Forgotten(b))'
  <2> SUFFICES ASSUME AllTyped, \A b \in Managed : Forgotten(b),
                      [BindingsNext]_bindingsVars, NEW b \in Managed
               PROVE  Forgotten(b)'
    OBVIOUS
  <2>1. CASE UNCHANGED bindingsVars
    BY <2>1, ForgottenStill DEF bindingsVars, mailboxes, bindings,
       history, Deleting, Here
  <2> QED
    BY <2>1, RequestForgotten, WorkerForgotten, WorldForgotten DEF BindingsNext
<1> QED
  BY <1>1, <1>2, AllTypedHolds, PTL DEF BindingsSpec


-----------------------------------------------------------------------------
(* The cursor of the intake.                                               *)

(* UIDs are given out in order, and a mailbox that is gone has no letters. *)
Ordered(b) ==
  /\ \A u \in inbox[b] : u < uidNext[b]
  /\ real[b] = 0 => inbox[b] = {}

(* A letter was handed over, or is older than the intake. *)
Handed(b, u) == <<b, born[b], u>> \in tickets

(* A row of the mailbox that exists now has a cursor that passed nothing   *)
(* by.  The passwords of an earlier one are older than the mailbox.        *)
Passed(b, row) ==
  \/ real[b] = 0
  \/ row.pass < born[b]
  \/ row.cursor < uidNext[b] /\ \A u \in inbox[b] : u <= row.cursor => Handed(b, u)

(* What the worker holds of a mailbox that exists: rows as they were when  *)
(* the round began; letters of its search, of which it posts the first, so *)
(* that whatever it does not hold was handed over or came later.           *)
Holding ==
  worker.at \in {"start", "post", "save"}
Held(b) ==
  Holding /\ worker.box = b /\ worker.born = born[b] /\ real[b] # 0 =>
    /\ \A u \in worker.uids : u < uidNext[b]
    /\ worker.at # "start" =>
         \A v \in inbox[b] : Handed(b, v) \/ v \in worker.uids \/ \A u \in worker.uids : u < v
    /\ worker.at = "save" => Handed(b, Min(worker.uids))

(* While a deletion runs, all that there is of the mailbox, in the row and *)
(* in the worker's copies, is of the one deleted.                          *)
Lapsed(b) ==
  \/ real[b] = 0
  \/ /\ intake[b] # NoRow => intake[b].pass < born[b]
     /\ \A entry \in worker.rows : entry[1] = b => entry[2].pass < born[b]
     /\ Holding => worker.box # b \/ worker.born # born[b]

Followed(b) ==
  /\ Ordered(b)
  /\ b \notin raced /\ Deleting(b) => Lapsed(b)
  /\ Settled(b) =>
       /\ intake[b] # NoRow => Passed(b, intake[b])
       /\ \A entry \in worker.rows : entry[1] = b => Passed(b, entry[2])
       /\ Held(b)

(* What is of a mailbox deleted passes nothing of the next one by. *)
LEMMA LapsedFollows ==
  ASSUME NEW b \in Managed, Lapsed(b)
  PROVE  /\ intake[b] # NoRow => Passed(b, intake[b])
         /\ \A entry \in worker.rows : entry[1] = b => Passed(b, entry[2])
         /\ Held(b)
  BY DEF Lapsed, Passed, Held

(* Letters are handed over, or leave; the mailbox stays what it is.        *)
LEMMA FollowedStill ==
  ASSUME AllTyped, NEW b \in Managed, Followed(b), raced \subseteq raced', UNCHANGED worker,
         Settled(b)' => Settled(b) \/ Lapsed(b),
         born'[b] = born[b], uidNext'[b] = uidNext[b], inbox'[b] \subseteq inbox[b],
         tickets \subseteq tickets', real'[b] = 0 => inbox'[b] = {},
         real[b] = 0 => real'[b] = 0,
         b \notin raced' /\ Deleting(b)' =>
           \/ real'[b] = 0
           \/ /\ Deleting(b)
              /\ intake'[b] # NoRow => intake[b] # NoRow /\ intake'[b].pass = intake[b].pass,
         Settled(b)' => (intake'[b] # NoRow => Passed(b, intake'[b]))
  PROVE  Followed(b)'
<1>1. \A row : Passed(b, row) => Passed(b, row)'
  BY DEF Passed, Handed
<1>2. Held(b) => Held(b)'
  BY DEF Held, Holding, Handed
<1>3. Ordered(b)'
  BY DEF Followed, Ordered
<1>4. ASSUME b \notin raced', Deleting(b)' PROVE Lapsed(b)'
  BY <1>4 DEF Followed, Lapsed, Holding
<1>5. ASSUME Settled(b)'
      PROVE  /\ intake'[b] # NoRow => Passed(b, intake'[b])
             /\ \A entry \in worker.rows : entry[1] = b => Passed(b, entry[2])
             /\ Held(b)
  BY <1>5, LapsedFollows DEF Followed
<1>6. PICK new : new = intake'[b]
  OBVIOUS
<1>7. ASSUME Settled(b)', intake'[b] # NoRow PROVE Passed(b, intake[b])'
  <2>1. Passed(b, new)'
    BY <1>1, <1>5, <1>6, <1>7
  <2> QED
    BY <1>6, <2>1 DEF Passed, Handed
<1>8. ASSUME Settled(b)', NEW entry \in worker.rows, entry[1] = b PROVE Passed(b, entry[2])'
  BY <1>1, <1>5, <1>8
<1> QED
  BY <1>2, <1>3, <1>4, <1>5, <1>7, <1>8 DEF Followed

(* Calls keep it. *)
LEMMA RequestFollowed ==
  ASSUME AllTyped, NEW r \in Calls, Step(r),
         NEW b \in Managed, Followed(b), Forgotten(b)
  PROVE  Followed(b)'
<1> USE DEF Here, mailboxes, bindings, history
<1>0. /\ pc \in [Calls -> {"idle", "prove", "put", "drop", "delete", "forget", "done"}]
      /\ job \in [Calls -> Jobs] /\ Apt(pc[r], job[r])
      /\ real \in [AllBoxes -> 0..issued] /\ inbox \in [Managed -> SUBSET Uids]
      /\ b \in AllBoxes
  BY DEF AllTyped, JobsTyped, MailboxesTyped, AllBoxes
<1>1. ASSUME UNCHANGED <<real, born, issued, inbox, uidNext, intake, worker, tickets, history>>,
             Deleting(b)' => Deleting(b)
      PROVE  Followed(b)'
  <2>1. Settled(b)' <=> Settled(b)
    BY <1>1 DEF Settled
  <2> QED
    BY <1>1, <2>1, FollowedStill DEF Followed, Ordered
<1>2. ASSUME NEW kind, NEW who, NEW box, NEW pass, NEW step \in {"prove", "drop", "delete"},
             Begin(r, kind, who, box, pass, step)
      PROVE  /\ UNCHANGED <<real, born, issued, inbox, uidNext, intake, worker, tickets, history>>
             /\ Deleting(b)' => Deleting(b)
  BY <1>0, <1>2 DEF Begin, Deleting
<1>3. CASE \/ BeginBind(r) \/ BeginConnect(r) \/ BeginBulk(r)
           \/ BeginRegister(r) \/ BeginUnbind(r) \/ BeginUnbulk(r)
           \/ BeginDisconnect(r) \/ BeginRemove(r) \/ BeginDiscard(r)
  BY <1>1, <1>2, <1>3 DEF BeginBind, BeginConnect, BeginBulk,
     BeginRegister, BeginUnbind, BeginUnbulk,
     BeginDisconnect, BeginRemove, BeginDiscard
<1>4. CASE ProvePassword(r) \/ Drop(r)
  <2>1. Deleting(b)' => Deleting(b)
    BY <1>0, <1>4 DEF ProvePassword, Drop, Goto, Deleting
  <2> QED
    BY <1>1, <1>4, <2>1 DEF ProvePassword, Drop
<1>5. CASE Store(r)
  <2>1. /\ UNCHANGED <<real, born, issued, inbox, uidNext, worker, tickets, leftover, misplaced>>
        /\ pc[r] = "put" /\ raced \subseteq raced' /\ (Settled(b)' => Settled(b))
        /\ Deleting(b)' => Deleting(b)
    BY <1>0, <1>5 DEF Store, Settled, Goto, Deleting
  <2>2. CASE ~ (job[r].kind = "register" /\ job[r].box = b)
    <3>1. intake'[b] = intake[b]
      BY <1>5, <2>2 DEF Store, AllTyped, IntakeTyped
    <3> QED
      BY <2>1, <3>1, FollowedStill DEF Followed, Ordered
  <2>3. CASE job[r].kind = "register" /\ job[r].box = b
    <3>1. intake'[b] = Registered(b, job[r].pass)
      BY <1>5, <2>3 DEF Store, AllTyped, IntakeTyped
    <3>2. ASSUME b \notin raced' PROVE ~Deleting(b) /\ ~Deleting(b)'
      BY <1>5, <2>1, <2>3, <3>2 DEF Store
    <3>3. ASSUME Settled(b)' PROVE Passed(b, intake'[b])
      <4>1. ~Deleting(b) /\ Settled(b) /\ b \notin raced /\ b \notin leftover
        BY <2>1, <3>2, <3>3 DEF Settled
      <4>2. CASE intake[b] = NoRow
        <5>1. intake'[b].cursor = 0
          BY <3>1, <4>2 DEF Registered
        <5>2. uidNext[b] \in Nat \ {0} /\ \A u \in inbox[b] : u \in Nat \ {0}
          BY DEF AllTyped, MailboxesTyped, Uids
        <5> QED
          BY <5>1, <5>2 DEF Passed
      <4>3. CASE intake[b] # NoRow
        <5>1. Standing(b, intake[b].pass) /\ Passed(b, intake[b]) /\ intake[b] \in IntakeRows
          BY <4>1, <4>3 DEF Forgotten, Remembered, Followed, AllTyped, IntakeTyped
        <5>2. born[b] \in Int /\ intake[b].pass \in Int
          BY <1>0, <5>1 DEF AllTyped, MailboxesTyped, IntakeRows
        <5>3. intake'[b].cursor = intake[b].cursor
          BY <3>1, <4>3, <5>1 DEF Registered, IntakeRows
        <5> QED
          BY <5>1, <5>2, <5>3 DEF Passed, Standing
      <4> QED
        BY <4>2, <4>3
    <3> QED
      BY <2>1, <3>2, <3>3, FollowedStill DEF Followed, Ordered
  <2> QED
    BY <2>2, <2>3
<1>6. CASE Delete(r)
  <2>1. /\ UNCHANGED <<born, uidNext, intake, worker, tickets, misplaced>>
        /\ raced \subseteq raced' /\ leftover \subseteq leftover'
    BY <1>6 DEF Delete
  <2>2. /\ inbox'[b] \subseteq inbox[b] /\ (real'[b] = 0 => inbox'[b] = {})
        /\ real[b] = 0 => real'[b] = 0
    BY <1>0, <1>6 DEF Delete, Followed, Ordered
  <2>3. Settled(b)' => Settled(b)
    BY <2>1 DEF Settled
  <2>4. Deleting(b)' => Deleting(b) \/ real'[b] = 0
    BY <1>0, <1>6 DEF Delete, Goto, Deleting
  <2>5. intake'[b] # NoRow => intake[b] # NoRow /\ intake'[b].pass = intake[b].pass
    BY <2>1
  <2>6. Settled(b)' => (intake'[b] # NoRow => Passed(b, intake'[b]))
    BY <2>1, <2>3 DEF Followed
  <2> QED
    BY <2>1, <2>2, <2>3, <2>4, <2>5, <2>6, FollowedStill
<1>7. CASE Forget(r)
  <2>1. /\ UNCHANGED <<real, born, issued, inbox, uidNext, worker, tickets, raced>>
        /\ intake'[b] = intake[b] \/ intake'[b] = NoRow
        /\ pc[r] = "forget" /\ Goto(r, "done")
    BY <1>7 DEF Forget, AllTyped, IntakeTyped
  <2>2. Deleting(b)' => Deleting(b)
    BY <1>0, <2>1 DEF Goto, Deleting
  <2>3. ASSUME Settled(b)' PROVE Settled(b) \/ Lapsed(b)
    <3>1. CASE job[r].box = b
      <4>1. Deleting(b) /\ b \notin raced
        BY <2>1, <2>3, <3>1 DEF Deleting, Settled
      <4> QED
        BY <4>1 DEF Followed
    <3>2. CASE job[r].box # b
      BY <1>7, <2>3, <3>2 DEF Forget, Settled
    <3> QED
      BY <3>1, <3>2
  <2>4. Settled(b)' => (intake'[b] # NoRow => Passed(b, intake'[b]))
    BY <2>1, <2>3, LapsedFollows DEF Followed
  <2> QED
    BY <2>1, <2>2, <2>3, <2>4, FollowedStill DEF Followed, Ordered
<1> QED
  BY <1>3, <1>4, <1>5, <1>6, <1>7 DEF Step

(* The world keeps it: a letter that arrives has a greater UID, a mailbox  *)
(* that is created a newer password than every row.                        *)
LEMMA WorldFollowed ==
  ASSUME AllTyped, World, NEW b \in Managed, Followed(b)
  PROVE  Followed(b)'
<1> USE DEF bindings, history
<1>0. /\ real \in [AllBoxes -> 0..issued] /\ born \in [AllBoxes -> 0..issued]
      /\ issued \in Nat \ {0} /\ b \in AllBoxes
      /\ inbox \in [Managed -> SUBSET Uids] /\ uidNext \in [Managed -> 1..(MaxUid + 1)]
      /\ \A u \in Uids : u \in Nat /\ u > 0
  BY DEF AllTyped, MailboxesTyped, AllBoxes, Uids
<1>1. /\ intake[b] # NoRow => intake[b].pass \in 1..issued /\ intake[b].cursor \in Nat
      /\ \A entry \in worker.rows : entry[2].pass \in 1..issued /\ entry[2].cursor \in Nat
      /\ worker.born \in 0..issued /\ worker.uids \subseteq Uids
  BY DEF AllTyped, IntakeTyped, IntakeRows, WorkerTyped, WorkerRec
<1>9. ASSUME UNCHANGED <<pc, job, history>>
      PROVE  (Deleting(b)' <=> Deleting(b)) /\ (Settled(b)' <=> Settled(b))
  BY <1>9 DEF Deleting, Settled, Here
<1>10. ASSUME UNCHANGED <<intake, worker, tickets, pc, job, history>>,
              born'[b] = born[b], uidNext'[b] = uidNext[b], inbox'[b] \subseteq inbox[b],
              (real'[b] = 0) <=> (real[b] = 0)
       PROVE  Followed(b)'
  <2>1. /\ Deleting(b)' => Deleting(b)
        /\ Settled(b)' => Settled(b)
        /\ real'[b] = 0 => inbox'[b] = {}
    BY <1>9, <1>10 DEF Followed, Ordered
  <2> QED
    BY <1>10, <2>1, FollowedStill DEF Followed
<1>2. ASSUME NEW c \in Managed, Arrive(c) PROVE Followed(b)'
  <2>1. UNCHANGED <<real, born, intake, worker, tickets, pc, job, history>>
    BY <1>2 DEF Arrive
  <2>2. CASE c # b
    <3>1. inbox'[b] = inbox[b] /\ uidNext'[b] = uidNext[b]
      BY <1>0, <1>2, <2>2 DEF Arrive
    <3> QED
      BY <1>10, <2>1, <3>1
  <2>3. CASE c = b
    <3>1. /\ inbox'[b] = inbox[b] \cup {uidNext[b]} /\ uidNext'[b] = uidNext[b] + 1
          /\ real[b] # 0 /\ uidNext[b] \in Nat
      BY <1>0, <1>2, <2>3 DEF Arrive
    <3>2. Ordered(b)'
      BY <1>0, <2>1, <3>1 DEF Followed, Ordered
    <3>3. \A row : row.cursor \in Nat /\ Passed(b, row) => Passed(b, row)'
      BY <2>1, <3>1 DEF Passed, Handed
    <3>4. Held(b) => Held(b)'
      <4> SUFFICES ASSUME Held(b), Holding, worker.box = b, worker.born = born[b] PROVE Held(b)'
        BY <2>1 DEF Held, Holding
      <4>1. \A u \in worker.uids : u < uidNext[b] /\ u < uidNext'[b]
        BY <1>0, <1>1, <3>1 DEF Held
      <4> QED
        BY <2>1, <3>1, <4>1 DEF Held, Holding, Handed
    <3>5. Lapsed(b) => Lapsed(b)'
      BY <2>1, <3>1 DEF Lapsed, Holding
    <3>6. (Deleting(b)' => Deleting(b)) /\ (Settled(b)' => Settled(b))
      BY <1>9, <2>1
    <3> QED
      BY <1>1, <2>1, <3>2, <3>3, <3>4, <3>5, <3>6 DEF Followed
  <2> QED
    BY <2>2, <2>3
<1>3. ASSUME NEW c \in Managed, Expunge(c) PROVE Followed(b)'
  <2>1. /\ UNCHANGED <<real, born, uidNext, intake, worker, tickets, pc, job, history>>
        /\ inbox'[b] \subseteq inbox[b]
    BY <1>0, <1>3 DEF Expunge
  <2> QED
    BY <1>10, <2>1
<1>4. ASSUME NEW c \in Changing, SetPassword(c) PROVE Followed(b)'
  <2>1. /\ UNCHANGED <<born, inbox, uidNext, intake, worker, tickets, pc, job, history>>
        /\ (real'[b] = 0) <=> (real[b] = 0)
    BY <1>0, <1>4 DEF SetPassword
  <2> QED
    BY <1>10, <2>1
<1>5. ASSUME NEW c \in Managed, Create(c) PROVE Followed(b)'
  <2>1. UNCHANGED <<inbox, intake, worker, tickets, pc, job, history>>
    BY <1>5 DEF Create
  <2>2. CASE c # b
    <3>1. real'[b] = real[b] /\ born'[b] = born[b] /\ uidNext'[b] = uidNext[b]
      BY <1>0, <1>5, <2>2 DEF Create
    <3> QED
      BY <1>10, <2>1, <3>1
  <2>3. CASE c = b
    <3>1. inbox[b] = {} /\ born'[b] = issued + 1
      BY <1>0, <1>5, <2>3 DEF Create, Followed, Ordered
    <3>2. \A row : row.pass \in 1..issued => Passed(b, row)'
      BY <1>0, <3>1 DEF Passed
    <3>3. worker.born # born'[b]
      BY <1>0, <1>1, <3>1
    <3>4. Lapsed(b)'
      BY <1>0, <1>1, <2>1, <3>1, <3>3 DEF Lapsed
    <3>5. Ordered(b)'
      BY <2>1, <3>1 DEF Ordered
    <3>6. Held(b)'
      BY <2>1, <3>3 DEF Held
    <3> QED
      BY <1>1, <2>1, <3>2, <3>4, <3>5, <3>6 DEF Followed
  <2> QED
    BY <2>2, <2>3
<1>6. CASE RestartServer
  <2>1. /\ UNCHANGED <<real, born, inbox, uidNext, tickets>> /\ raced \subseteq raced'
        /\ worker' = Idle /\ intake'[b] \in Joined(b)
    BY <1>6 DEF RestartServer, mailboxes
  <2>2. worker'.at = "rest" /\ worker'.rows = {}
    BY <2>1 DEF Idle
  <2>3. intake'[b] = intake[b] \/ intake'[b].cursor = 0
    BY <2>1 DEF Joined
  <2>4. \A row : row.cursor = 0 => Passed(b, row)
    BY <1>0 DEF Passed
  <2>5. ~Deleting(b)' /\ (Settled(b)' => Settled(b)) /\ Ordered(b)'
    BY <1>6, <2>1 DEF RestartServer, Deleting, Here, Settled, Followed, Ordered
  <2>6. Held(b)'
    BY <2>2 DEF Held, Holding
  <2>7. ASSUME Settled(b)', intake'[b] # NoRow PROVE Passed(b, intake'[b])
    BY <2>3, <2>4, <2>5, <2>7 DEF Followed
  <2>8. ASSUME Settled(b)', intake'[b] # NoRow PROVE Passed(b, intake[b])'
    BY <2>1, <2>7, <2>8 DEF Passed, Handed
  <2> QED
    BY <2>2, <2>5, <2>6, <2>8 DEF Followed
<1> QED
  BY <1>2, <1>3, <1>4, <1>5, <1>6 DEF World


(* The cursor of a row, as Start and Save set it. *)
LEMMA CursorSet ==
  ASSUME AllTyped, NEW b \in Managed, NEW c \in Managed, NEW u,
         intake' = Cursor(c, u)
  PROVE  /\ c # b => intake'[b] = intake[b]
         /\ c = b /\ intake[b] = NoRow => intake'[b] = intake[b]
         /\ c = b /\ intake[b] # NoRow => intake'[b].cursor = u
<1>1. CASE intake[c] = NoRow \/ c # b
  BY <1>1 DEF Cursor, AllTyped, IntakeTyped
<1>2. CASE intake[c] # NoRow /\ c = b
  <2>1. intake[b] \in IntakeRows
    BY <1>2 DEF AllTyped, IntakeTyped
  <2>2. intake'[b] = [intake[b] EXCEPT !.cursor = u, !.first = FALSE]
    BY <1>2, <2>1 DEF Cursor, AllTyped, IntakeTyped, IntakeRows
  <2>3. intake'[b].cursor = u
    BY <2>1, <2>2 DEF IntakeRows
  <2> QED
    BY <1>2, <2>3
<1> QED
  BY <1>1, <1>2

(* The worker opens no mailbox with a password older than it. *)
LEMMA WorkerLapsed ==
  ASSUME AllTyped, Worker, NEW b \in Managed, Forgotten(b), Lapsed(b)
  PROVE  Lapsed(b)'
<1>1. UNCHANGED <<real, born>> /\ worker \in WorkerRec
  BY DEF Worker, SelectRows, Visit, Start, Post, Save, EndRound, others, mailboxes,
         AllTyped, WorkerTyped
<1>2. SUFFICES ASSUME real[b] # 0 PROVE Lapsed(b)'
  BY <1>1 DEF Lapsed
<1>3. /\ intake[b] # NoRow => intake[b].pass < born[b]
      /\ \A entry \in worker.rows : entry[1] = b => entry[2].pass < born[b]
      /\ Holding => worker.box # b \/ worker.born # born[b]
  BY <1>2 DEF Lapsed
<1>4. intake'[b] # NoRow => intake'[b].pass < born'[b]
  BY <1>1, <1>3, RowsKept
<1>5. /\ \A entry \in worker'.rows : entry[1] = b => entry[2].pass < born[b]
      /\ Holding' => worker'.box # b \/ worker'.born # born[b]
  <2>1. CASE SelectRows
    <3>1. worker'.at = "pick"
          /\ worker'.rows = {<<m, intake[m]>> : m \in {n \in Managed : intake[n] # NoRow}}
      BY <2>1 DEF SelectRows, Idle
    <3> QED
      BY <1>3, <3>1 DEF Holding
  <2>2. ASSUME NEW entry \in worker.rows, Visit(entry)
        PROVE  /\ worker'.rows \subseteq worker.rows
               /\ Holding' => worker'.box # b \/ worker'.born # born[b]
    <3>1. CASE real[entry[1]] # entry[2].pass
      BY <1>1, <1>3, <2>2, <3>1 DEF Visit, WorkerRec, Holding
    <3>2. CASE real[entry[1]] = entry[2].pass
      <4>1. worker'.rows \subseteq worker.rows /\ worker'.box = entry[1]
        BY <1>1, <2>2, <3>2 DEF Visit, WorkerRec
      <4>2. entry[1] # b
        <5>1. real[b] \in Nat /\ born[b] \in Nat /\ real[b] >= born[b]
          BY <1>2 DEF AllTyped, MailboxesTyped, AllBoxes, Forgotten
        <5> QED
          BY <1>3, <3>2, <5>1
      <4> QED
        BY <4>1, <4>2
    <3> QED
      BY <3>1, <3>2
  <2>3. CASE Start \/ Post \/ Save
    <3>1. /\ worker'.rows = worker.rows /\ worker'.box = worker.box
          /\ worker'.born = worker.born /\ Holding
      BY <1>1, <2>3 DEF Start, Post, Save, WorkerRec, Holding
    <3> QED
      BY <1>3, <3>1
  <2>4. CASE EndRound
    BY <2>4 DEF EndRound, Idle, Holding
  <2> QED
    BY <1>3, <2>1, <2>2, <2>3, <2>4 DEF Worker
<1> QED
  BY <1>1, <1>4, <1>5 DEF Lapsed

(* The worker keeps it: a visit with the password in force finds what the  *)
(* cursor has not passed, and the cursor follows the letters in order.     *)
LEMMA WorkerFollowed ==
  ASSUME AllTyped, Worker,
         NEW b \in Managed, Followed(b), Forgotten(b)
  PROVE  Followed(b)'
<1>0. /\ UNCHANGED <<real, born, inbox, uidNext, pc, job, raced, leftover>>
      /\ tickets \subseteq tickets' /\ Ordered(b)' /\ misplaced \subseteq misplaced'
      /\ Deleting(b)' <=> Deleting(b)
  BY DEF Worker, SelectRows, Visit, Start, Post, Misplace, history, Deleting, Here,
     Save, EndRound, others, mailboxes, Followed, Ordered
<1>1. /\ worker \in WorkerRec /\ worker.uids \in SUBSET Uids
      /\ inbox[b] \in SUBSET Uids /\ uidNext[b] \in Nat \ {0}
      /\ born[b] \in Nat /\ b \in AllBoxes
      /\ \A u \in Uids : u \in Nat \ {0}
  BY DEF AllTyped, WorkerTyped, WorkerRec, MailboxesTyped, Uids, AllBoxes
<1>2. \A row : Passed(b, row) => Passed(b, row)'
  BY <1>0 DEF Passed, Handed
<1>3. PICK old, new : old = intake[b] /\ new = intake'[b]
  OBVIOUS
<1>14. ASSUME b \notin raced', Deleting(b)' PROVE Lapsed(b)'
  <2>1. Lapsed(b)
    BY <1>0, <1>14 DEF Followed
  <2> QED
    BY <1>0, <1>14, <2>1, WorkerLapsed
<1>15. CASE real[b] = 0
  BY <1>0, <1>14, <1>15 DEF Followed, Passed, Held
<1>4. SUFFICES ASSUME Settled(b)', Settled(b), b \notin raced, real[b] # 0
      PROVE  /\ intake'[b] # NoRow => Passed(b, new)'
             /\ \A entry \in worker'.rows : entry[1] = b => Passed(b, entry[2])'
             /\ Held(b)'
  BY <1>0, <1>3, <1>14, <1>15 DEF Followed, Settled
<1>11. /\ intake[b] # NoRow => Passed(b, old)'
       /\ \A entry \in worker.rows : entry[1] = b => Passed(b, entry[2])'
       /\ Held(b)
  BY <1>2, <1>3, <1>4 DEF Followed
<1>12. ASSUME worker.at \in {"start", "post", "save"}, worker.box = b, worker.born = born[b]
      PROVE  /\ \A u \in worker.uids : u < uidNext[b]
             /\ worker.at # "start" =>
                  \A v \in inbox[b] :
                    Handed(b, v) \/ v \in worker.uids \/ \A u \in worker.uids : u < v
             /\ worker.at = "save" => Handed(b, Min(worker.uids))
  <2>1. Holding /\ Held(b)
    BY <1>11, <1>12 DEF Holding
  <2> QED
    BY <1>4, <1>12, <2>1 DEF Held
<1>13. \A v : Handed(b, v) => Handed(b, v)'
  BY <1>0 DEF Handed
<1>5. CASE SelectRows
  <2>1. /\ worker' = [Idle EXCEPT !.at = "pick",
                        !.rows = {<<m, intake[m]>> : m \in {n \in Managed : intake[n] # NoRow}}]
        /\ UNCHANGED intake
    BY <1>5 DEF SelectRows
  <2>2. /\ worker'.at = "pick"
        /\ worker'.rows = {<<m, intake[m]>> : m \in {n \in Managed : intake[n] # NoRow}}
    BY <2>1 DEF Idle
  <2>3. \A entry \in worker'.rows : entry[1] = b => intake[b] # NoRow /\ entry[2] = intake[b]
    BY <2>2
  <2> QED
    BY <1>3, <1>11, <2>1, <2>2, <2>3 DEF Held, Holding
<1>6. ASSUME NEW entry \in worker.rows, Visit(entry)
      PROVE  /\ intake'[b] # NoRow => Passed(b, new)'
             /\ \A e \in worker'.rows : e[1] = b => Passed(b, e[2])'
             /\ Held(b)'
  <2> DEFINE row == entry[2]
             found == Found(entry[1], row.cursor)
  <2>1. UNCHANGED <<intake, tickets>> /\ entry[1] \in Managed /\ row \in IntakeRows
    BY <1>1, <1>6 DEF Visit, WorkerRec
  <2>2. CASE worker' = [worker EXCEPT !.rows = @ \ {entry}] /\ worker.at = "pick"
    <3>1. worker'.at = "pick" /\ worker'.rows \subseteq worker.rows
      BY <1>1, <2>2 DEF WorkerRec
    <3> QED
      BY <1>3, <1>11, <2>1, <3>1 DEF Held, Holding
  <2>3. ASSUME NEW place \in {"start", "post"}, real[entry[1]] = row.pass,
               worker' = [worker EXCEPT !.rows = @ \ {entry}, !.at = place, !.box = entry[1],
                            !.born = born[entry[1]], !.uids = found, !.left = Batch]
        PROVE  /\ \A e \in worker'.rows : e[1] = b => Passed(b, e[2])'
               /\ Held(b)'
    <3>1. /\ worker'.rows \subseteq worker.rows /\ worker'.at = place /\ worker'.box = entry[1]
          /\ worker'.uids = found
      BY <1>1, <2>3 DEF WorkerRec
    <3>2. ASSUME entry[1] = b
          PROVE  /\ \A u \in found : u < uidNext[b]
                 /\ \A v \in inbox[b] :
                      Handed(b, v) \/ v \in found \/ \A u \in found : u < v
      <4>1. found \subseteq inbox[b]
        BY <2>1, <3>2, FoundLetters DEF AllTyped, IntakeRows
      <4>2. \A u \in found : u < uidNext[b]
        BY <4>1 DEF Followed, Ordered
      <4>3. Passed(b, row) /\ row.pass \in Nat \ {0} /\ row.cursor \in Nat
        BY <1>3, <1>4, <2>1, <3>2 DEF Followed, IntakeRows
      <4>4. real[b] = row.pass /\ row.pass >= born[b]
        BY <2>3, <3>2, <4>3 DEF Forgotten
      <4>5. \A u \in inbox[b] : u <= row.cursor => Handed(b, u)
        BY <1>1, <4>3, <4>4 DEF Passed
      <4>6. ASSUME NEW v \in inbox[b], v > row.cursor PROVE v \in found
        BY <1>1, <3>2, <4>6 DEF Found
      <4>7. \A v \in inbox[b] : v > row.cursor \/ v <= row.cursor
        BY <1>1, <4>3
      <4> QED
        BY <4>2, <4>5, <4>6, <4>7
    <3>3. Held(b)'
      <4> SUFFICES ASSUME worker'.box = b PROVE Held(b)'
        BY DEF Held
      <4>1. entry[1] = b
        BY <3>1
      <4> QED
        BY <1>0, <2>1, <3>1, <3>2, <4>1 DEF Held, Handed
    <3> QED
      BY <1>3, <1>11, <3>1, <3>3
  <2>4. \/ worker' = [worker EXCEPT !.rows = @ \ {entry}] /\ worker.at = "pick"
        \/ real[entry[1]] = row.pass /\ \E place \in {"start", "post"} :
             worker' = [worker EXCEPT !.rows = @ \ {entry}, !.at = place, !.box = entry[1],
                          !.born = born[entry[1]], !.uids = found, !.left = Batch]
    BY <1>6 DEF Visit
  <2> HIDE DEF found, row
  <2> QED
    BY <1>3, <1>11, <2>1, <2>2, <2>3, <2>4
<1>7. CASE Start
  <2> DEFINE uid == IF worker.uids = {} THEN 0 ELSE Max(worker.uids)
  <2>1. /\ intake' = Cursor(worker.box, uid) /\ worker.box \in Managed
        /\ tickets' = tickets \cup {<<worker.box, worker.born, u>> : u \in 1..uid}
        /\ worker' = [worker EXCEPT !.at = "pick"] /\ worker.at = "start"
        /\ Misplace(worker.box)
    BY <1>7 DEF Start, AllTyped, WorkerTyped
  <2>2. worker'.at = "pick" /\ worker'.rows = worker.rows
    BY <1>1, <2>1 DEF WorkerRec
  <2>3. ASSUME worker.box = b, intake[b] # NoRow PROVE Passed(b, new)'
    <3>1. worker.born = born[b] /\ intake'[b].cursor = uid
      BY <1>3, <1>4, <2>1, <2>3, CursorSet DEF Misplace, Settled
    <3>2. uid \in Nat /\ uid < uidNext[b]
      <4>1. CASE worker.uids = {}
        BY <1>1, <4>1
      <4>2. CASE worker.uids # {}
        <5>1. uid = Max(worker.uids) /\ Max(worker.uids) \in worker.uids
          BY <1>1, <4>2, LeastUid
        <5>2. \A u \in worker.uids : u < uidNext[b]
          BY <1>12, <2>1, <2>3, <3>1
        <5> QED
          BY <1>1, <5>1, <5>2
      <4> QED
        BY <4>1, <4>2
    <3>3. \A u \in inbox[b] : u <= uid => u \in 1..uid
      BY <1>1, <3>2
    <3>4. \A u \in 1..uid : <<b, born[b], u>> \in tickets'
      BY <2>1, <2>3, <3>1
    <3> HIDE DEF uid
    <3>5. new.cursor = uid /\ uidNext'[b] = uidNext[b] /\ born'[b] = born[b] /\ inbox' = inbox
      BY <1>0, <1>3, <3>1
    <3>6. \A u \in inbox[b] : u <= uid => Handed(b, u)'
      BY <3>3, <3>4, <3>5 DEF Handed
    <3> QED
      BY <3>2, <3>5, <3>6 DEF Passed
  <2>4. intake'[b] # NoRow => Passed(b, new)'
    BY <1>3, <1>11, <2>1, <2>3, CursorSet
  <2> QED
    BY <1>3, <1>11, <2>2, <2>4 DEF Held, Holding
<1>8. CASE Post
  <2>1. UNCHANGED intake /\ worker.at = "post"
    BY <1>8 DEF Post
  <2>2. CASE worker' = [worker EXCEPT !.at = "pick"]
    <3>1. worker'.at = "pick" /\ worker'.rows = worker.rows
      BY <1>1, <2>2 DEF WorkerRec
    <3> QED
      BY <1>3, <1>11, <2>1, <3>1 DEF Held, Holding
  <2>3. CASE /\ worker' = [worker EXCEPT !.at = "save"]
             /\ tickets' = tickets \cup {<<worker.box, worker.born, Min(worker.uids)>>}
    <3>1. /\ worker'.at = "save" /\ worker'.rows = worker.rows /\ worker'.box = worker.box
          /\ worker'.born = worker.born /\ worker'.uids = worker.uids
      BY <1>1, <2>3 DEF WorkerRec
    <3>2. Held(b)'
      <4> SUFFICES ASSUME worker'.box = b, worker'.born = born'[b]
                   PROVE  /\ \A u \in worker'.uids : u < uidNext'[b]
                          /\ \A v \in inbox'[b] :
                               Handed(b, v)' \/ v \in worker'.uids \/ \A u \in worker'.uids : u < v
                          /\ Handed(b, Min(worker.uids))'
        BY <3>1 DEF Held
      <4>1. worker.box = b /\ worker.born = born[b] /\ uidNext' = uidNext /\ inbox' = inbox
        BY <1>0, <3>1
      <4>2. Handed(b, Min(worker.uids))'
        BY <1>0, <2>3, <4>1 DEF Handed
      <4> QED
        BY <1>12, <1>13, <2>1, <3>1, <4>1, <4>2
    <3> QED
      BY <1>3, <1>11, <2>1, <3>1, <3>2
  <2> QED
    BY <1>8, <2>2, <2>3 DEF Post
<1>9. CASE Save
  <2>1. /\ worker.uids # {} /\ worker.box \in Managed /\ worker.left # 0 /\ Batch \in Nat
        /\ worker.at = "save" /\ UNCHANGED tickets
        /\ intake' = Cursor(worker.box, Min(worker.uids))
        /\ Misplace(worker.box)
    BY <1>9, BindingsAssumption DEF Save, AllTyped, WorkerTyped
  <2>2. PICK u \in worker.uids :
          /\ u = Min(worker.uids)
          /\ \A v \in worker.uids : u <= v
    BY <1>1, <2>1, LeastUid
  <2>3. /\ worker'.at = "post" /\ worker'.rows = worker.rows /\ worker'.box = worker.box
        /\ worker'.born = worker.born /\ worker'.uids = worker.uids \ {u}
    BY <1>1, <1>9, <2>2 DEF Save, WorkerRec
  <2>4. ASSUME worker.box = b, worker.born = born[b]
        PROVE  /\ u < uidNext[b] /\ \A v \in inbox[b] : v <= u => Handed(b, v)
               /\ \A v \in inbox[b] :
                    Handed(b, v) \/ v \in worker.uids \ {u} \/ \A w \in worker.uids \ {u} : w < v
    <3>1. /\ \A v \in worker.uids : v < uidNext[b]
          /\ \A v \in inbox[b] :
               Handed(b, v) \/ v \in worker.uids \/ \A w \in worker.uids : w < v
          /\ Handed(b, u)
      BY <1>12, <2>1, <2>2, <2>4
    <3>2. u \in Nat /\ \A v \in inbox[b] : v \in Nat /\ \A w \in worker.uids : w \in Nat
      BY <1>1
    <3>3. ASSUME NEW v \in inbox[b], v <= u PROVE Handed(b, v)
      BY <2>2, <3>1, <3>2, <3>3
    <3> QED
      BY <3>1, <3>3
  <2>5. Held(b)'
    <3> SUFFICES ASSUME worker'.box = b, worker'.born = born'[b]
                 PROVE  /\ \A v \in worker'.uids : v < uidNext'[b]
                        /\ \A v \in inbox'[b] :
                             Handed(b, v)' \/ v \in worker'.uids \/ \A w \in worker'.uids : w < v
      BY <2>3 DEF Held
    <3>1. worker.box = b /\ worker.born = born[b] /\ uidNext' = uidNext /\ inbox' = inbox
      BY <1>0, <2>3
    <3>2. \A v \in worker.uids : v < uidNext[b]
      BY <1>12, <2>1, <3>1
    <3> QED
      BY <1>13, <2>3, <2>4, <3>1, <3>2
  <2>6. ASSUME worker.box = b, intake[b] # NoRow PROVE Passed(b, new)'
    <3>1. worker.born = born[b] /\ intake'[b].cursor = u
      BY <1>3, <1>4, <2>1, <2>2, <2>6, CursorSet DEF Misplace, Settled
    <3>2. new.cursor = u /\ uidNext' = uidNext /\ inbox' = inbox
      BY <1>0, <1>3, <3>1
    <3> QED
      BY <1>13, <2>4, <2>6, <3>1, <3>2 DEF Passed
  <2>7. intake'[b] # NoRow => Passed(b, new)'
    BY <1>3, <1>11, <2>1, <2>6, CursorSet
  <2> QED
    BY <1>3, <1>11, <2>3, <2>5, <2>7
<1>10. CASE EndRound
  BY <1>3, <1>11, <1>10 DEF EndRound, Idle, Held, Holding
<1> QED
  BY <1>5, <1>6, <1>7, <1>8, <1>9, <1>10 DEF Worker

(* The cursor passes no letter by, in every row and every copy of one.     *)
LEMMA FollowedHolds == BindingsSpec => [](\A b \in Managed : Followed(b))
<1>1. BindingsInit => \A b \in Managed : Followed(b)
  <2> SUFFICES ASSUME BindingsInit, NEW b \in Managed PROVE Followed(b)
    OBVIOUS
  <2>1. b \in AllBoxes
    BY DEF AllBoxes
  <2>2. /\ real[b] = 1 /\ intake[b] = NoRow /\ inbox[b] = {1} /\ uidNext[b] = 2
        /\ worker.rows = {} /\ worker.at = "rest"
    BY <2>1 DEF BindingsInit, Idle
  <2> QED
    BY <2>1, <2>2 DEF BindingsInit, Followed, Ordered, Held, Holding, Deleting, Here
<1>2. AllTyped /\ (\A b \in Managed : Forgotten(b)) /\ (\A b \in Managed : Followed(b))
        /\ [BindingsNext]_bindingsVars
        => (\A b \in Managed : Followed(b))'
  <2> SUFFICES ASSUME AllTyped, \A b \in Managed : Forgotten(b), \A b \in Managed : Followed(b),
                      [BindingsNext]_bindingsVars, NEW b \in Managed
               PROVE  Followed(b)'
    OBVIOUS
  <2>1. CASE UNCHANGED bindingsVars
    BY <2>1, FollowedStill DEF bindingsVars, mailboxes, bindings, history, Followed,
       Ordered, Settled, Deleting, Here
  <2> QED
    BY <2>1, RequestFollowed, WorkerFollowed, WorldFollowed DEF BindingsNext
<1> QED
  BY <1>1, <1>2, AllTypedHolds, ForgottenHolds, PTL DEF BindingsSpec

(* Mailboxes, tables, requests and the worker's copies keep their shape.   *)
THEOREM BindingsTypeCorrect == BindingsSpec => []BindingsTypeOK
<1>1. AllTyped => BindingsTypeOK
  BY AllTypedIsTypeOK
<1> QED
  BY <1>1, AllTypedHolds, PTL

(* The mailbox the cabinet shows for a person is the one that the sign-in  *)
(* of each of the person's subjects opens: _sso_bindings_status names one  *)
(* only when the rows of all subjects can be read and agree.               *)
THEOREM ShownMailboxOpens == BindingsSpec => []ShownIsOpened
<1>1. ShownIsOpened
  <2> SUFFICES ASSUME NEW S \in SUBSET Identities, Status(S) # NoBox, NEW s \in S
      PROVE  Lookup(s) = Status(S)
    BY DEF ShownIsOpened
  <2>1. /\ \A t \in S : external[t] # NoRow /\ external[t].ok
        /\ \A t, v \in S : external[t] = external[v]
        /\ Status(S) = external[CHOOSE t \in S : TRUE].box
    BY DEF Status
  <2>2. (CHOOSE t \in S : TRUE) \in S
    OBVIOUS
  <2>3. Lookup(s) = external[s].box
    BY <2>1 DEF Lookup
  <2> QED
    BY <2>1, <2>2, <2>3
<1> QED
  BY <1>1, PTL

(* Nothing stored for a managed mailbox outlives an account deleted        *)
(* through /api/admin/delete_account, but where the deletion met a fault,  *)
(* a restart, a password proven before it or a registration stored while   *)
(* it ran.  Nothing is said of a mailbox whose rows a deletion of the      *)
(* portal, or of a managed address, left behind: those deletions drop      *)
(* nothing, and the rows stay until they are dropped after all.            *)
THEOREM StoredIsForgotten == BindingsSpec => []DeletedAreForgotten
<1>1. (\A b \in Managed : Forgotten(b)) => DeletedAreForgotten
  BY DEF Forgotten, Remembered, Standing, DeletedAreForgotten
<1> QED
  BY <1>1, ForgottenHolds, PTL

(* The cursor of the ticket intake passes no letter by, through lost       *)
(* answers, restarts, new passwords, deletions and re-creations of the     *)
(* mailbox, and with the worker's copies of rows that have changed since.  *)
(* It does pass letters by, and nothing is said, where a deletion left the *)
(* row to the next mailbox of that name, or the worker on its visit to the *)
(* mailbox deleted wrote that one's cursor into the row of the next.       *)
THEOREM LettersAreNotSkipped == BindingsSpec => []NothingSkipped
<1>1. AllTyped /\ (\A b \in Managed : Forgotten(b)) /\ (\A b \in Managed : Followed(b))
        => NothingSkipped
  <2> SUFFICES ASSUME AllTyped, \A b \in Managed : Forgotten(b), \A b \in Managed : Followed(b),
                      NEW b \in Managed, Settled(b), intake[b] # NoRow, ~Deleting(b),
                      NEW u \in inbox[b], u <= intake[b].cursor
               PROVE  <<b, born[b], u>> \in tickets
    BY DEF NothingSkipped
  <2>1. Standing(b, intake[b].pass) /\ Passed(b, intake[b])
    BY DEF Settled, Forgotten, Remembered, Followed
  <2>2. intake[b].pass \in Nat /\ born[b] \in Nat
    BY DEF AllTyped, IntakeTyped, IntakeRows, MailboxesTyped, AllBoxes
  <2> QED
    BY <2>1, <2>2 DEF Standing, Passed, Handed
<1> QED
  BY <1>1, AllTypedHolds, ForgottenHolds, FollowedHolds, PTL
=============================================================================
