-------------------------- MODULE MailboxBindings --------------------------
(***************************************************************************)
(* Mailbox passwords the server keeps for others to use: the bindings of   *)
(* the central sign-in (which subject may open which mailbox) and the      *)
(* mailboxes whose letters the worker hands to the ticket service.         *)
(*                                                                         *)
(* A binding of a managed mailbox and one of an external mailbox are rows  *)
(* of two tables; the sign-in prefers the external one.  Rows are written  *)
(* after the password was tried on the mailbox, in a step of its own.      *)
(* The deletion of an account asks the control plane first and drops what  *)
(* is stored for the mailbox afterwards.  The administration portal and    *)
(* the deletion of a managed address drop nothing: what is stored for the  *)
(* mailbox stays, and is there for the next one of that name.  A start of  *)
(* the server takes every bound managed mailbox into the ticket intake.    *)
(*                                                                         *)
(* Passwords are numbered in the order in which they were set, so that     *)
(* those of a mailbox that was deleted and created again are told apart.   *)
(* A row may be unreadable (encrypted with a key the server has no longer).*)
(* The ticket service knows a letter it has seen; "tickets" is a set.      *)
(***************************************************************************)
EXTENDS Integers, FiniteSets, FiniteSetsExt

CONSTANTS
  Identities, \* subjects of the central sign-in
  Managed,    \* mailboxes of this server
  External,   \* mailboxes elsewhere
  ProviderOf, \* the mail service of an external mailbox
  Calls,      \* HTTP requests, each with one change
  NoRow,
  NoBox,
  Asks,       \* bound: the kinds of request a request may be
  Changing,   \* bound: the mailboxes whose password is changed
  Batch,      \* letters handed over in one visit
  MaxPass,    \* bound: passwords ever set
  MaxUid,     \* bound: letters of one mailbox
  MaxFaults   \* bound: failing calls, and restarts

AllBoxes == Managed \cup External

ASSUME BindingsAssumption ==
  /\ Managed \cap External = {} /\ Changing \subseteq AllBoxes /\ NoBox \notin AllBoxes
  /\ Batch \in Nat \ {0} /\ MaxPass \in Nat \ {0} /\ MaxUid \in Nat \ {0} /\ MaxFaults \in Nat

VARIABLES
  real,       \* the password in force, 0 without account
  born,       \* the first password of the mailbox that exists now
  issued,     \* passwords set so far
  inbox,      \* UIDs of a managed mailbox's letters
  uidNext,
  managed,    \* sso_mailbox_bindings, by subject
  external,   \* sso_external_mailbox_bindings, by subject
  intake,     \* ticket_intake_mailboxes, by mailbox
  pc,
  job,
  worker,     \* the worker's place, its rows, the row and the UIDs at hand
  tickets,    \* letters handed over (or older than the intake)
  raced,      \* history: mailboxes whose deletion met another change or a fault
  leftover,   \* history: mailboxes whose rows a deletion left behind
  misplaced,  \* history: mailboxes whose row has the cursor of an earlier one
  faults

mailboxes == <<real, born, issued, inbox, uidNext>>
bindings == <<managed, external>>
history == <<raced, leftover, misplaced>>
bindingsVars == <<mailboxes, bindings, intake, pc, job, worker, tickets, history, faults>>

Passwords == 1..MaxPass
Uids == 1..MaxUid
Rows == [box : AllBoxes, pass : Passwords, ok : BOOLEAN]
Intakes == [pass : Passwords, cursor : 0..MaxUid, first : BOOLEAN]
Kinds == {"bind", "bulk", "unbind", "unbulk", "disconnect", "register", "remove", "discard"}
NoJob == [kind |-> "none", who |-> {}, box |-> NoBox, pass |-> 0]
Idle == [at |-> "rest", rows |-> {}, box |-> NoBox, born |-> 0, uids |-> {}, left |-> 0]

(* Tables, mailboxes and locals keep their shape. *)
BindingsTypeOK ==
  /\ real \in [AllBoxes -> Passwords \cup {0}] /\ born \in [AllBoxes -> 0..MaxPass]
  /\ issued \in 0..MaxPass
  /\ inbox \in [Managed -> SUBSET Uids] /\ uidNext \in [Managed -> 1..(MaxUid + 1)]
  /\ managed \in [Identities -> [box : Managed, pass : Passwords, ok : BOOLEAN] \cup {NoRow}]
  /\ external \in [Identities -> [box : External, pass : Passwords, ok : BOOLEAN] \cup {NoRow}]
  /\ intake \in [Managed -> Intakes \cup {NoRow}]
  /\ pc \in [Calls -> {"idle", "prove", "put", "drop", "delete", "forget", "done"}]
  /\ job \in [Calls -> [kind : Kinds \cup {"none"}, who : SUBSET Identities,
                        box : AllBoxes \cup {NoBox}, pass : 0..MaxPass]]
  /\ worker \in [at : {"rest", "pick", "start", "post", "save"},
                 rows : SUBSET (Managed \X Intakes), box : Managed \cup {NoBox}, born : 0..MaxPass,
                 uids : SUBSET Uids, left : 0..Batch]
  /\ tickets \subseteq Managed \X (0..MaxPass) \X Uids
  /\ raced \subseteq Managed /\ leftover \subseteq Managed /\ misplaced \subseteq Managed
  /\ faults \in 0..MaxFaults

BindingsInit ==
  /\ real \in [AllBoxes -> {1}] /\ born = [b \in AllBoxes |-> 1] /\ issued = 1
  /\ inbox = [b \in Managed |-> {1}]
  /\ uidNext = [b \in Managed |-> 2]
  /\ managed \in [Identities -> {NoRow} \cup {[box |-> b, pass |-> 1, ok |-> TRUE] : b \in Managed}]
  /\ external \in [Identities ->
                     {NoRow} \cup {[box |-> b, pass |-> 1, ok |-> FALSE] : b \in External}]
  /\ \A s, t \in Identities : external[s] = external[t]
  /\ intake = [b \in Managed |-> NoRow]
  /\ pc = [r \in Calls |-> "idle"] /\ job = [r \in Calls |-> NoJob]
  /\ worker = Idle
  /\ tickets = {} /\ raced = {} /\ leftover = {} /\ misplaced = {} /\ faults = 0

-----------------------------------------------------------------------------
(* Helpers. *)

Here(r, step) == pc[r] = step
Fault == faults < MaxFaults /\ faults' = faults + 1
Goto(r, step) ==
  /\ pc' = [pc EXCEPT ![r] = step]
  /\ job' = [job EXCEPT ![r] = IF step = "done" THEN NoJob ELSE @]

Deleting(b) == \E r \in Calls : Here(r, "forget") /\ job[r].box = b

(* Mutation: an unreadable row is passed over. *)
StatusReadable(S) ==
  LET found == {s \in S : external[s] # NoRow /\ external[s].ok}
  IN  IF found # {} /\ Cardinality({external[s] : s \in found}) = 1
      THEN external[CHOOSE s \in found : TRUE].box ELSE NoBox

(* _sso_bindings_status: the external mailbox that all subjects of a       *)
(* person have, NoBox when there is none or they differ.                   *)
Status(S) ==
  LET found == {s \in S : external[s] # NoRow}
  IN  IF /\ found = S /\ S # {}
         /\ \A s \in S : external[s].ok
         /\ \A s, t \in S : external[s] = external[t]
      THEN external[CHOOSE s \in S : TRUE].box ELSE NoBox

(* _sso_binding_lookup: what the sign-in of a subject opens.               *)
Lookup(s) ==
  IF external[s] # NoRow /\ external[s].ok THEN external[s].box
  ELSE IF managed[s] # NoRow /\ managed[s].ok THEN managed[s].box
  ELSE NoBox

-----------------------------------------------------------------------------
(* Requests of the portal, the administrator, and signed-in users. *)

Begin(r, kind, who, box, pass, step) ==
  /\ Here(r, "idle") /\ \A q \in Calls : q < r => ~Here(q, "idle")
  /\ kind \in Asks[r]
  /\ pc' = [pc EXCEPT ![r] = step]
  /\ job' = [job EXCEPT ![r] = [kind |-> kind, who |-> who, box |-> box, pass |-> pass]]
  /\ UNCHANGED <<mailboxes, bindings, intake, worker, tickets, history, faults>>

(* One subject, by the portal or by its own session; all subjects of a     *)
(* person; or the ticket intake.  A user connects external mailboxes only, *)
(* and so does the change of all subjects of a person.                     *)
BeginBind(r) ==
  \E s \in Identities, b \in AllBoxes, p \in 1..issued :
    Begin(r, "bind", {s}, b, p, "prove")
BeginConnect(r) ==
  \E s \in Identities, b \in External, p \in 1..issued :
    Begin(r, "bind", {s}, b, p, "prove")
BeginBulk(r) ==
  \E b \in External, p \in 1..issued :
    Begin(r, "bulk", Identities, b, p, "prove")
BeginRegister(r) ==
  \E b \in Managed, p \in 1..issued :
    Begin(r, "register", {}, b, p, "prove")

(* Revocations: of the managed binding, or of one provider's.              *)
BeginUnbind(r) ==
  \E s \in Identities, b \in External \cup {NoBox} :
    Begin(r, "unbind", {s}, b, 0, "drop")
BeginUnbulk(r) ==
  \E b \in External :
    Begin(r, "unbulk", Identities, b, 0, "drop")

(* The user's own: the state is read first, and names the provider.        *)
BeginDisconnect(r) ==
  \E s \in Identities :
    /\ Status({s}) # NoBox
    /\ Begin(r, "disconnect", {s}, Status({s}), 0, "drop")

BeginRemove(r) ==
  \E b \in Managed :
    Begin(r, "remove", {}, b, 0, "delete")

(* The portal's deletion, or that of a managed address.                    *)
BeginDiscard(r) ==
  \E b \in Managed :
    Begin(r, "discard", {}, b, 0, "delete")

(* Mutation: the password is taken on trust. *)
AcceptsAny(r) == TRUE

Accepts(r) == real[job[r].box] = job[r].pass

(* A refusal and a mail server that does not answer end the request alike. *)
ProvePassword(r) ==
  /\ Here(r, "prove")
  /\ \/ Accepts(r) /\ Goto(r, "put")
     \/ Goto(r, "done")
  /\ UNCHANGED <<mailboxes, bindings, intake, worker, tickets, history, faults>>

Put(table, S, row) == [s \in Identities |-> IF s \in S THEN row ELSE table[s]]

(* The row of an address that is registered already keeps its cursor.      *)
Registered(b, p) ==
  IF intake[b] = NoRow THEN [pass |-> p, cursor |-> 0, first |-> FALSE]
  ELSE [intake[b] EXCEPT !.pass = p]

Store(r) ==
  LET j == job[r]
      row == [box |-> j.box, pass |-> j.pass, ok |-> TRUE]
  IN  /\ Here(r, "put")
      /\ managed' = IF j.kind = "bind" /\ j.box \in Managed
                    THEN Put(managed, j.who, row) ELSE managed
      /\ external' = IF j.box \in External THEN Put(external, j.who, row) ELSE external
      /\ intake' = IF j.kind = "register"
                   THEN [intake EXCEPT ![j.box] = Registered(j.box, j.pass)] ELSE intake
      /\ raced' = IF j.kind = "register" /\ Deleting(j.box)
                  THEN raced \cup {j.box} ELSE raced
      /\ Goto(r, "done")
      /\ UNCHANGED <<mailboxes, worker, tickets, leftover, misplaced, faults>>

(* Any external mailbox of that provider goes, also another one.           *)
Gone(j, s) ==
  /\ s \in j.who /\ external[s] # NoRow /\ j.box # NoBox
  /\ ProviderOf[external[s].box] = ProviderOf[j.box]

Drop(r) ==
  LET j == job[r]
  IN  /\ Here(r, "drop")
      /\ managed' = IF j.box = NoBox THEN Put(managed, j.who, NoRow) ELSE managed
      /\ external' = [s \in Identities |-> IF Gone(j, s) THEN NoRow ELSE external[s]]
      /\ Goto(r, "done")
      /\ UNCHANGED <<mailboxes, intake, worker, tickets, history, faults>>

(* Something is stored for the mailbox. *)
Stored(b) ==
  intake[b] # NoRow \/ \E s \in Identities : managed[s] # NoRow /\ managed[s].box = b

(* The control plane.  Its failure ends the request, also when the account *)
(* is gone.  The portal is done then, and forgets nothing.                 *)
Delete(r) ==
  LET b == job[r].box
      deleted == real' = [real EXCEPT ![b] = 0] /\ inbox' = [inbox EXCEPT ![b] = {}]
      proven == \E q \in Calls : Here(q, "put") /\ job[q].box = b
      forgets == job[r].kind = "remove"
  IN  /\ Here(r, "delete")
      /\ \/ /\ deleted /\ Goto(r, IF forgets THEN "forget" ELSE "done")
            /\ raced' = IF proven THEN raced \cup {b} ELSE raced
            /\ leftover' = IF Stored(b) /\ ~forgets THEN leftover \cup {b} ELSE leftover
            /\ UNCHANGED faults
         \/ /\ deleted /\ Fault /\ Goto(r, "done")
            /\ raced' = raced \cup {b} /\ UNCHANGED leftover
         \/ Fault /\ Goto(r, "done") /\ UNCHANGED <<real, inbox, raced, leftover>>
      /\ UNCHANGED <<born, issued, uidNext, bindings, intake, worker, tickets, misplaced>>

(* Mutation: the bindings of the mailbox stay. *)
WithoutNothing(table, b) == table

Without(table, b) ==
  [s \in Identities |-> IF table[s] # NoRow /\ table[s].box = b THEN NoRow ELSE table[s]]

(* _ticket_intake_drop *)
Forget(r) ==
  LET b == job[r].box
  IN  /\ Here(r, "forget")
      /\ managed' = Without(managed, b)
      /\ intake' = [intake EXCEPT ![b] = NoRow]
      /\ leftover' = leftover \ {b} /\ misplaced' = misplaced \ {b}
      /\ Goto(r, "done")
      /\ UNCHANGED <<mailboxes, external, worker, tickets, raced, faults>>

Step(r) ==
  \/ BeginBind(r) \/ BeginConnect(r) \/ BeginBulk(r) \/ BeginRegister(r)
  \/ BeginUnbind(r) \/ BeginUnbulk(r) \/ BeginDisconnect(r)
  \/ BeginRemove(r) \/ BeginDiscard(r)
  \/ ProvePassword(r) \/ Store(r) \/ Drop(r) \/ Delete(r) \/ Forget(r)

-----------------------------------------------------------------------------
(* The worker: _worker_process_ticket_intake. *)

others == <<mailboxes, bindings, pc, job>>

SelectRows ==
  /\ worker.at = "rest"
  /\ worker' = [Idle EXCEPT !.at = "pick",
                 !.rows = {<<b, intake[b]>> : b \in {m \in Managed : intake[m] # NoRow}}]
  /\ UNCHANGED <<others, intake, tickets, history, faults>>

(* Mutation: the letter at the cursor is not asked for, nor the next. *)
FoundSkipping(b, cursor) == {u \in inbox[b] : u > cursor + 1}

(* SEARCH UID n:* answers with the last letter when there is none after n. *)
Found(b, cursor) ==
  LET new == {u \in inbox[b] : u > cursor}
  IN  IF new = {} /\ inbox[b] # {} THEN {Max(inbox[b])} ELSE new

(* The search, with the row as it was when the round began.  A password    *)
(* that opens the mailbox no longer ends the visit; a mailbox that joined  *)
(* at a start of the server only gets its cursor set.                      *)
Visit(entry) ==
  LET b == entry[1]
      row == entry[2]
      on == [worker EXCEPT !.rows = @ \ {entry}]
      found == Found(b, row.cursor)
  IN  /\ worker.at = "pick"
      /\ worker' = IF real[b] # row.pass THEN on
                   ELSE [on EXCEPT !.at = IF row.first THEN "start" ELSE "post",
                           !.box = b, !.born = born[b], !.uids = found, !.left = Batch]
      /\ UNCHANGED <<others, intake, tickets, history, faults>>

(* Mutation: the cursor stays where it is. *)
CursorKept(b, uid) ==
  IF intake[b] = NoRow THEN intake ELSE [intake EXCEPT ![b].first = FALSE]

Cursor(b, uid) ==
  IF intake[b] = NoRow THEN intake
  ELSE [intake EXCEPT ![b].cursor = uid, ![b].first = FALSE]

(* The row is found by its address alone: it may be that of a mailbox made *)
(* anew, with letters of its own, while the UID is of the earlier one.     *)
Misplace(b) ==
  misplaced' = IF intake[b] # NoRow /\ worker.born # born[b]
               THEN misplaced \cup {b} ELSE misplaced

Start ==
  LET b == worker.box
      uid == IF worker.uids = {} THEN 0 ELSE Max(worker.uids)
  IN  /\ worker.at = "start"
      /\ intake' = Cursor(b, uid)
      /\ tickets' = tickets \cup {<<b, worker.born, u>> : u \in 1..uid}
      /\ Misplace(b)
      /\ worker' = [worker EXCEPT !.at = "pick"]
      /\ UNCHANGED <<others, raced, leftover, faults>>

Full == worker.left = 0

(* The letter the search found is still there, in the same mailbox.        *)
Fetchable(b, u) == real[b] # 0 /\ worker.born = born[b] /\ u \in inbox[b]

(* Fetch and hand over the first letter that is left.  An exception ends   *)
(* the visit, also when the answer to a letter handed over is lost.        *)
Post ==
  LET b == worker.box
      u == Min(worker.uids)
      posted == tickets \cup {<<b, worker.born, u>>}
      next(place) == worker' = [worker EXCEPT !.at = place]
  IN  /\ worker.at = "post"
      /\ IF worker.uids = {} \/ Full \/ ~Fetchable(b, u)
         THEN next("pick") /\ UNCHANGED <<tickets, faults>>
         ELSE \/ tickets' = posted /\ next("save") /\ UNCHANGED faults
              \/ tickets' \in {tickets, posted} /\ next("pick") /\ Fault
      /\ UNCHANGED <<others, intake, history>>

Save ==
  LET b == worker.box
      u == Min(worker.uids)
  IN  /\ worker.at = "save"
      /\ intake' = Cursor(b, u)
      /\ Misplace(b)
      /\ worker' = [worker EXCEPT !.at = "post", !.uids = @ \ {u}, !.left = @ - 1]
      /\ UNCHANGED <<others, tickets, raced, leftover, faults>>

EndRound ==
  /\ worker.at = "pick" /\ worker.rows = {} /\ worker' = Idle
  /\ UNCHANGED <<others, intake, tickets, history, faults>>

Worker ==
  \/ SelectRows \/ (\E entry \in worker.rows : Visit(entry)) \/ Start \/ Post \/ Save \/ EndRound

-----------------------------------------------------------------------------
(* The world. *)

Arrive(b) ==
  /\ real[b] # 0 /\ uidNext[b] <= MaxUid
  /\ inbox' = [inbox EXCEPT ![b] = @ \cup {uidNext[b]}]
  /\ uidNext' = [uidNext EXCEPT ![b] = @ + 1]
  /\ UNCHANGED <<real, born, issued, bindings, intake, pc, job, worker, tickets, history, faults>>

Expunge(b) ==
  /\ \E u \in inbox[b] : inbox' = [inbox EXCEPT ![b] = @ \ {u}]
  /\ UNCHANGED <<real, born, issued, uidNext, bindings, intake, pc, job, worker, tickets,
                 history, faults>>

SetPassword(b) ==
  /\ issued < MaxPass /\ real[b] # 0
  /\ issued' = issued + 1 /\ real' = [real EXCEPT ![b] = issued']
  /\ UNCHANGED <<born, inbox, uidNext, bindings, intake, pc, job, worker, tickets, history, faults>>

(* An account of this name is created again: an empty mailbox.             *)
Create(b) ==
  /\ issued < MaxPass /\ real[b] = 0
  /\ issued' = issued + 1 /\ real' = [real EXCEPT ![b] = issued']
  /\ born' = [born EXCEPT ![b] = issued']
  /\ uidNext' = [uidNext EXCEPT ![b] = 1]
  /\ UNCHANGED <<inbox, bindings, intake, pc, job, worker, tickets, history, faults>>

(* db_init takes every bound managed mailbox into the intake.              *)
Joined(b) ==
  LET bound == {s \in Identities : managed[s] # NoRow /\ managed[s].box = b}
  IN  IF intake[b] # NoRow \/ bound = {} THEN {intake[b]}
      ELSE {[pass |-> managed[s].pass, cursor |-> 0, first |-> TRUE] : s \in bound}

RestartServer ==
  /\ Fault
  /\ intake' \in {f \in [Managed -> Intakes \cup {NoRow}] : \A b \in Managed : f[b] \in Joined(b)}
  /\ raced' = raced \cup {b \in Managed : Deleting(b)}
  /\ pc' = [r \in Calls |-> IF Here(r, "idle") THEN "idle" ELSE "done"]
  /\ job' = [r \in Calls |-> NoJob]
  /\ worker' = Idle
  /\ UNCHANGED <<mailboxes, bindings, tickets, leftover, misplaced>>

World ==
  \/ \E b \in Managed : Arrive(b) \/ Expunge(b) \/ Create(b)
  \/ \E b \in Changing : SetPassword(b)
  \/ RestartServer

BindingsNext == (\E r \in Calls : Step(r)) \/ Worker \/ World

Fairness ==
  /\ WF_bindingsVars(SelectRows) /\ WF_bindingsVars(\E entry \in worker.rows : Visit(entry))
  /\ WF_bindingsVars(Start) /\ WF_bindingsVars(Post)
  /\ WF_bindingsVars(Save) /\ WF_bindingsVars(EndRound)

BindingsSpec == BindingsInit /\ [][BindingsNext]_bindingsVars /\ Fairness

-----------------------------------------------------------------------------
(* Properties. *)

(* The mailbox the cabinet shows for a person is the one that the sign-in  *)
(* of each of the person's subjects opens, with unreadable rows, managed   *)
(* bindings beside it and any single-subject change in between.            *)
ShownIsOpened ==
  \A S \in SUBSET Identities : Status(S) # NoBox => \A s \in S : Lookup(s) = Status(S)

(* Nothing stored for a managed mailbox outlives an account that is        *)
(* deleted through /api/admin/delete_account, and least of all waits for   *)
(* the next one of that name, unless the deletion met what "raced" names:  *)
(* a password proven before it or a registration stored while it runs, a   *)
(* fault, or a restart.  The two deletions that drop nothing leave what is *)
(* stored behind ("leftover", until it is dropped after all).              *)
DeletedAreForgotten ==
  \A b \in Managed \ (raced \cup leftover) : ~Deleting(b) =>
    /\ \A s \in Identities : managed[s] # NoRow /\ managed[s].box = b =>
         real[b] # 0 /\ managed[s].pass >= born[b]
    /\ intake[b] # NoRow => real[b] # 0 /\ intake[b].pass >= born[b]

(* The cursor of the intake passes no letter by: a restart or a lost       *)
(* answer repeats a letter and loses none.  The row of a deleted account   *)
(* that is about to be dropped may be ahead of the next one's letters; the *)
(* row left behind by a deletion that drops nothing is ("leftover"), and   *)
(* so is one made anew for a mailbox of the same name into which the       *)
(* worker, still on its visit to the earlier mailbox, wrote that one's     *)
(* cursor ("misplaced"): there the code does pass letters by.              *)
Settled(b) == b \notin raced \cup leftover \cup misplaced
NothingSkipped ==
  \A b \in Managed : Settled(b) /\ intake[b] # NoRow /\ ~Deleting(b) =>
    \A u \in inbox[b] : u <= intake[b].cursor => <<b, born[b], u>> \in tickets

(* A letter in a mailbox of the intake is handed over in the end, while    *)
(* the stored password opens the mailbox, the letter stays, and the row is *)
(* no earlier mailbox's.                                                   *)
Watched(b) == intake[b] # NoRow /\ intake[b].pass = real[b] /\ Settled(b)
HandedOver ==
  \A b \in Managed, u \in Uids :
    (Watched(b) /\ u \in inbox[b])
      ~> (<<b, born[b], u>> \in tickets \/ ~Watched(b) \/ u \notin inbox[b])
=============================================================================
