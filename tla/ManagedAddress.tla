--------------------------- MODULE ManagedAddress ---------------------------
(***************************************************************************)
(* The life of one managed address: a shared mailbox or a distribution     *)
(* list that administrators create, change and delete.                     *)
(*                                                                         *)
(* Three places hold it and no transaction spans them: the account (its    *)
(* password, or a list's recipients) behind the mail control plane, the    *)
(* row of shared_mailboxes, and the directory's registry of who owns the   *)
(* login.  Each handler logs its intent in managed_address_operations,     *)
(* changes the account, then the row, undoes the account when the row      *)
(* cannot be written, and closes the operation.  The background worker     *)
(* redoes what stays open, or drops it when a newer operation of the       *)
(* address exists.  Handlers of one address id exclude each other; creation *)
(* locks the e-mail instead, and the worker takes no lock.                 *)
(*                                                                         *)
(* Mailboxes are changed at the mail server of this node, so that deleting *)
(* a missing account succeeds and resetting its password fails.  (The      *)
(* agent answers either the other way round, and is not modelled here.)    *)
(* The status shown to administrators and the member lists are left out:   *)
(* no step reads them.                                                     *)
(* There is no clock: an open operation may be stale at any time.  A call  *)
(* that fails has had its effect or not, and never has it later.  Updates  *)
(* of the operation log do not fail of themselves; a crash cuts before any *)
(* of them.                                                                *)
(***************************************************************************)
EXTENDS Integers, Sequences

CONSTANTS
  NumRequests, \* bound: requests of the admin portal, numbered as they arrive;
               \* the number stands for the password or the list they write
  Worker,      \* the thread of background_worker_loop
  First,       \* the value of an address that exists at the start
  Gone,        \* no account
  Kinds,       \* which kinds to check: "mailbox", "distribution"
  MaxFaults    \* bound: how many calls fail and restarts happen

ASSUME ConstantsAssumption ==
  /\ NumRequests \in Nat
  /\ Worker \notin Nat /\ First \notin Nat
  /\ Gone \notin Nat \cup {First}
  /\ Kinds \subseteq {"mailbox", "distribution"}
  /\ MaxFaults \in Nat

VARIABLES
  kind,      \* of the address, for good
  account,   \* what the control plane holds
  owner,     \* of the login: "free", "managed", or "other" (an employee)
  row,       \* the row of shared_mailboxes
  lastId,    \* its AUTOINCREMENT
  ops,       \* managed_address_operations, by id
  pc,
  job,       \* what a thread is working on
  batch,     \* operations the worker has claimed and not yet looked at
  raced,     \* history: two changes met in a way the code does not handle
  faults

vars == <<kind, account, owner, row, lastId, ops, pc, job, batch, raced,
          faults>>

Requests == 1..NumRequests
Threads == Requests \cup {Worker}
Contents == Requests \cup {First, Gone}
HandlerActions == {"create", "update", "password", "delete"}
Actions == HandlerActions \cup {"release"}
Open == {"pending", "reconciling"}
Statuses == Open \cup {"completed", "failed"}
Steps == {"available", "start", "claim", "entity", "row", "undo", "finish",
          "release"}

NoRow == [id |-> 0, val |-> Gone, rev |-> 0]
Job(act, val, old, rev, box, op) ==
  [act |-> act, val |-> val, old |-> old, rev |-> rev, box |-> box, op |-> op,
   fate |-> "pending"]
NoJob == Job("none", Gone, Gone, 0, 0, 0)

(* The two tables, the registry and the threads' locals keep their shape. *)
TypeOK ==
  /\ kind \in Kinds
  /\ account \in Contents
  /\ owner \in {"free", "managed", "other"}
  /\ row \in [id : Nat, val : Contents, rev : Nat]
  /\ lastId \in Nat
  /\ ops \in Seq([action : Actions, box : Nat, val : Contents, rev : Nat,
                  status : Statuses])
  /\ pc \in [Threads -> Steps \cup {"idle", "done", "sync", "pick", "load"}]
  /\ job \in [Threads -> [act : Actions \cup {"none", "resync"},
                          val : Contents, old : Contents, rev : Nat, box : Nat,
                          op : Nat, fate : Statuses]]
  /\ batch \subseteq Nat
  /\ raced \in BOOLEAN
  /\ faults \in 0..MaxFaults

-----------------------------------------------------------------------------
(* Threads and calls. *)

Goto(p, step) == pc' = [pc EXCEPT ![p] = step]
Set(p, field, value) == job' = [job EXCEPT ![p][field] = value]

(* On the way to leaving the operation with status f. *)
Settle(p, f) == Goto(p, "finish") /\ Set(p, "fate", f)

Proceed(p, step) ==
  /\ Goto(p, step)
  /\ job' = IF step \in {"done", "idle", "pick"} THEN [job EXCEPT ![p] = NoJob]
            ELSE job

(* Something outside the program breaks. *)
Fault == faults < MaxFaults /\ faults' = faults + 1

(* A call of the control plane that would make the account new. *)
Control(new, works, Good, Bad) ==
  \/ works /\ account' = new /\ Good /\ UNCHANGED faults
  \/ ~works /\ Bad /\ UNCHANGED <<account, faults>>
  \/ /\ Fault
     /\ account' = account \/ (works /\ account' = new)
     /\ Bad

(* A call of the registry that would make the owner new. *)
Registry(new, Good, Bad) ==
  \/ owner' = new /\ Good /\ UNCHANGED faults
  \/ Fault /\ owner' \in {owner, new} /\ Bad

IsOpen(i) == i \in DOMAIN ops /\ ops[i].status \in Open

-----------------------------------------------------------------------------
(* What the code does not handle.  `raced` notes that it happened.         *)

(* The worker is redoing an operation, past its look for newer ones. *)
WorkerBusy == pc[Worker] \in Steps \cup {"load"}

HandlerBusy == \E q \in Requests : pc[q] \in Steps

(* A new operation a makes the worker drop an open b, although a does not  *)
(* bring account and row together again.                                   *)
Drops(a, b) ==
  /\ kind = "mailbox"
  /\ \/ a = "update" /\ b \in {"password", "delete"}
     \/ a = "password" /\ b = "delete"

Races(p) ==
  \/ \E i \in DOMAIN ops : IsOpen(i) /\ Drops(job[p].act, ops[i].action)
  \/ /\ job[p].act = "create"
     /\ \E q \in Requests : job[q].act = "delete" /\ pc[q] \in Steps

-----------------------------------------------------------------------------
(* Requests. *)

(* The asyncio lock of the address: by e-mail to create, by id for others. *)
LockFree(a, box) ==
  \A q \in Requests :
    pc[q] \in Steps =>
      IF a = "create" THEN job[q].act # "create"
                      ELSE job[q].act = "create" \/ job[q].box # box

Arrive(p, a, box) ==
  /\ pc[p] = "idle"
  /\ \A q \in 1..(p - 1) : pc[q] # "idle"
  /\ LockFree(a, box)

NewJob(p, a, content) ==
  /\ job' = [job EXCEPT ![p] = Job(a, content, row.val, row.rev, row.id, 0)]
  /\ raced' = (raced \/ WorkerBusy)

(* 404, or 409 for a card of an older revision.                            *)
Refuse(p, box) ==
  /\ Arrive(p, "update", box) /\ box \in 1..lastId
  /\ Proceed(p, "done")
  /\ UNCHANGED <<kind, account, owner, row, lastId, ops, batch, raced, faults>>

BeginCreate(p) ==
  /\ Arrive(p, "create", 0)
  /\ row = NoRow
  /\ Goto(p, "available") /\ NewJob(p, "create", p)
  /\ UNCHANGED <<kind, account, owner, row, lastId, ops, batch, faults>>

(* The second half of the look whether the address is taken. *)
Available(p) ==
  /\ pc[p] = "available"
  /\ \/ account = Gone /\ Proceed(p, "start") /\ UNCHANGED faults
     \/ account # Gone /\ Proceed(p, "done") /\ UNCHANGED faults
     \/ Fault /\ Proceed(p, "done")
  /\ UNCHANGED <<kind, account, owner, row, lastId, ops, batch, raced>>

BeginUpdate(p) ==
  /\ Arrive(p, "update", row.id)
  /\ row # NoRow
  /\ Goto(p, "start") /\ NewJob(p, "update", p)
  /\ UNCHANGED <<kind, account, owner, row, lastId, ops, batch, faults>>

BeginPassword(p) ==
  /\ Arrive(p, "password", row.id)
  /\ row # NoRow /\ kind = "mailbox"
  /\ Goto(p, "start") /\ NewJob(p, "password", p)
  /\ UNCHANGED <<kind, account, owner, row, lastId, ops, batch, faults>>

BeginDelete(p) ==
  /\ Arrive(p, "delete", row.id)
  /\ row # NoRow
  /\ Goto(p, "start") /\ NewJob(p, "delete", Gone)
  /\ UNCHANGED <<kind, account, owner, row, lastId, ops, batch, faults>>

(* Synchronising again logs no operation. *)
BeginResync(p) ==
  /\ Arrive(p, "resync", row.id)
  /\ row # NoRow
  /\ Goto(p, "entity") /\ NewJob(p, "resync", row.val)
  /\ UNCHANGED <<kind, account, owner, row, lastId, ops, batch, faults>>

(* A change of the members is one transaction under the same lock. *)
ChangeMembers(p) ==
  /\ Arrive(p, "members", row.id)
  /\ row # NoRow /\ kind = "mailbox"
  /\ row' = [row EXCEPT !.rev = @ + 1]
  /\ Proceed(p, "done")
  /\ UNCHANGED <<kind, account, owner, lastId, ops, batch, raced, faults>>

Record(a, box, content, rev) ==
  [action |-> a, box |-> box, val |-> content, rev |-> rev, status |-> "pending"]

StartOperation(p) ==
  /\ pc[p] = "start"
  /\ ops' = Append(ops, Record(job[p].act, job[p].box, job[p].val, job[p].rev))
  /\ Goto(p, IF job[p].act = "create" THEN "claim"
             ELSE IF job[p].act = "update" /\ kind = "mailbox" THEN "row"
             ELSE "entity")
  /\ Set(p, "op", Len(ops) + 1)
  /\ raced' = (raced \/ Races(p))
  /\ UNCHANGED <<kind, account, owner, row, lastId, batch, faults>>

-----------------------------------------------------------------------------
(* The steps of a saga, of a handler (p \in Requests) or of the worker.    *)

Redo(p) == p = Worker

(* A failure leaves the operation open, if there is one. *)
Fail(p) ==
  IF job[p].act = "resync" THEN Proceed(p, "done") ELSE Settle(p, "pending")

(* Only creation claims the login.  A conflict fails a new creation for    *)
(* good; the worker keeps trying.                                          *)
ClaimOwner(p) ==
  /\ pc[p] = "claim"
  /\ \/ /\ owner # "other"
        /\ Registry("managed", Proceed(p, "entity"), Fail(p))
     \/ /\ owner = "other"
        /\ \/ UNCHANGED faults
              /\ Settle(p, IF Redo(p) THEN "pending" ELSE "failed")
           \/ Fault /\ Fail(p)
        /\ UNCHANGED owner
  /\ UNCHANGED <<kind, account, row, lastId, ops, batch, raced>>

(* A list is set or emptied whatever was there.  A mailbox is created only *)
(* where there is none and reset only where there is one.  A resync tries  *)
(* both, in one thread and here in one step: the handlers' locks let only  *)
(* a redo of the worker come between the two calls, which sets raced.      *)
EntityWorks(p) ==
  \/ kind = "distribution"
  \/ job[p].act = "create" /\ (Redo(p) \/ account = Gone)
  \/ job[p].act = "password" /\ account # Gone
  \/ job[p].act \in {"delete", "resync"}

Entity(p) ==
  /\ pc[p] = "entity"
  /\ Control(IF job[p].act = "delete" THEN Gone ELSE job[p].val,
             EntityWorks(p),
             Proceed(p, IF job[p].act = "resync" THEN "done" ELSE "row"), Fail(p))
  /\ UNCHANGED <<kind, owner, row, lastId, ops, batch, raced>>

Inserts(p) == job[p].act = "create" /\ job[p].box = 0

(* UNIQUE e-mail, id and revision of the UPDATE, id of the others. *)
RowFits(p) ==
  \/ Inserts(p) /\ row = NoRow
  \/ /\ ~Inserts(p)
     /\ job[p].box = row.id
     /\ job[p].act \in {"create", "update"} => job[p].rev = row.rev
  \/ Redo(p) /\ job[p].act = "delete"

(* The metadata hold a list's recipients, but never a mailbox's password.  *)
RowWritten(p) ==
  CASE Inserts(p) -> [id |-> lastId + 1, val |-> job[p].val, rev |-> 1]
    [] ~Inserts(p) /\ job[p].act \in {"create", "update"} ->
         [row EXCEPT !.rev = @ + 1,
                     !.val = IF kind = "distribution" THEN job[p].val ELSE @]
    [] job[p].act = "password" -> [row EXCEPT !.val = job[p].val]
    [] OTHER -> IF job[p].box = row.id THEN NoRow ELSE row

WriteRow(p) ==
  /\ RowFits(p)
  /\ row' = RowWritten(p)
  /\ lastId' = IF Inserts(p) THEN lastId + 1 ELSE lastId
  /\ Goto(p, IF job[p].act = "delete" THEN "release" ELSE "finish")
  /\ job' = [job EXCEPT ![p].fate = "completed",
                        ![p].box = IF Inserts(p) THEN lastId + 1 ELSE @]
  /\ UNCHANGED faults

Undoes(p) ==
  /\ ~Redo(p)
  /\ \/ job[p].act \in {"create", "password"}
     \/ job[p].act = "update" /\ kind = "distribution"

(* The row is not as expected any more, or the statement fails. *)
RowFails(p) ==
  /\ (~RowFits(p) /\ UNCHANGED faults) \/ Fault
  /\ IF Undoes(p) THEN Proceed(p, "undo") ELSE Fail(p)
  /\ UNCHANGED <<row, lastId>>

Row(p) ==
  /\ pc[p] = "row"
  /\ WriteRow(p) \/ RowFails(p)
  /\ UNCHANGED <<kind, account, owner, ops, batch, raced>>

UndoWorks(p) ==
  kind = "distribution" \/ job[p].act = "create" \/ account # Gone

Undo(p) ==
  /\ pc[p] = "undo"
  /\ Control(IF job[p].act = "create" THEN Gone ELSE job[p].old, UndoWorks(p),
             Settle(p, "completed"), Fail(p))
  /\ UNCHANGED <<kind, owner, row, lastId, ops, batch, raced>>

(* An undone creation gives the login back after it closed its operation. *)
Undone(p) ==
  ~Redo(p) /\ Inserts(p) /\ job[p].fate = "completed"

Finish(p) ==
  /\ pc[p] = "finish"
  /\ ops' = [ops EXCEPT ![job[p].op].status = job[p].fate,
                         ![job[p].op].box =
                           IF job[p].fate = "completed" THEN job[p].box ELSE @]
  /\ Proceed(p, IF Undone(p) THEN "release"
                ELSE IF Redo(p) THEN "pick" ELSE "done")
  /\ UNCHANGED <<kind, account, owner, row, lastId, batch, raced, faults>>

(* The registry takes back what is ours.  A handler that cannot reach it   *)
(* leaves an operation of its own for the worker.                          *)
Release(p) ==
  /\ pc[p] = "release"
  /\ LET Go == IF job[p].act = "create" THEN Proceed(p, "done")
               ELSE Settle(p, "completed")
     IN  Registry(IF owner = "managed" THEN "free" ELSE owner,
                  Go /\ UNCHANGED ops,
                  IF Redo(p) THEN Fail(p) /\ UNCHANGED ops
                  ELSE Go /\ ops' = Append(ops, Record("release", 0, Gone, 0)))
  /\ UNCHANGED <<kind, account, row, lastId, batch, raced>>

-----------------------------------------------------------------------------
(* The worker. *)

(* Every few minutes it claims the login of every row it lists. *)
SyncList ==
  /\ pc[Worker] = "idle" /\ row # NoRow
  /\ Proceed(Worker, "sync")
  /\ UNCHANGED <<kind, account, owner, row, lastId, ops, batch, raced, faults>>

(* Mutation: the synchronisation only looks. *)
SyncLook ==
  /\ pc[Worker] = "sync"
  /\ Proceed(Worker, "idle")
  /\ UNCHANGED <<kind, account, owner, row, lastId, ops, batch, raced, faults>>

SyncClaim ==
  /\ pc[Worker] = "sync"
  /\ Proceed(Worker, "idle")
  /\ IF owner = "other" THEN UNCHANGED <<owner, faults>>
                        ELSE Registry("managed", TRUE, TRUE)
  /\ UNCHANGED <<kind, account, row, lastId, ops, batch, raced>>

(* Mutation: what was being redone at a restart is forgotten. *)
ClaimablePending(i) == ops[i].status = "pending"

Claimable(i) == ops[i].status \in {"pending", "reconciling"}

(* A claim does not know whether a handler still works on the operation,   *)
(* nor does the worker look again whether it is open when its turn comes.  *)
ClaimStale ==
  /\ pc[Worker] = "idle"
  /\ \E S \in SUBSET {i \in DOMAIN ops : Claimable(i)} :
       /\ S # {}
       /\ batch' = S
       /\ ops' = [i \in DOMAIN ops |->
                   IF i \in S THEN [ops[i] EXCEPT !.status = "reconciling"]
                   ELSE ops[i]]
       /\ raced' = (raced \/ \E q \in Requests : pc[q] \in Steps /\ job[q].op \in S)
  /\ Proceed(Worker, "pick")
  /\ UNCHANGED <<kind, account, owner, row, lastId, faults>>

(* Mutation: only a newer operation of the same action counts. *)
SupersededBySame(i) ==
  \E j \in DOMAIN ops : /\ j > i /\ ops[j].action = ops[i].action
                        /\ ops[j].status \in Open \cup {"completed"}

(* Any newer operation of the address counts, whatever its action. *)
Superseded(i) ==
  \E j \in DOMAIN ops : j > i /\ ops[j].status \in Open \cup {"completed"}

Pick ==
  /\ pc[Worker] = "pick"
  /\ \/ /\ batch = {}
        /\ Proceed(Worker, "idle")
        /\ UNCHANGED <<ops, batch, raced>>
     \/ \E i \in batch :
          /\ \A j \in batch : i <= j
          /\ batch' = batch \ {i}
          /\ IF Superseded(i)
             THEN /\ ops' = [ops EXCEPT ![i].status = "completed"]
                  /\ Proceed(Worker, "pick")
                  /\ UNCHANGED raced
             ELSE /\ Goto(Worker, "load") /\ UNCHANGED ops
                  /\ job' = [job EXCEPT ![Worker] =
                       Job(ops[i].action, ops[i].val, Gone, ops[i].rev, ops[i].box, i)]
                  /\ raced' = (raced \/ HandlerBusy)
  /\ UNCHANGED <<kind, account, owner, row, lastId, faults>>

(* The current row: by id, or by e-mail for an operation that knows no id. *)
Load ==
  /\ pc[Worker] = "load"
  /\ LET j == job[Worker]
         current == row # NoRow /\ j.box \in {0, row.id}
     IN  CASE j.act = "create" ->
                /\ Goto(Worker, "claim")
                /\ job' = IF current
                          THEN [job EXCEPT ![Worker].box = row.id,
                                           ![Worker].rev = row.rev]
                          ELSE job
           [] j.act = "password" ->
                IF current THEN Proceed(Worker, "entity") ELSE Fail(Worker)
           [] j.act = "update" /\ kind = "mailbox" ->
                IF current THEN Proceed(Worker, "row") ELSE Fail(Worker)
           [] j.act = "release" -> Proceed(Worker, "release")
           [] OTHER -> Proceed(Worker, "entity")
  /\ UNCHANGED <<kind, account, owner, row, lastId, ops, batch, raced, faults>>

-----------------------------------------------------------------------------
(* The environment and the specification. *)

(* The panel gives a free login to an employee. *)
TakeLogin ==
  /\ owner = "free" /\ owner' = "other"
  /\ UNCHANGED <<kind, account, row, lastId, ops, pc, job, batch, raced, faults>>

(* The server is killed and started again: what was in flight is gone. *)
Crash ==
  /\ Fault
  /\ pc' = [p \in Threads |-> IF p = Worker THEN "idle"
                              ELSE IF pc[p] = "idle" THEN "idle" ELSE "done"]
  /\ job' = [p \in Threads |-> NoJob]
  /\ batch' = {}
  /\ UNCHANGED <<kind, account, owner, row, lastId, ops, raced>>

(* No address, or one that was created before. *)
Init ==
  /\ kind \in Kinds
  /\ \/ row = NoRow /\ account = Gone /\ owner = "free" /\ lastId = 0
     \/ /\ row = [id |-> 1, val |-> First, rev |-> 1]
        /\ account = First /\ owner = "managed" /\ lastId = 1
  /\ ops = <<>>
  /\ pc = [p \in Threads |-> "idle"]
  /\ job = [p \in Threads |-> NoJob]
  /\ batch = {}
  /\ raced = FALSE
  /\ faults = 0

Begin(p) ==
  \/ BeginCreate(p) \/ BeginUpdate(p) \/ BeginPassword(p) \/ BeginDelete(p)
  \/ BeginResync(p) \/ ChangeMembers(p) \/ \E box \in 1..lastId : Refuse(p, box)

Continue(p) ==
  \/ Available(p) \/ StartOperation(p)
  \/ ClaimOwner(p) \/ Entity(p) \/ Row(p) \/ Undo(p) \/ Finish(p) \/ Release(p)

Work == SyncClaim \/ Pick \/ Load

(* Nothing is left to do. *)
Finished ==
  /\ \A p \in Requests : pc[p] \in {"idle", "done"}
  /\ pc[Worker] = "idle" /\ batch = {}
  /\ UNCHANGED vars

Next ==
  \/ \E p \in Requests : Begin(p)
  \/ \E p \in Threads : Continue(p)
  \/ SyncList \/ ClaimStale \/ Work
  \/ TakeLogin \/ Crash \/ Finished

Spec == Init /\ [][Next]_vars

Ids == 1..(2 * NumRequests)

(* Threads go on.  Every tick of the worker claims what has become stale,  *)
(* and every 300 s a tick begins with the synchronisation, whatever else   *)
(* there is to do.                                                         *)
FairSpec ==
  /\ Spec
  /\ \A p \in Threads : WF_vars(Continue(p))
  /\ WF_vars(Work) /\ SF_vars(SyncList)
  /\ SF_vars(ClaimStale /\ \A i \in DOMAIN ops : IsOpen(i) => i \in batch')

-----------------------------------------------------------------------------
(* Properties.                                                             *)

Quiet ==
  /\ \A i \in DOMAIN ops : ~IsOpen(i)
  /\ \A p \in Threads : pc[p] \notin Steps

(* With no operation open and no handler at work, account and row are of   *)
(* one mind: both gone, or the credential or list the row keeps is the one *)
(* in force and the login is not free for an employee.  Handlers, undo and *)
(* the worker's redo get there through every fault and crash, unless two   *)
(* changes met that the code does not keep apart.                          *)
QuietMeansAgreed ==
  Quiet /\ ~raced =>
    IF row = NoRow THEN account = Gone
    ELSE account = row.val /\ owner # "free"

(* An operation that cannot be redone: the UPDATE asks for a revision that *)
(* has passed, the account to reset is gone, the login is an employee's.   *)
Hopeless(i) ==
  \/ /\ ops[i].action = "update"
     /\ ops[i].box # row.id \/ ops[i].rev # row.rev
  \/ ops[i].action = "password" /\ (ops[i].box # row.id \/ account = Gone)
  \/ ops[i].action = "create" /\ owner = "other"

(* Whatever a handler, a fault or a crash leaves open, the worker closes,  *)
(* except where it is hopeless.                                            *)
OperationsEnd ==
  (\E i \in Ids : IsOpen(i)) ~> (\A i \in Ids : IsOpen(i) => Hopeless(i))

(* A login that lost its owner while its row exists is claimed back, or an *)
(* employee got it first.                                                  *)
OwnerReclaimed ==
  (row # NoRow /\ owner = "free") ~> (owner # "free" \/ row = NoRow)
=============================================================================
