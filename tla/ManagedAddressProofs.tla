------------------------ MODULE ManagedAddressProofs ------------------------
(***************************************************************************)
(* Proofs about a managed address, for any number of requests, faults, and *)
(* restarts, mailboxes and lists alike.                                    *)
(*                                                                         *)
(* The argument: the operation that no later one supersedes answers for    *)
(* the address.  While it is open, redoing it brings account and row       *)
(* together again, whatever its handler has done of it so far; when it is  *)
(* closed, they agree.                                                     *)
(***************************************************************************)
EXTENDS ManagedAddress, TLAPS

Jobs == [act : Actions \cup {"none", "resync"}, val : Contents, old : Contents,
         rev : Nat, box : Nat, op : Nat, fate : Statuses]
Places == Steps \cup {"idle", "done", "sync", "pick", "load"}
Operations == [action : Actions, box : Nat, val : Contents, rev : Nat, status : Statuses]

(* Only a handler logs an operation; the worker has only claimed what is   *)
(* in the log.                                                             *)
Starts ==
  \A p \in Threads : pc[p] \in {"available", "start"} =>
    p # Worker /\ job[p].act \in HandlerActions
Locals ==
  pc \in [Threads -> Places] /\ job \in [Threads -> Jobs] /\ Starts
Types == TypeOK /\ Starts /\ batch \subseteq DOMAIN ops

(* What the helpers that move a thread do to it. *)
LEMMA Moves ==
  ASSUME ConstantsAssumption, Locals, NEW p \in Threads
  PROVE  /\ NoJob \in Jobs
         /\ \A step \in Places \ {"available", "start"} : Proceed(p, step) => Locals'
         /\ \A f \in Statuses : Settle(p, f) => Locals'
         /\ Fail(p) => Locals'
<1>1. NoJob \in Jobs
  BY DEF NoJob, Job, Jobs, Contents, Statuses, Open
<1>2. ASSUME NEW f \in Statuses, Settle(p, f) PROVE Locals'
  <2>1. "finish" \in Places
    BY DEF Places, Steps
  <2>2. job' = [job EXCEPT ![p].fate = f] /\ pc' = [pc EXCEPT ![p] = "finish"]
    BY <1>2 DEF Settle, Set, Goto
  <2>3. job' \in [Threads -> Jobs] /\ pc' \in [Threads -> Places]
    BY <2>1, <2>2 DEF Locals, Jobs
  <2> QED
    BY <2>2, <2>3 DEF Locals, Starts
<1>3. ASSUME NEW step \in Places \ {"available", "start"}, Proceed(p, step) PROVE Locals'
  <2>1. job' \in [Threads -> Jobs] /\ pc' \in [Threads -> Places]
    BY <1>1, <1>3 DEF Proceed, Goto, Locals
  <2>2. \A q \in Threads \ {p} : job'[q] = job[q] /\ pc'[q] = pc[q]
    BY <1>3 DEF Proceed, Goto, Locals
  <2>3. pc'[p] = step
    BY <1>3 DEF Proceed, Goto, Locals
  <2> QED
    BY <2>1, <2>2, <2>3 DEF Locals, Starts
<1>4. Fail(p) => Locals'
  BY <1>2, <1>3 DEF Fail, Places, Statuses, Open
<1> QED
  BY <1>1, <1>2, <1>3, <1>4

(* The type invariant is inductive. *)
LEMMA TypesInductive ==
  ASSUME ConstantsAssumption, Types, [Next]_vars
  PROVE  Types'
<1> USE ConstantsAssumption
<1> DEFINE World == /\ kind \in Kinds /\ account \in Contents /\ owner \in {"free", "managed", "other"}
                    /\ row \in [id : Nat, val : Contents, rev : Nat] /\ lastId \in Nat
                    /\ raced \in BOOLEAN /\ faults \in 0..MaxFaults
           Logs == ops \in Seq(Operations) /\ batch \subseteq DOMAIN ops
<1>1. World /\ Logs /\ Locals
  BY DEF Types, TypeOK, Operations, Places, Jobs, Locals
<1>2. ASSUME World', Logs', Locals' PROVE Types'
  <2>1. \A s \in Seq(Operations) : DOMAIN s \subseteq Nat
    OBVIOUS
  <2> QED
    BY <1>2, <2>1 DEF Types, TypeOK, Operations, Places, Jobs, Locals
<1>3. Fault => faults' \in 0..MaxFaults
  BY <1>1 DEF Fault
<1>5. UNCHANGED <<ops, batch>> => Logs'
  BY <1>1
<1>7. ASSUME NEW p \in Requests, NEW a \in HandlerActions \cup {"resync"}, NEW content \in Contents,
             NewJob(p, a, content), NEW step \in {"available", "start", "entity"}, Goto(p, step),
             a = "resync" => step = "entity"
      PROVE  Locals' /\ raced' \in BOOLEAN
  <2> DEFINE new == Job(a, content, row.val, row.rev, row.id, 0)
  <2>1. new \in Jobs /\ new.act = a
    <3>1. new = [act |-> a, val |-> content, old |-> row.val, rev |-> row.rev, box |-> row.id,
                 op |-> 0, fate |-> "pending"]
      BY DEF Job
    <3>2. a \in Actions \cup {"none", "resync"} /\ "pending" \in Statuses
      BY DEF Actions, Statuses, Open
    <3> HIDE DEF new
    <3> QED
      BY <1>1, <3>1, <3>2 DEF Jobs
  <2>2. job' = [job EXCEPT ![p] = new] /\ raced' \in BOOLEAN
    BY <1>1, <1>7 DEF NewJob
  <2>3. p # Worker /\ p \in Threads /\ step \in Places
    BY DEF Threads, Requests, Places, Steps, ConstantsAssumption
  <2> HIDE DEF new
  <2>4. pc' \in [Threads -> Places] /\ job' \in [Threads -> Jobs]
    BY <1>1, <1>7, <2>1, <2>2, <2>3 DEF Goto, Locals
  <2>5. Starts'
    BY <1>1, <1>7, <2>1, <2>2, <2>3 DEF Goto, Locals, Starts
  <2> QED
    BY <2>2, <2>4, <2>5 DEF Locals
<1>8. Requests \subseteq Threads /\ Worker \in Threads /\ Requests \subseteq Contents /\ Gone \in Contents
  BY DEF Threads, Contents
<1>9. ASSUME NEW p \in Requests, Begin(p) PROVE Types'
  <2>1. Locals' /\ raced' \in BOOLEAN
    <3>1. BeginCreate(p) => Locals' /\ raced' \in BOOLEAN
      BY <1>7, <1>8 DEF BeginCreate, HandlerActions
    <3>2. BeginUpdate(p) => Locals' /\ raced' \in BOOLEAN
      BY <1>7, <1>8 DEF BeginUpdate, HandlerActions
    <3>3. BeginPassword(p) => Locals' /\ raced' \in BOOLEAN
      BY <1>7, <1>8 DEF BeginPassword, HandlerActions
    <3>4. BeginDelete(p) => Locals' /\ raced' \in BOOLEAN
      BY <1>7, <1>8 DEF BeginDelete, HandlerActions
    <3>5. BeginResync(p) => Locals' /\ raced' \in BOOLEAN
      BY <1>1, <1>7, <1>8 DEF BeginResync, HandlerActions
    <3>6. ChangeMembers(p) => Locals' /\ raced' \in BOOLEAN
      BY <1>1, <1>8, Moves DEF ChangeMembers, Places
    <3>7. \A box \in 1..lastId : Refuse(p, box) => Locals' /\ raced' \in BOOLEAN
      BY <1>1, <1>8, Moves DEF Refuse, Places
    <3> QED
      BY <1>9, <3>1, <3>2, <3>3, <3>4, <3>5, <3>6, <3>7 DEF Begin
  <2>2. UNCHANGED <<kind, account, owner, lastId, ops, batch, faults>>
    BY <1>9 DEF Begin, BeginCreate, BeginUpdate, BeginPassword, BeginDelete, BeginResync, ChangeMembers, Refuse
  <2>3. row' = row \/ (row # NoRow /\ row' = [row EXCEPT !.rev = @ + 1])
    BY <1>9 DEF Begin, BeginCreate, BeginUpdate, BeginPassword, BeginDelete, BeginResync, ChangeMembers, Refuse
  <2>4. row' \in [id : Nat, val : Contents, rev : Nat]
    BY <1>1, <2>3
  <2> QED
    BY <1>1, <1>2, <1>5, <2>1, <2>2, <2>4
<1>10. ASSUME NEW p \in Threads, Available(p) PROVE Types'
  <2>1. Locals'
    <3>1. Proceed(p, "done") => Locals'
      BY <1>1, Moves DEF Places
    <3>2. ASSUME Proceed(p, "start") PROVE Locals'
      <4>1. job' = job /\ pc' = [pc EXCEPT ![p] = "start"] /\ pc[p] = "available" /\ "start" \in Places
        BY <1>10, <3>2 DEF Proceed, Goto, Available, Places, Steps
      <4> QED
        BY <1>1, <4>1 DEF Locals, Starts
    <3> QED
      BY <1>10, <3>1, <3>2 DEF Available
  <2> QED
    BY <1>1, <1>2, <1>3, <1>5, <1>10, <2>1 DEF Available
<1>11. ASSUME NEW p \in Threads, StartOperation(p) PROVE Types'
  <2>1. job[p] \in Jobs /\ job[p].act \in HandlerActions
    BY <1>1, <1>11 DEF Locals, Starts, StartOperation
  <2>2. Record(job[p].act, job[p].box, job[p].val, job[p].rev) \in Operations
    BY <2>1 DEF Record, Operations, Jobs, Actions, Statuses, Open
  <2>3. Logs'
    <3> DEFINE rec == Record(job[p].act, job[p].box, job[p].val, job[p].rev)
    <3>1. ops' = Append(ops, rec) /\ UNCHANGED batch
      BY <1>11 DEF StartOperation
    <3> HIDE DEF rec
    <3>2. ops' \in Seq(Operations) /\ DOMAIN ops \subseteq DOMAIN ops'
      BY <1>1, <2>2, <3>1 DEF rec
    <3> QED
      BY <1>1, <3>1, <3>2
  <2>4. job' = [job EXCEPT ![p].op = Len(ops) + 1]
    BY <1>11 DEF StartOperation, Set
  <2>5. job' \in [Threads -> Jobs]
    <3>1. Len(ops) + 1 \in Nat
      BY <1>1
    <3> QED
      BY <1>1, <2>4, <3>1 DEF Locals, Jobs
  <2>6. PICK step \in {"claim", "row", "entity"} : pc' = [pc EXCEPT ![p] = step]
    BY <1>11 DEF StartOperation, Goto
  <2>7. Locals'
    BY <1>1, <2>4, <2>5, <2>6 DEF Locals, Starts, Places, Steps
  <2> QED
    BY <1>1, <1>2, <1>11, <2>3, <2>7 DEF StartOperation
<1>12. ASSUME NEW p \in Threads, ClaimOwner(p) PROVE Types'
  <2>1. Locals'
    BY <1>1, <1>12, Moves DEF ClaimOwner, Registry, Places, Steps, Statuses, Open
  <2>2. owner' \in {"free", "managed", "other"} /\ faults' \in 0..MaxFaults
    BY <1>1, <1>3, <1>12 DEF ClaimOwner, Registry
  <2> QED
    BY <1>1, <1>2, <1>5, <1>12, <2>1, <2>2 DEF ClaimOwner
<1>13. ASSUME NEW p \in Threads, NEW new \in Contents, NEW works, NEW Good, NEW Bad, Control(new, works, Good, Bad)
       PROVE  account' \in Contents /\ faults' \in 0..MaxFaults /\ (Good \/ Bad)
  BY <1>1, <1>3, <1>13 DEF Control
<1>14. ASSUME NEW p \in Threads, Entity(p) PROVE Types'
  <2> DEFINE new == IF job[p].act = "delete" THEN Gone ELSE job[p].val
             Good == Proceed(p, IF job[p].act = "resync" THEN "done" ELSE "row")
  <2>1. new \in Contents
    BY <1>1, <1>8 DEF Locals, Jobs
  <2>2. account' \in Contents /\ faults' \in 0..MaxFaults /\ (Good \/ Fail(p))
    BY <1>1, <1>3, <1>14, <2>1 DEF Control, Entity
  <2>3. Locals'
    BY <1>1, <2>2, Moves DEF Places, Steps
  <2> QED
    BY <1>1, <1>2, <1>5, <1>14, <2>2, <2>3 DEF Entity
<1>15. ASSUME NEW p \in Threads, Undo(p) PROVE Types'
  <2> DEFINE new == IF job[p].act = "create" THEN Gone ELSE job[p].old
  <2>1. new \in Contents
    BY <1>1, <1>8 DEF Locals, Jobs
  <2>2. account' \in Contents /\ faults' \in 0..MaxFaults /\ (Settle(p, "completed") \/ Fail(p))
    BY <1>1, <1>3, <1>15, <2>1 DEF Control, Undo
  <2>3. Locals'
    BY <1>1, <2>2, Moves DEF Statuses
  <2> QED
    BY <1>1, <1>2, <1>5, <1>15, <2>2, <2>3 DEF Undo
<1>16. ASSUME NEW p \in Threads, Row(p) PROVE Types'
  <2>1. job[p] \in Jobs
    BY <1>1 DEF Locals
  <2>2. CASE WriteRow(p)
    <3> DEFINE new == [job[p] EXCEPT !.fate = "completed", !.box = IF Inserts(p) THEN lastId + 1 ELSE @]
    <3> DEFINE box == IF Inserts(p) THEN lastId + 1 ELSE job[p].box
    <3>1. new \in Jobs
      <4>1. new = [job[p] EXCEPT !.fate = "completed", !.box = box] /\ box \in Nat /\ "completed" \in Statuses
        BY <1>1, <2>1 DEF Jobs, Statuses
      <4> HIDE DEF new, box
      <4> QED
        BY <2>1, <4>1 DEF Jobs
    <3>2. job' = [job EXCEPT ![p] = new] /\ \E step \in {"release", "finish"} : pc' = [pc EXCEPT ![p] = step]
      BY <1>1, <2>2 DEF WriteRow, Goto, Locals
    <3> HIDE DEF new
    <3>3. Locals'
      BY <1>1, <3>1, <3>2 DEF Locals, Starts, Places, Steps
    <3>4. row' \in [id : Nat, val : Contents, rev : Nat]
      <4>1. NoRow \in [id : Nat, val : Contents, rev : Nat]
        BY <1>8 DEF NoRow
      <4>2. row' = RowWritten(p) /\ job[p].val \in Contents /\ row \in [id : Nat, val : Contents, rev : Nat]
        BY <1>1, <2>1, <2>2 DEF WriteRow, Jobs
      <4>3. CASE Inserts(p)
        BY <1>1, <4>2, <4>3 DEF RowWritten, Inserts
      <4>4. CASE ~Inserts(p) /\ job[p].act \in {"create", "update"}
        <5> DEFINE val == IF kind = "distribution" THEN job[p].val ELSE row.val
        <5>1. row' = [row EXCEPT !.rev = row.rev + 1, !.val = val]
          BY <4>2, <4>4 DEF RowWritten
        <5>2. row.rev + 1 \in Nat /\ val \in Contents
          BY <4>2
        <5> HIDE DEF val
        <5> QED
          BY <4>2, <5>1, <5>2
      <4>5. CASE job[p].act = "password"
        BY <4>2, <4>5 DEF RowWritten, Inserts
      <4>6. CASE ~Inserts(p) /\ job[p].act \notin {"create", "update", "password"}
        BY <4>1, <4>2, <4>6 DEF RowWritten
      <4> QED
        BY <4>3, <4>4, <4>5, <4>6 DEF Inserts
    <3>5. lastId' \in Nat /\ UNCHANGED faults
      BY <1>1, <2>2 DEF WriteRow
    <3> QED
      BY <1>1, <1>2, <1>5, <1>16, <3>3, <3>4, <3>5 DEF Row
  <2>3. CASE RowFails(p)
    <3>1. Locals'
      BY <1>1, <2>3, Moves DEF RowFails, Places, Steps
    <3>2. faults' \in 0..MaxFaults /\ UNCHANGED <<row, lastId>>
      BY <1>1, <1>3, <2>3 DEF RowFails
    <3> QED
      BY <1>1, <1>2, <1>5, <1>16, <3>1, <3>2 DEF Row
  <2> QED
    BY <1>16, <2>2, <2>3 DEF Row
<1>17. ASSUME NEW p \in Threads, Finish(p) PROVE Types'
  <2>1. Locals'
    BY <1>1, <1>17, Moves DEF Finish, Places, Steps
  <2>2. Logs'
    <3>1. DOMAIN ops' = DOMAIN ops /\ Len(ops') = Len(ops)
      BY <1>1, <1>17 DEF Finish
    <3>2. job[p].fate \in Statuses /\ job[p].box \in Nat
      BY <1>1 DEF Locals, Jobs
    <3>3. \A i \in DOMAIN ops : ops'[i] \in Operations
      <4>1. SUFFICES ASSUME NEW i \in DOMAIN ops PROVE ops'[i] \in Operations
        OBVIOUS
      <4>2. ops[i] \in Operations
        BY <1>1
      <4>3. CASE i # job[p].op
        BY <1>1, <1>17, <4>2, <4>3 DEF Finish
      <4>4. CASE i = job[p].op
        <5> DEFINE box == IF job[p].fate = "completed" THEN job[p].box ELSE ops[i].box
        <5>1. ops'[i] = [ops[i] EXCEPT !.status = job[p].fate, !.box = box]
          BY <1>1, <1>17, <4>4 DEF Finish
        <5>2. box \in Nat
          BY <3>2, <4>2 DEF Operations
        <5> HIDE DEF box
        <5> QED
          BY <3>2, <4>2, <5>1, <5>2 DEF Operations
      <4> QED
        BY <4>3, <4>4
    <3>4. ops' \in Seq(Operations)
      <4>1. DOMAIN ops = 1..Len(ops) /\ Len(ops) \in Nat
        BY <1>1
      <4>2. ops' = [i \in 1..Len(ops) |-> ops'[i]]
        BY <1>17, <4>1 DEF Finish
      <4>3. \A i \in 1..Len(ops) : ops'[i] \in Operations
        BY <3>3, <4>1
      <4>4. ops' \in [1..Len(ops) -> Operations]
        BY <4>2, <4>3, Zenon
      <4> QED
        BY <4>1, <4>4
    <3> QED
      BY <1>1, <1>17, <3>1, <3>4 DEF Finish
  <2> QED
    BY <1>1, <1>2, <1>17, <2>1, <2>2 DEF Finish
<1>18. ASSUME NEW p \in Threads, Release(p) PROVE Types'
  <2>1. Locals'
    BY <1>1, <1>18, Moves DEF Release, Registry, Places, Steps, Statuses
  <2>2. Logs'
    <3>1. Record("release", 0, Gone, 0) \in Operations
      BY <1>8 DEF Record, Operations, Actions, Statuses, Open
    <3>2. ops' = ops \/ ops' = Append(ops, Record("release", 0, Gone, 0))
      BY <1>18 DEF Release, Registry
    <3> DEFINE rec == Record("release", 0, Gone, 0)
    <3> HIDE DEF rec
    <3>3. ops' \in Seq(Operations) /\ DOMAIN ops \subseteq DOMAIN ops'
      BY <1>1, <3>1, <3>2 DEF rec
    <3> QED
      BY <1>1, <1>18, <3>3 DEF Release
  <2>3. owner' \in {"free", "managed", "other"} /\ faults' \in 0..MaxFaults
    BY <1>1, <1>3, <1>18 DEF Release, Registry
  <2> QED
    BY <1>1, <1>2, <1>18, <2>1, <2>2, <2>3 DEF Release
<1>19. ASSUME SyncList \/ SyncClaim PROVE Types'
  <2>1. Locals'
    BY <1>1, <1>8, <1>19, Moves DEF SyncList, SyncClaim, Places
  <2>2. owner' \in {"free", "managed", "other"} /\ faults' \in 0..MaxFaults
    BY <1>1, <1>3, <1>19 DEF SyncList, SyncClaim, Registry
  <2> QED
    BY <1>1, <1>2, <1>5, <1>19, <2>1, <2>2 DEF SyncList, SyncClaim
<1>20. ASSUME ClaimStale PROVE Types'
  <2>1. Locals' /\ raced' \in BOOLEAN
    <3>1. Locals'
      BY <1>1, <1>8, <1>20, Moves DEF ClaimStale, Places
    <3> QED
      BY <1>1, <1>20, <3>1 DEF ClaimStale
  <2>2. Logs'
    <3>1. PICK S \in SUBSET {i \in DOMAIN ops : Claimable(i)} :
            /\ batch' = S
            /\ ops' = [i \in DOMAIN ops |-> IF i \in S THEN [ops[i] EXCEPT !.status = "reconciling"]
                                            ELSE ops[i]]
      BY <1>20 DEF ClaimStale
    <3>2. "reconciling" \in Statuses
      BY DEF Statuses, Open
    <3>3. \A i \in DOMAIN ops : ops[i] \in Operations
      BY <1>1
    <3>4. \A i \in DOMAIN ops : ops'[i] \in Operations
      BY <3>1, <3>2, <3>3 DEF Operations
    <3>5. DOMAIN ops = 1..Len(ops) /\ Len(ops) \in Nat
      BY <1>1
    <3>6. ops' \in Seq(Operations)
      BY <3>1, <3>4, <3>5
    <3> QED
      BY <3>1, <3>6
  <2> QED
    BY <1>1, <1>2, <1>20, <2>1, <2>2 DEF ClaimStale
<1>21. ASSUME Pick PROVE Types'
  <2>1. CASE Proceed(Worker, "idle") /\ UNCHANGED <<ops, batch, raced>>
    BY <1>1, <1>2, <1>5, <1>8, <1>21, <2>1, Moves DEF Pick, Places
  <2>2. CASE \E i \in batch : Superseded(i) /\ batch' = batch \ {i} /\ Proceed(Worker, "pick")
                 /\ ops' = [ops EXCEPT ![i].status = "completed"] /\ UNCHANGED raced
    <3>1. Locals'
      BY <1>1, <1>8, <2>2, Moves DEF Places
    <3>2. PICK i \in batch : ops' = [ops EXCEPT ![i].status = "completed"] /\ batch' = batch \ {i}
      BY <2>2
    <3>3. Logs'
      <4>1. "completed" \in Statuses /\ i \in DOMAIN ops /\ ops[i] \in Operations
        BY <1>1, <3>2 DEF Statuses
      <4>2. [ops[i] EXCEPT !.status = "completed"] \in Operations
        BY <4>1 DEF Operations
      <4>3. ops' \in Seq(Operations) /\ DOMAIN ops' = DOMAIN ops
        BY <1>1, <3>2, <4>1, <4>2
      <4> QED
        BY <1>1, <3>2, <4>3
    <3> QED
      BY <1>1, <1>2, <1>21, <2>2, <3>1, <3>3 DEF Pick
  <2>3. CASE \E i \in batch : Goto(Worker, "load") /\ UNCHANGED ops /\ batch' = batch \ {i}
                 /\ job' = [job EXCEPT ![Worker] =
                      Job(ops[i].action, ops[i].val, Gone, ops[i].rev, ops[i].box, i)]
                 /\ raced' = (raced \/ HandlerBusy)
    <3>1. PICK i \in batch : /\ Goto(Worker, "load") /\ UNCHANGED ops /\ batch' = batch \ {i}
                             /\ job' = [job EXCEPT ![Worker] =
                                  Job(ops[i].action, ops[i].val, Gone, ops[i].rev, ops[i].box, i)]
                             /\ raced' = (raced \/ HandlerBusy)
      BY <2>3
    <3> DEFINE new == Job(ops[i].action, ops[i].val, Gone, ops[i].rev, ops[i].box, i)
    <3>2. new \in Jobs
      <4>1. new = [act |-> ops[i].action, val |-> ops[i].val, old |-> Gone, rev |-> ops[i].rev,
                   box |-> ops[i].box, op |-> i, fate |-> "pending"]
        BY DEF Job
      <4>2. ops[i] \in Operations /\ i \in Nat /\ "pending" \in Statuses
        BY <1>1 DEF Statuses, Open
      <4> HIDE DEF new
      <4> QED
        BY <1>8, <4>1, <4>2 DEF Jobs, Operations
    <3> HIDE DEF new
    <3>3. job' = [job EXCEPT ![Worker] = new]
      BY <3>1 DEF new
    <3>4. pc' = [pc EXCEPT ![Worker] = "load"] /\ "load" \in Places
      BY <3>1 DEF Goto, Places
    <3>5. Locals'
      BY <1>1, <1>8, <3>2, <3>3, <3>4 DEF Locals, Starts
    <3>6. Logs' /\ raced' \in BOOLEAN
      BY <1>1, <3>1
    <3> QED
      BY <1>1, <1>2, <1>21, <3>5, <3>6 DEF Pick
  <2> QED
    BY <1>21, <2>1, <2>2, <2>3 DEF Pick
<1>22. ASSUME Load PROVE Types'
  <2>1. Locals'
    <3>1. CASE job[Worker].act = "create"
      <4> DEFINE new == [job[Worker] EXCEPT !.box = row.id, !.rev = row.rev]
      <4>1. job[Worker] \in Jobs /\ row.id \in Nat /\ row.rev \in Nat
        BY <1>1, <1>8 DEF Locals
      <4>2. new \in Jobs /\ "claim" \in Places
        BY <4>1 DEF Jobs, Places, Steps
      <4>3. pc' = [pc EXCEPT ![Worker] = "claim"] /\ (job' = job \/ job' = [job EXCEPT ![Worker] = new])
        BY <1>1, <1>8, <1>22, <3>1 DEF Load, Goto, Locals
      <4> HIDE DEF new
      <4> QED
        BY <1>1, <1>8, <4>2, <4>3 DEF Locals, Starts
    <3>2. CASE job[Worker].act # "create"
      <4>1. Fail(Worker) \/ \E step \in {"entity", "row", "release"} : Proceed(Worker, step)
        BY <1>22, <3>2 DEF Load
      <4> QED
        BY <1>1, <1>8, <4>1, Moves DEF Places, Steps
    <3> QED
      BY <3>1, <3>2
  <2> QED
    BY <1>1, <1>2, <1>5, <1>22, <2>1 DEF Load
<1>23. ASSUME Crash PROVE Types'
  <2>1. Locals'
    <3>1. job' \in [Threads -> Jobs]
      BY <1>1, <1>23, Moves, <1>8 DEF Crash
    <3>2. pc' \in [Threads -> Places] /\ \A p \in Threads : pc'[p] \in {"idle", "done"}
      BY <1>23 DEF Crash, Places
    <3> QED
      BY <3>1, <3>2 DEF Locals, Starts
  <2> QED
    BY <1>1, <1>2, <1>3, <1>23, <2>1 DEF Crash
<1>24. CASE TakeLogin
  BY <1>1, <1>2, <1>5, <1>24 DEF TakeLogin, Locals, Starts
<1>25. CASE UNCHANGED vars
  BY <1>25 DEF Types, TypeOK, Starts, vars
<1> QED
  BY <1>9, <1>10, <1>11, <1>12, <1>14, <1>15, <1>16, <1>17, <1>18, <1>19, <1>20, <1>21, <1>22, <1>23, <1>24,
     <1>25 DEF Next, Continue, Work, Finished

(* The first state has the types. *)
LEMMA TypesAtStart ==
  ASSUME ConstantsAssumption, Init
  PROVE  Types
<1>1. Types
  <2>1. NoJob \in Jobs
    BY DEF NoJob, Job, Jobs, Contents, Statuses, Open
  <2>2. /\ kind \in Kinds /\ account \in Contents /\ owner \in {"free", "managed", "other"}
        /\ row \in [id : Nat, val : Contents, rev : Nat] /\ lastId \in Nat
    BY DEF Init, Contents, NoRow
  <2>3. ops \in Seq(Operations) /\ batch \subseteq DOMAIN ops
    BY DEF Init
  <2>4. pc \in [Threads -> Places] /\ job \in [Threads -> Jobs] /\ Starts
    BY <2>1 DEF Init, Places, Starts
  <2>5. raced \in BOOLEAN /\ faults \in 0..MaxFaults
    <3>1. raced = FALSE /\ faults = 0
      BY DEF Init
    <3>2. 0 \in 0..MaxFaults
      BY ConstantsAssumption, SMT DEF ConstantsAssumption
    <3> QED
      BY <3>1, <3>2
  <2> QED
    BY <2>2, <2>3, <2>4, <2>5 DEF Types, TypeOK, Operations, Places, Jobs
<1> QED
  BY <1>1

(* So they always hold. *)
LEMMA TypesHold == Spec => []Types
<1>1. Init => Types
  BY ConstantsAssumption, TypesAtStart
<1>2. Types /\ [Next]_vars => Types'
  BY ConstantsAssumption, TypesInductive
<1> QED
  BY <1>1, <1>2, PTL DEF Spec

(* The two tables, the registry of logins and the threads' locals keep     *)
(* their shape.                                                            *)
THEOREM TypeCorrect == Spec => []TypeOK
<1>1. Types => TypeOK
  BY DEF Types
<1> QED
  BY <1>1, TypesHold, PTL

-----------------------------------------------------------------------------
(* Why account and row agree in the end.                                   *)

(* The operation that no later one supersedes. *)
Last(i) ==
  /\ i \in DOMAIN ops /\ ops[i].status # "failed"
  /\ \A j \in DOMAIN ops : j > i => ops[j].status = "failed"

Agreed == IF row = NoRow THEN account = Gone ELSE account = row.val

(* What redoing an open operation relies on. *)
Mends(o) ==
  /\ o.action = "create" =>
       row = NoRow \/ kind = "distribution" \/ (o.val = row.val /\ account = row.val)
  /\ o.action = "delete" => row = NoRow \/ row.id = o.box
  /\ o.action = "update" /\ kind = "mailbox" => Agreed
  /\ o.action = "release" => row = NoRow /\ account = Gone

(* Only creations and releases name no row. *)
Named(o) == IF o.action \in {"create", "release"} THEN o.box = 0 ELSE o.box >= 1

Log ==
  /\ \A i \in DOMAIN ops : Last(i) /\ IsOpen(i) => Mends(ops[i])
  /\ Agreed \/ \E i \in DOMAIN ops : Last(i) /\ IsOpen(i)
  /\ \A i \in DOMAIN ops : IsOpen(i) => Named(ops[i])
  /\ \A i \in batch : IsOpen(i)
  /\ row # NoRow => owner # "free" /\ row.id >= 1

Working(p) == pc[p] \in Steps

(* It has logged an operation, which it has not closed. *)
Started(p) ==
  /\ Working(p) /\ pc[p] \notin {"available", "start"}
  /\ job[p].act # "resync" /\ ~(pc[p] = "release" /\ job[p].act = "create")

(* A creation, and a deletion, that is through with the row. *)
Inserted(p) ==
  pc[p] = "finish" /\ job[p].act = "create" /\ job[p].fate = "completed" /\ job[p].box # 0
Removed(p) == job[p].act = "delete" /\ job[p].fate = "completed"

(* Handlers at work find the row as they read it. *)
Knows(p) ==
  LET j == job[p] IN
  /\ j.act \in HandlerActions \cup {"resync"}
  /\ j.act = "resync" => pc[p] = "entity" /\ j.val = row.val
  /\ pc[p] \in {"available", "claim"} => j.act = "create"
  /\ pc[p] = "undo" => j.act \in {"create", "password", "update"}
  /\ j.fate # "reconciling" /\ (pc[p] \notin {"finish", "release"} => j.fate = "pending")
  /\ j.act = "create" /\ ~Inserted(p) => row = NoRow /\ j.box = 0
  /\ j.act = "create" /\ (pc[p] \in {"start", "claim"} \/ (pc[p] = "finish" /\ j.fate # "pending" /\ j.box = 0))
       => account = Gone
  /\ j.fate = "failed" => j.act = "create" /\ ~Inserted(p)
  /\ Removed(p) => row = NoRow /\ account = Gone /\ pc[p] \in {"release", "finish"}
  /\ j.act # "create" /\ ~Removed(p) =>
       row # NoRow /\ row.id = j.box /\ pc[p] # "release" /\ (pc[p] # "finish" => j.old = row.val)

OpOf(p) ==
  LET j == job[p] IN
  /\ j.op \in DOMAIN ops /\ j.op \notin batch
  /\ ops[j.op].action = j.act /\ ops[j.op].val = j.val
  /\ j.act # "create" => ops[j.op].box = j.box

(* Its operation is open, and until it is settled no later one counts. *)
Holds(p) ==
  Started(p) =>
    /\ OpOf(p) /\ ops[job[p].op].status = "pending"
    /\ pc[p] \in {"claim", "entity", "row", "undo"} => Last(job[p].op)

(* What the steps behind it have achieved, of a handler and of the worker. *)
Reached(p) ==
  LET j == job[p] IN
  /\ j.act = "create" /\ pc[p] \in {"entity", "row"} => owner # "free"
  /\ pc[p] \in {"entity", "undo"} => ~(j.act = "update" /\ kind = "mailbox")
  /\ pc[p] \in {"entity", "row"} => j.act # "release"
  /\ pc[p] = "row" =>
       /\ j.act = "delete" => account = Gone
       /\ j.act \in {"create", "password"} \/ (j.act = "update" /\ kind = "distribution")
            => account = j.val
  /\ pc[p] = "release" => row = NoRow /\ account = Gone
  /\ pc[p] = "finish" /\ j.fate = "completed" /\ Last(j.op) => Agreed

Handler(p) == Working(p) => Knows(p) /\ Holds(p) /\ Reached(p)

(* Two handlers only meet when one creates, and either the row is there    *)
(* already or the other is through with the row before.                    *)
Meet(p, q) ==
  /\ job[p].act = "create" /\ job[q].act # "create"
  /\ Inserted(p) \/ (pc[p] \in {"available", "start"} /\ Removed(q))
Apart(p, q) ==
  Working(p) /\ Working(q) =>
    /\ Meet(p, q) \/ Meet(q, p)
    /\ Started(p) /\ Started(q) => job[p].op # job[q].op

Redoes ==
  LET j == job[Worker] IN
  WorkerBusy =>
    /\ \A q \in Requests : ~Working(q)
    /\ OpOf(Worker) /\ Last(j.op) /\ IsOpen(j.op)
    /\ pc[Worker] \notin {"available", "start", "undo"}
    /\ pc[Worker] = "claim" => j.act = "create"
    /\ pc[Worker] = "release" => j.act # "create"
    /\ j.fate \in {"pending", "completed"}
    /\ Reached(Worker)

Handlers ==
  /\ \A p \in Requests : Handler(p)
  /\ \A p, q \in Requests : p # q => Apart(p, q)

Kept == Log /\ Handlers /\ Redoes
KeptOrRaced == raced \/ Kept

(* At most one operation is the last. *)
LEMMA OneLast ==
  ASSUME Types, NEW i, NEW j, Last(i), Last(j)
  PROVE  i = j
<1>1. DOMAIN ops \subseteq Int
  BY DEF Types, TypeOK
<1> QED
  BY <1>1 DEF Last

(* What a working handler's invariant says of it. *)
LEMMA OfHandler ==
  ASSUME Kept, NEW p \in Requests, Working(p)
  PROVE  /\ Knows(p) /\ Holds(p) /\ Reached(p)
         /\ ~WorkerBusy
         /\ \A q \in Requests \ {p} : Working(q) => Meet(p, q) \/ Meet(q, p)
BY DEF Kept, Handlers, Handler, Redoes, Apart

(* A creation between its start and its INSERT is alone. *)
LEMMA Alone ==
  ASSUME Kept, NEW p \in Requests, Working(p), job[p].act = "create", ~Inserted(p),
         pc[p] \notin {"available", "start"}
  PROVE  \A q \in Requests \ {p} : ~Working(q)
BY OfHandler DEF Meet

(* A handler that has not finished deleting meets only a finished creation. *)
LEMMA OnlyInserted ==
  ASSUME Kept, NEW p \in Requests, Working(p), job[p].act # "create", ~Removed(p),
         NEW q \in Requests \ {p}, Working(q)
  PROVE  Inserted(q)
BY OfHandler DEF Meet

(* What a creation that has written its row keeps, whatever others do.     *)
LEMMA InsertedKeeps ==
  ASSUME NEW q, Handler(q), Working(q), Inserted(q), pc'[q] = pc[q], job'[q] = job[q],
         UNCHANGED <<kind, batch>>, job[q].op \in DOMAIN ops', ops'[job[q].op] = ops[job[q].op],
         Last(job[q].op)' => Agreed'
  PROVE  Handler(q)'
<1>1. Knows(q) /\ Holds(q) /\ Started(q)
  BY DEF Handler, Inserted, Started
<1>2. Knows(q)'
  BY <1>1 DEF Knows, Inserted, Removed
<1>3. Holds(q)'
  BY <1>1 DEF Holds, Inserted, OpOf
<1>4. Reached(q)'
  BY DEF Reached, Inserted
<1> QED
  BY <1>2, <1>3, <1>4 DEF Handler

(* And a creation that has not logged anything yet. *)
LEMMA FreshKeeps ==
  ASSUME NEW q, Handler(q), pc[q] \in {"available", "start"}, job[q].act = "create",
         pc'[q] = pc[q], job'[q] = job[q], UNCHANGED <<account, row>>
  PROVE  Handler(q)'
<1>1. Knows(q) /\ Working(q)
  BY DEF Handler, Working, Steps
<1>2. Knows(q)'
  BY <1>1 DEF Knows, Inserted, Removed
<1>3. Holds(q)'
  BY DEF Holds, Started
<1>4. Reached(q)'
  BY DEF Reached
<1> QED
  BY <1>2, <1>3, <1>4 DEF Handler

(* And any handler, while account, row and its own operation stay.         *)
LEMMA HandlerKeeps ==
  ASSUME NEW q, Handler(q), pc'[q] = pc[q], job'[q] = job[q], UNCHANGED <<kind, account, row>>,
         owner # "free" => owner' # "free", batch' \subseteq batch,
         Started(q) =>
           /\ job[q].op \in DOMAIN ops' /\ ops'[job[q].op] = ops[job[q].op]
           /\ Last(job[q].op)' <=> Last(job[q].op)
  PROVE  Handler(q)'
<1> SUFFICES ASSUME Working(q)' PROVE (Knows(q) /\ Holds(q) /\ Reached(q))'
  BY DEF Handler
<1>1. Working(q) /\ Knows(q) /\ Holds(q) /\ Reached(q) /\ (Started(q)' <=> Started(q))
  BY DEF Handler, Working, Started
<1>2. Knows(q)'
  BY <1>1 DEF Knows, Inserted, Removed
<1>3. Holds(q)'
  <2> SUFFICES ASSUME Started(q) PROVE Holds(q)'
    BY <1>1 DEF Holds
  <2> QED
    BY <1>1 DEF Holds, OpOf
<1>4. Reached(q)'
  <2>1. pc[q] = "finish" => Started(q)
    BY <1>1 DEF Knows, Started
  <2> QED
    BY <1>1, <2>1 DEF Reached, Agreed
<1> QED
  BY <1>2, <1>3, <1>4

(* Two that met keep apart while neither starts over. *)
LEMMA ApartKeeps ==
  ASSUME NEW p \in Requests, NEW q \in Requests, p # q, Apart(p, q), Working(p), Working(q),
         pc'[q] = pc[q], job'[q] = job[q],
         job'[p].act = job[p].act, Inserted(p) => Inserted(p)', Removed(p) => Removed(p)',
         job[p].act = "create" /\ pc[p] \in {"available", "start"} => pc'[p] \in {"available", "start"},
         Started(p)' /\ Started(q) => job'[p].op # job[q].op
  PROVE  Apart(p, q)'
<1>1. Inserted(q)' <=> Inserted(q)
  BY DEF Inserted
<1>2. Removed(q)' <=> Removed(q)
  BY DEF Removed
<1>3. Started(q)' <=> Started(q)
  BY DEF Started, Working
<1>4. Meet(p, q)' \/ Meet(q, p)'
  BY <1>1, <1>2 DEF Apart, Meet
<1> QED
  BY <1>3, <1>4 DEF Apart

(* A step of one handler keeps the invariant if it keeps its own part, and *)
(* what the others at work rely on.                                        *)
LEMMA HandlerStep ==
  ASSUME Kept, NEW p \in Requests, ConstantsAssumption,
         WorkerBusy => Redoes' /\ ~Working(p)',
         \A q \in Threads \ {p} : pc'[q] = pc[q] /\ job'[q] = job[q],
         Log', Handler(p)',
         \A q \in Requests \ {p} : Working(q) => Handler(q)' /\ (Working(p)' => Apart(p, q)')
  PROVE  Kept'
<1>1. Requests \subseteq Threads /\ Worker \in Threads /\ Worker \notin Requests
  BY DEF Threads, Requests, ConstantsAssumption
<1>2. Redoes'
  <2> SUFFICES ASSUME ~WorkerBusy PROVE Redoes'
    OBVIOUS
  <2>2. pc'[Worker] = pc[Worker]
    BY <1>1
  <2> QED
    BY <2>2 DEF Redoes, WorkerBusy
<1>3. \A q \in Requests : Handler(q)'
  BY <1>1 DEF Handler, Working
<1>4. \A q, r \in Requests : q # r => Apart(q, r)'
  <2> SUFFICES ASSUME NEW q \in Requests, NEW r \in Requests, q # r, Working(q)', Working(r)'
               PROVE  Apart(q, r)'
    BY DEF Apart
  <2>1. CASE q = p
    BY <1>1, <2>1 DEF Working
  <2>2. CASE r = p
    <3>1. Apart(r, q)'
      BY <1>1, <2>2 DEF Working
    <3> QED
      BY <3>1 DEF Apart
  <2>3. CASE q # p /\ r # p
    <3>1. Apart(q, r) /\ pc'[q] = pc[q] /\ job'[q] = job[q] /\ pc'[r] = pc[r] /\ job'[r] = job[r]
      BY <1>1, <2>3 DEF Kept, Handlers
    <3> QED
      BY <3>1 DEF Apart, Meet, Inserted, Removed, Started, Working
  <2> QED
    BY <2>1, <2>2, <2>3
<1> QED
  BY <1>2, <1>3, <1>4 DEF Kept, Handlers

(* Nothing of the log's part changes. *)
LEMMA LogStands ==
  ASSUME Log, UNCHANGED <<kind, account, ops>>, batch' \subseteq batch,
         row' = row \/ (row # NoRow /\ row' # NoRow /\ row'.id = row.id /\ row'.val = row.val),
         row # NoRow /\ owner # "free" => owner' # "free"
  PROVE  Log'
<1>1. Agreed' <=> Agreed
  BY DEF Agreed
<1>2. \A i \in DOMAIN ops : (Last(i)' <=> Last(i)) /\ (IsOpen(i)' <=> IsOpen(i)) /\ ops'[i] = ops[i]
  BY DEF Last, IsOpen
<1>3. \A i \in DOMAIN ops : Mends(ops[i]) => Mends(ops[i])'
  BY <1>1 DEF Mends
<1>4. DOMAIN ops' = DOMAIN ops
  OBVIOUS
<1>5. \A i \in DOMAIN ops' : Last(i)' /\ IsOpen(i)' => Mends(ops[i])'
  BY <1>2, <1>3, <1>4 DEF Log
<1>6. \A i \in DOMAIN ops' : IsOpen(i)' => Named(ops[i])'
  BY <1>2, <1>4 DEF Log, Named
<1>7. row' # NoRow => owner' # "free" /\ row'.id >= 1
  BY DEF Log
<1>8. Agreed' \/ \E i \in DOMAIN ops' : Last(i)' /\ IsOpen(i)'
  BY <1>1, <1>2, <1>4 DEF Log
<1>9. \A i \in batch' : IsOpen(i)'
  BY <1>2 DEF Log, IsOpen
<1> QED
  BY <1>5, <1>6, <1>7, <1>8, <1>9 DEF Log

(* A new operation supersedes all. *)
LEMMA LogAppend ==
  ASSUME Types, Log, NEW n, n = Len(ops) + 1,
         NEW o \in Operations, o.status = "pending", Named(o), Mends(o), ops' = Append(ops, o),
         UNCHANGED <<kind, account, row, batch>>, row # NoRow => owner' # "free"
  PROVE  /\ Log'
         /\ Last(n)' /\ n \in DOMAIN ops' /\ ops'[n] = o
         /\ \A i \in DOMAIN ops : i \in DOMAIN ops' /\ ops'[i] = ops[i] /\ ~Last(i)' /\ i # n
<1>1. /\ DOMAIN ops = 1..Len(ops) /\ Len(ops) \in Nat /\ DOMAIN ops' = 1..n
      /\ ops'[n] = o /\ \A i \in DOMAIN ops : ops'[i] = ops[i]
  BY DEF Types, TypeOK
<1>2. Last(n)' /\ \A i \in DOMAIN ops : ~Last(i)' /\ i # n /\ i \in DOMAIN ops'
  BY <1>1 DEF Last
<1>3. IsOpen(n)' /\ n \in DOMAIN ops' /\ \A i \in DOMAIN ops : IsOpen(i)' <=> IsOpen(i)
  BY <1>1 DEF IsOpen, Open
<1>4. Mends(ops[n])'
  BY <1>1 DEF Mends, Agreed
<1>5. \A i \in DOMAIN ops' : Last(i)' => i = n
  BY <1>1, <1>2
<1>6. \A i \in DOMAIN ops' : Last(i)' /\ IsOpen(i)' => Mends(ops[i])'
  BY <1>1, <1>4, <1>5
<1>7. \A i \in DOMAIN ops' : IsOpen(i)' => Named(ops[i])'
  BY <1>1, <1>3 DEF Log, Named
<1>8. \A i \in batch' : IsOpen(i)'
  BY <1>3 DEF Log, IsOpen
<1>9. row' # NoRow => owner' # "free" /\ row'.id >= 1
  BY DEF Log
<1>10. \E i \in DOMAIN ops' : Last(i)' /\ IsOpen(i)'
  BY <1>2, <1>3
<1> QED
  BY <1>1, <1>2, <1>3, <1>6, <1>7, <1>8, <1>9, <1>10 DEF Log

(* An operation is left open, or closed when account and row agree. *)
LEMMA LogSettle ==
  ASSUME Types, Log, NEW n, n \in DOMAIN ops, IsOpen(n), n \notin batch', batch' \subseteq batch,
         DOMAIN ops' = DOMAIN ops, \A i \in DOMAIN ops : i # n => ops'[i] = ops[i],
         ops'[n].action = ops[n].action, ops'[n].val = ops[n].val,
         \/ ops'[n].status = "pending" /\ ops'[n].box = ops[n].box
         \/ ops'[n].status = "completed" /\ (Last(n) => Agreed),
         UNCHANGED <<kind, account, row, owner>>
  PROVE  Log' /\ \A i \in DOMAIN ops : Last(i)' <=> Last(i)
<1>1. ops[n].status \in Open /\ ops'[n].status \in {"pending", "completed"}
  BY DEF IsOpen
<1>2. \A i \in DOMAIN ops : ops'[i].status = "failed" <=> ops[i].status = "failed"
  BY <1>1 DEF Open
<1>3. \A i \in DOMAIN ops : Last(i)' <=> Last(i)
  BY <1>2 DEF Last
<1>4. \A i \in DOMAIN ops : IsOpen(i)' => IsOpen(i) /\ (i = n => ops'[n].status = "pending" /\ ops'[n].box = ops[n].box)
  BY <1>1 DEF IsOpen, Open
<1>5. Agreed' <=> Agreed
  BY DEF Agreed
<1>6. \A i \in DOMAIN ops : IsOpen(i)' =>
        ops'[i].action = ops[i].action /\ ops'[i].val = ops[i].val /\ ops'[i].box = ops[i].box
  BY <1>4
<1>7. ASSUME NEW i \in DOMAIN ops, Last(i)', IsOpen(i)' PROVE Mends(ops[i])'
  <2>1. Mends(ops[i])
    BY <1>3, <1>4, <1>7 DEF Log
  <2> QED
    BY <1>5, <1>6, <1>7, <2>1 DEF Mends
<1>8. Agreed' \/ \E i \in DOMAIN ops : Last(i)' /\ IsOpen(i)'
  <2>1. CASE Agreed
    BY <1>5, <2>1
  <2>2. CASE ~Agreed
    <3>1. PICK i \in DOMAIN ops : Last(i) /\ IsOpen(i)
      BY <2>2 DEF Log
    <3>2. CASE i # n
      BY <1>3, <3>1, <3>2 DEF IsOpen
    <3>3. CASE i = n
      BY <1>3, <2>2, <3>1, <3>3 DEF IsOpen, Open
    <3> QED
      BY <3>2, <3>3
  <2> QED
    BY <2>1, <2>2
<1>9. \A i \in DOMAIN ops : IsOpen(i)' => Named(ops[i])'
  BY <1>4, <1>6 DEF Log, Named
<1>10. \A i \in batch' : IsOpen(i)'
  BY DEF Log, IsOpen
<1>11. row' # NoRow => owner' # "free" /\ row'.id >= 1
  BY DEF Log
<1> QED
  BY <1>3, <1>7, <1>8, <1>9, <1>10, <1>11 DEF Log

(* While the last operation is open, the account may be anything that      *)
(* redoing this operation mends.                                           *)
LEMMA LogAccount ==
  ASSUME Types, Log, NEW n \in DOMAIN ops, Last(n), IsOpen(n), Mends(ops[n])',
         UNCHANGED <<kind, row, ops, batch, owner>>
  PROVE  Log'
<1>1. \A i \in DOMAIN ops : (Last(i)' <=> Last(i)) /\ (IsOpen(i)' <=> IsOpen(i)) /\ (Last(i) => i = n)
  BY OneLast DEF Last, IsOpen
<1>2. \A i \in DOMAIN ops' : Last(i)' /\ IsOpen(i)' => Mends(ops[i])'
  BY <1>1
<1>3. (\A i \in DOMAIN ops' : IsOpen(i)' => Named(ops[i])') /\ \A i \in batch' : IsOpen(i)'
  BY <1>1 DEF Log, IsOpen, Named
<1>4. row' # NoRow => owner' # "free" /\ row'.id >= 1
  BY DEF Log
<1> QED
  BY <1>1, <1>2, <1>3, <1>4 DEF Log

(* So it is when the operation makes it what it wants. *)
LEMMA LogEntity ==
  ASSUME Types, Log, NEW p \in Threads, OpOf(p), Last(job[p].op), IsOpen(job[p].op), Reached(p),
         pc[p] = "entity", Entity(p), job[p].act # "resync"
  PROVE  Log'
<1>1. PICK n \in DOMAIN ops : n = job[p].op
  BY DEF OpOf
<1>2. UNCHANGED <<kind, row, ops, batch, owner>>
  BY DEF Entity
<1>3. account' = account \/ account' = IF job[p].act = "delete" THEN Gone ELSE job[p].val
  BY DEF Entity, Control
<1>4. Mends(ops[n])'
  <2>1. Mends(ops[n]) /\ ops[n].action = job[p].act /\ ops[n].val = job[p].val
    BY <1>1 DEF Log, OpOf
  <2>2. job[p].act # "release" /\ ~(job[p].act = "update" /\ kind = "mailbox")
    BY DEF Reached
  <2> QED
    BY <1>2, <1>3, <2>1, <2>2 DEF Mends, Agreed
<1> QED
  BY <1>1, <1>2, <1>4, LogAccount

(* Synchronising again sets what the row says. *)
LEMMA LogResync ==
  ASSUME Log, row # NoRow, account' = row.val, UNCHANGED <<kind, row, ops, batch, owner>>
  PROVE  Log' /\ Agreed'
<1>1. \A i \in DOMAIN ops : (Last(i)' <=> Last(i)) /\ (IsOpen(i)' <=> IsOpen(i))
  BY DEF Last, IsOpen
<1>2. Agreed'
  BY DEF Agreed
<1>3. \A i \in DOMAIN ops' : Last(i)' /\ IsOpen(i)' => Mends(ops[i])'
  <2>1. \A i \in DOMAIN ops : Mends(ops[i]) => Mends(ops[i])'
    BY <1>2 DEF Mends
  <2> QED
    BY <1>1, <2>1 DEF Log
<1>4. (\A i \in DOMAIN ops' : IsOpen(i)' => Named(ops[i])') /\ \A i \in batch' : IsOpen(i)'
  BY <1>1 DEF Log, IsOpen, Named
<1>5. row' # NoRow => owner' # "free" /\ row'.id >= 1
  BY DEF Log
<1> QED
  BY <1>2, <1>3, <1>4, <1>5 DEF Log

(* The row is written when the account is as the operation wants it. *)
LEMMA LogRow ==
  ASSUME ConstantsAssumption, Types, Log, NEW p \in Threads, OpOf(p), Last(job[p].op), IsOpen(job[p].op),
         Reached(p), pc[p] = "row", WriteRow(p), UNCHANGED <<kind, account, owner, ops, batch>>
  PROVE  /\ Log' /\ Agreed' /\ (job[p].act = "delete" => row' = NoRow)
         /\ job[p].act # "delete" => row' # NoRow /\ (~Inserts(p) => row'.id = job[p].box)
<1>0. PICK n \in DOMAIN ops : n = job[p].op
  BY DEF OpOf
<1>1. /\ n \in DOMAIN ops /\ ops[n].action = job[p].act /\ ops[n].val = job[p].val
      /\ job[p].act \in Actions /\ Mends(ops[n]) /\ Named(ops[n])
      /\ (job[p].act # "create" => ops[n].box = job[p].box)
  <2>1. ops[n].action \in Actions
    <3>1. \A s \in Seq(Operations) : \A i \in DOMAIN s : s[i] \in Operations
      OBVIOUS
    <3> QED
      BY <3>1 DEF Types, TypeOK, Operations
  <2> QED
    BY <1>0, <2>1 DEF OpOf, Log
<1>2. /\ row \in [id : Nat, val : Contents, rev : Nat] /\ lastId \in Nat
      /\ job[p].act # "resync" /\ job[p].act # "release" /\ job[p].act # "none"
  BY <1>1 DEF Types, TypeOK, Reached, Actions, HandlerActions
<1> DEFINE Written ==
             /\ Agreed' /\ Mends(ops[n])' /\ (row' # NoRow => row'.id >= 1)
             /\ IF job[p].act = "delete" THEN row' = NoRow
                ELSE owner # "free" /\ row' # NoRow /\ (~Inserts(p) => row'.id = job[p].box)
<1>3. ASSUME Inserts(p) PROVE Written
  <2>1. row' = [id |-> lastId + 1, val |-> job[p].val, rev |-> 1]
    BY <1>3 DEF WriteRow, RowWritten, Inserts
  <2>2. row' # NoRow /\ row'.id >= 1
    BY <1>2, <2>1 DEF NoRow
  <2>3. account = job[p].val /\ owner # "free" /\ job[p].act = "create"
    BY <1>3 DEF Reached, Inserts
  <2>4. Agreed'
    BY <2>1, <2>2, <2>3 DEF Agreed
  <2>5. Mends(ops[n])'
    BY <1>1, <2>1, <2>2, <2>3 DEF Mends
  <2> QED
    BY <1>3, <2>2, <2>3, <2>4, <2>5 DEF Inserts
<1>4. ASSUME ~Inserts(p), job[p].act # "delete" PROVE Written
  <2>1. job[p].box = row.id /\ row # NoRow /\ row.id >= 1 /\ owner # "free"
    <3>1. job[p].box = row.id /\ job[p].box # 0
      BY <1>1, <1>2, <1>4 DEF WriteRow, RowFits, Inserts, Named, Types, TypeOK
    <3> QED
      BY <3>1 DEF Log, NoRow
  <2>2. row'.id = row.id /\ row'.val = IF job[p].act = "password" \/ kind = "distribution" THEN job[p].val ELSE row.val
    <3>1. row' = RowWritten(p)
      BY DEF WriteRow
    <3>2. CASE job[p].act = "password"
      BY <1>2, <1>4, <3>1, <3>2 DEF RowWritten
    <3>3. CASE job[p].act \in {"create", "update"}
      <4> DEFINE val == IF kind = "distribution" THEN job[p].val ELSE row.val
      <4>1. row' = [row EXCEPT !.rev = row.rev + 1, !.val = val]
        BY <1>4, <3>1, <3>3 DEF RowWritten
      <4> HIDE DEF val
      <4>2. row'.id = row.id /\ row'.val = val
        BY <1>2, <4>1
      <4> QED
        BY <3>3, <4>2 DEF val
    <3> QED
      BY <1>1, <1>2, <1>4, <3>2, <3>3 DEF Actions, HandlerActions
  <2>3. row' # NoRow /\ row'.id >= 1
    BY <2>1, <2>2 DEF NoRow
  <2>4. account = row'.val
    <3>1. kind \in {"mailbox", "distribution"}
      BY DEF Types, TypeOK, ConstantsAssumption
    <3>2. CASE job[p].act = "password" \/ kind = "distribution"
      BY <1>1, <1>2, <1>4, <2>2, <3>2 DEF Reached, Actions, HandlerActions
    <3>3. CASE job[p].act = "update" /\ kind = "mailbox"
      BY <1>1, <2>1, <2>2, <3>3 DEF Mends, Agreed
    <3>4. CASE job[p].act = "create" /\ kind = "mailbox"
      BY <1>1, <2>1, <2>2, <3>4 DEF Mends
    <3> QED
      BY <1>1, <1>2, <1>4, <3>1, <3>2, <3>3, <3>4 DEF Actions, HandlerActions
  <2>5. Agreed'
    BY <2>3, <2>4 DEF Agreed
  <2>6. Mends(ops[n])'
    BY <1>1, <1>2, <1>4, <2>1, <2>2, <2>3, <2>4, <2>5 DEF Mends
  <2> QED
    BY <1>4, <2>1, <2>2, <2>3, <2>5, <2>6
<1>5. ASSUME job[p].act = "delete" PROVE Written
  <2>1. account = Gone /\ (row = NoRow \/ row.id = job[p].box)
    BY <1>1, <1>5 DEF Reached, Mends
  <2>2. row' = NoRow
    BY <1>5, <2>1 DEF WriteRow, RowWritten, Inserts
  <2>3. Agreed' /\ Mends(ops[n])'
    BY <1>1, <1>5, <2>1, <2>2 DEF Agreed, Mends
  <2> QED
    BY <1>5, <2>2, <2>3
<1>6. Written
  BY <1>3, <1>4, <1>5
<1>7. /\ n \in DOMAIN ops
      /\ \A i \in DOMAIN ops : (Last(i)' <=> Last(i)) /\ (IsOpen(i)' <=> IsOpen(i)) /\ (Last(i) => i = n)
  BY <1>0, OneLast DEF Last, IsOpen
<1>8. \A i \in DOMAIN ops' : Last(i)' /\ IsOpen(i)' => Mends(ops[i])'
  BY <1>6, <1>7
<1>9. (\A i \in DOMAIN ops' : IsOpen(i)' => Named(ops[i])') /\ \A i \in batch' : IsOpen(i)'
  BY <1>7 DEF Log, IsOpen, Named
<1>10. row' # NoRow => owner' # "free" /\ row'.id >= 1
  BY <1>6
<1> QED
  BY <1>6, <1>8, <1>9, <1>10 DEF Log

(* No handler and no operation changes: the others keep what they know. *)
LEMMA SameOps ==
  ASSUME Types, Kept, NEW q \in Requests, pc'[q] = pc[q], job'[q] = job[q],
         UNCHANGED <<kind, account, row, ops, batch>>, owner # "free" => owner' # "free"
  PROVE  Handler(q)'
<1>1. Handler(q)
  BY DEF Kept, Handlers
<1>2. Started(q) => job[q].op \in DOMAIN ops
  BY <1>1 DEF Handler, Started, Holds, OpOf
<1>3. Last(job[q].op)' <=> Last(job[q].op)
  BY DEF Last
<1> QED
  BY <1>1, <1>2, <1>3, HandlerKeeps

(* Of what a new request finds. *)
LEMMA Arrived ==
  ASSUME ConstantsAssumption, Types, Kept, NEW p \in Requests, NEW a, NEW content, NEW step, ~raced',
         pc[p] = "idle", LockFree(a, row.id), NewJob(p, a, content), Goto(p, step),
         \/ a = "create" /\ row = NoRow /\ step = "available"
         \/ a \in {"update", "password", "delete"} /\ row # NoRow /\ step = "start"
         \/ a = "resync" /\ row # NoRow /\ step = "entity" /\ content = row.val,
         UNCHANGED <<kind, account, owner, row, lastId, ops, batch, faults>>
  PROVE  Kept'
<1>1. /\ ~WorkerBusy /\ ~Working(p)
      /\ Requests \subseteq Threads /\ pc \in [Threads -> Places] /\ job \in [Threads -> Jobs]
  BY DEF NewJob, Working, Steps, Threads, Types, TypeOK, Places, Jobs
<1>2. /\ \A q \in Threads \ {p} : pc'[q] = pc[q] /\ job'[q] = job[q]
      /\ pc'[p] = step /\ job'[p] = Job(a, content, row.val, row.rev, row.id, 0)
  BY <1>1 DEF NewJob, Goto
<1>3. /\ job'[p].act = a /\ job'[p].val = content /\ job'[p].old = row.val /\ job'[p].box = row.id
      /\ job'[p].fate = "pending"
  BY <1>2 DEF Job
<1>4. Log'
  BY LogStands DEF Kept
<1>5. ~Started(p)' /\ ~Inserted(p)' /\ ~Removed(p)'
  BY <1>2, <1>3 DEF Started, Inserted, Removed
<1>6. Handler(p)'
  <2>1. Knows(p)'
    BY <1>2, <1>3, <1>5 DEF Knows, HandlerActions, NoRow
  <2>2. Holds(p)' /\ Reached(p)'
    BY <1>2, <1>3, <1>5 DEF Holds, Reached
  <2> QED
    BY <2>1, <2>2 DEF Handler
<1>7. ASSUME NEW q \in Requests \ {p}, Working(q) PROVE Handler(q)' /\ Apart(p, q)'
  <2>1. pc'[q] = pc[q] /\ job'[q] = job[q]
    BY <1>1, <1>2
  <2>2. Handler(q)'
    BY <2>1, SameOps
  <2>3. Knows(q) /\ LockFree(a, row.id)
    BY <1>7, OfHandler
  <2>4. Meet(p, q)' \/ Meet(q, p)'
    <3>1. CASE a = "create"
      <4>1. job[q].act # "create"
        BY <1>7, <2>3, <3>1 DEF LockFree, Working
      <4>2. Removed(q)
        BY <2>3, <3>1, <4>1 DEF Knows
      <4> QED
        BY <1>2, <1>3, <2>1, <3>1, <4>1, <4>2 DEF Meet, Removed
    <3>2. CASE a # "create"
      <4>1. row # NoRow
        BY <3>2
      <4>2. job[q].act = "create"
        BY <1>7, <2>3, <3>2, <4>1 DEF LockFree, Knows, Working
      <4>3. Inserted(q)
        BY <2>3, <4>1, <4>2 DEF Knows
      <4> QED
        BY <1>3, <2>1, <3>2, <4>2, <4>3 DEF Meet, Inserted
    <3> QED
      BY <3>1, <3>2
  <2> QED
    BY <1>5, <2>2, <2>4 DEF Apart
<1> QED
  BY <1>1, <1>2, <1>4, <1>6, <1>7, HandlerStep

(* Requests keep the invariant. *)
LEMMA BeginKeeps ==
  ASSUME ConstantsAssumption, Types, Kept, NEW p \in Requests, Begin(p), ~raced'
  PROVE  Kept'
<1>1. pc[p] = "idle"
  BY DEF Begin, BeginCreate, BeginUpdate, BeginPassword, BeginDelete, BeginResync, ChangeMembers, Refuse, Arrive
<1>2. CASE BeginCreate(p)
  <2>1. LockFree("create", row.id)
    BY <1>2 DEF BeginCreate, Arrive, LockFree
  <2> QED
    BY <1>1, <1>2, <2>1, Arrived DEF BeginCreate
<1>3. CASE BeginUpdate(p)
  <2>1. LockFree("update", row.id)
    BY <1>3 DEF BeginUpdate, Arrive
  <2> QED
    BY <1>1, <1>3, <2>1, Arrived DEF BeginUpdate
<1>4. CASE BeginPassword(p)
  <2>1. LockFree("password", row.id)
    BY <1>4 DEF BeginPassword, Arrive
  <2> QED
    BY <1>1, <1>4, <2>1, Arrived DEF BeginPassword
<1>5. CASE BeginDelete(p)
  <2>1. LockFree("delete", row.id)
    BY <1>5 DEF BeginDelete, Arrive
  <2> QED
    BY <1>1, <1>5, <2>1, Arrived DEF BeginDelete
<1>6. CASE BeginResync(p)
  <2>1. LockFree("resync", row.id)
    BY <1>6 DEF BeginResync, Arrive
  <2> QED
    BY <1>1, <1>6, <2>1, Arrived DEF BeginResync
<1>7. CASE ChangeMembers(p) \/ \E box \in 1..lastId : Refuse(p, box)
  <2>1. /\ Proceed(p, "done") /\ UNCHANGED <<kind, account, owner, ops, batch>>
        /\ row' = row \/ (row # NoRow /\ row' = [row EXCEPT !.rev = row.rev + 1] /\ LockFree("members", row.id))
    BY <1>7 DEF ChangeMembers, Refuse, Arrive
  <2>2. /\ Requests \subseteq Threads /\ Worker \in Threads /\ Worker \notin Requests
        /\ pc \in [Threads -> Places] /\ job \in [Threads -> Jobs]
        /\ row \in [id : Nat, val : Contents, rev : Nat]
    BY DEF Threads, Requests, ConstantsAssumption, Types, TypeOK, Places, Jobs
  <2>3. /\ \A q \in Threads \ {p} : pc'[q] = pc[q] /\ job'[q] = job[q]
        /\ pc'[p] = "done" /\ ~Working(p)' /\ ~Working(p)
    BY <1>1, <2>1, <2>2 DEF Proceed, Goto, Working, Steps
  <2>4. row' = row \/ (row # NoRow /\ row' # NoRow /\ row'.id = row.id /\ row'.val = row.val)
    <3> SUFFICES ASSUME row # NoRow, row' = [row EXCEPT !.rev = row.rev + 1]
                 PROVE  row' # NoRow /\ row'.id = row.id /\ row'.val = row.val
      BY <2>1
    <3>1. row'.id = row.id /\ row'.val = row.val
      BY <2>2
    <3>2. row.id >= 1
      BY DEF Kept, Log
    <3> QED
      BY <3>1, <3>2 DEF NoRow
  <2>5. Log'
    BY <2>1, <2>4, LogStands DEF Kept
  <2>6. Agreed' <=> Agreed
    BY <2>1, <2>4 DEF Agreed
  <2>7. ASSUME NEW q \in Requests \ {p}, Working(q) PROVE Handler(q)'
    <3>1. Handler(q) /\ pc'[q] = pc[q] /\ job'[q] = job[q]
      BY <2>2, <2>3 DEF Kept, Handlers
    <3>2. CASE row' = row
      BY <2>1, <3>1, <3>2, SameOps
    <3>3. CASE row # NoRow /\ LockFree("members", row.id)
      <4>1. Knows(q)
        BY <2>7, OfHandler
      <4>2. job[q].act = "create"
        BY <2>7, <3>3, <4>1 DEF LockFree, Knows, Working
      <4>3. Inserted(q)
        BY <3>3, <4>1, <4>2 DEF Knows
      <4>4. Started(q)
        BY <2>7, <4>3 DEF Started, Inserted
      <4>5. Holds(q) /\ Reached(q)
        BY <2>7, OfHandler
      <4>6. job[q].op \in DOMAIN ops /\ (Last(job[q].op) => Agreed)
        BY <4>3, <4>4, <4>5 DEF Holds, OpOf, Reached, Inserted
      <4>7. Last(job[q].op)' => Agreed'
        BY <2>1, <2>6, <3>1, <4>6 DEF Last
      <4> QED
        BY <2>1, <2>7, <3>1, <4>3, <4>6, <4>7, InsertedKeeps
    <3> QED
      BY <2>1, <3>2, <3>3
  <2>8. ASSUME WorkerBusy PROVE Redoes'
    <3>1. pc'[Worker] = pc[Worker] /\ job'[Worker] = job[Worker]
      BY <2>2, <2>3
    <3>2. \A q \in Requests : ~Working(q)'
      BY <2>2, <2>3, <2>8 DEF Kept, Redoes, Working
    <3>3. Reached(Worker) /\ job[Worker].op \in DOMAIN ops
      BY <2>8 DEF Kept, Redoes, OpOf
    <3>4. Reached(Worker)'
      BY <2>1, <2>4, <2>6, <3>1, <3>3 DEF Reached, Last
    <3>5. OpOf(Worker)' /\ Last(job[Worker].op)' /\ IsOpen(job[Worker].op)'
      BY <2>1, <2>8, <3>1 DEF Kept, Redoes, OpOf, Last, IsOpen
    <3> QED
      BY <2>8, <3>1, <3>2, <3>4, <3>5 DEF Kept, Redoes
  <2>9. Handler(p)'
    BY <2>3 DEF Handler
  <2> QED
    BY <2>3, <2>5, <2>7, <2>8, <2>9, HandlerStep
<1> QED
  BY <1>2, <1>3, <1>4, <1>5, <1>6, <1>7 DEF Begin

(* What a move of thread p does to pc and job. *)
LEMMA Moved ==
  ASSUME Types, NEW p \in Threads, NEW step, NEW f,
         Proceed(p, step) \/ (Settle(p, f) /\ step = "finish")
  PROVE  /\ \A q \in Threads \ {p} : pc'[q] = pc[q] /\ job'[q] = job[q]
         /\ pc'[p] = step
         /\ Settle(p, f) => /\ job'[p].fate = f /\ job'[p].act = job[p].act /\ job'[p].val = job[p].val
                            /\ job'[p].old = job[p].old /\ job'[p].box = job[p].box /\ job'[p].op = job[p].op
         /\ ~Settle(p, f) /\ step \notin {"done", "idle", "pick"} => job'[p] = job[p]
<1>1. pc \in [Threads -> Places] /\ job \in [Threads -> Jobs]
  BY DEF Types, TypeOK, Places, Jobs
<1>2. CASE Settle(p, f)
  <2>1. job' = [job EXCEPT ![p].fate = f] /\ pc' = [pc EXCEPT ![p] = "finish"] /\ job[p] \in Jobs
    BY <1>1, <1>2 DEF Settle, Set, Goto
  <2>2. job'[p] = [job[p] EXCEPT !.fate = f]
    BY <1>1, <2>1
  <2>3. /\ job'[p].fate = f /\ job'[p].act = job[p].act /\ job'[p].val = job[p].val
        /\ job'[p].old = job[p].old /\ job'[p].box = job[p].box /\ job'[p].op = job[p].op
    BY <2>1, <2>2 DEF Jobs
  <2>4. step = "finish"
    BY <1>1, <1>2 DEF Proceed, Settle, Goto
  <2> QED
    BY <1>1, <1>2, <2>1, <2>3, <2>4
<1>3. CASE ~Settle(p, f)
  BY <1>1, <1>3 DEF Proceed, Goto
<1> QED
  BY <1>2, <1>3

(* The look whether the address is taken. *)
LEMMA AvailableKeeps ==
  ASSUME ConstantsAssumption, Types, Kept, NEW p \in Requests, Available(p)
  PROVE  Kept'
<1>1. /\ Requests \subseteq Threads /\ Working(p) /\ pc[p] = "available" /\ ~Started(p)
      /\ UNCHANGED <<kind, account, owner, row, ops, batch>>
  BY DEF Threads, Available, Working, Steps, Started
<1>2. Knows(p) /\ Reached(p) /\ ~WorkerBusy
  BY <1>1, OfHandler
<1>3. \A q \in Threads \ {p} : pc'[q] = pc[q] /\ job'[q] = job[q]
  BY <1>1, Moved DEF Available
<1>4. (account = Gone /\ pc'[p] = "start" /\ job'[p] = job[p]) \/ pc'[p] = "done"
  <2>1. (account = Gone /\ Proceed(p, "start")) \/ Proceed(p, "done")
    BY DEF Available
  <2>2. ~Settle(p, "none") \/ pc'[p] = "finish"
    BY <1>1, Moved
  <2> QED
    BY <1>1, <2>1 DEF Proceed, Goto, Types, TypeOK
<1>5. Log'
  BY <1>1, LogStands DEF Kept
<1>6. Handler(p)'
  BY <1>1, <1>2, <1>4 DEF Handler, Working, Steps, Knows, Holds, Started, Reached, Inserted, Removed
<1>7. ASSUME NEW q \in Requests \ {p}, Working(q) PROVE Handler(q)' /\ (Working(p)' => Apart(p, q)')
  <2>1. Handler(q)'
    BY <1>1, <1>3, SameOps
  <2>2. Meet(p, q) \/ Meet(q, p)
    BY <1>1, <1>7, OfHandler
  <2>3. ASSUME Working(p)' PROVE Apart(p, q)'
    <3>1. pc'[p] = "start" /\ job'[p] = job[p] /\ pc'[q] = pc[q] /\ job'[q] = job[q]
      BY <1>1, <1>3, <1>4, <2>3 DEF Working, Steps
    <3>2. ~Started(p)' /\ job[p].act = "create"
      BY <1>1, <1>2, <3>1 DEF Started, Knows
    <3> QED
      BY <1>1, <2>2, <3>1, <3>2 DEF Apart, Meet, Inserted, Removed
  <2> QED
    BY <2>1, <2>3
<1> QED
  BY <1>1, <1>2, <1>3, <1>5, <1>6, <1>7, HandlerStep

(* The intent is logged. *)
LEMMA StartKeeps ==
  ASSUME ConstantsAssumption, Types, Kept, NEW p \in Requests, StartOperation(p), ~raced'
  PROVE  Kept'
<1> DEFINE o == Record(job[p].act, job[p].box, job[p].val, job[p].rev)
<1>1. /\ Requests \subseteq Threads /\ Working(p) /\ pc[p] = "start" /\ ~Races(p)
      /\ UNCHANGED <<kind, account, owner, row, batch>> /\ ops' = Append(ops, o)
  BY DEF Threads, StartOperation, Working, Steps
<1>2. Knows(p) /\ Reached(p) /\ ~WorkerBusy /\ Log
  BY <1>1, OfHandler DEF Kept
<1>3. /\ o.action = job[p].act /\ o.box = job[p].box /\ o.val = job[p].val /\ o.status = "pending"
      /\ o \in Operations /\ job[p].act \in HandlerActions
  <2>1. job[p].act \in HandlerActions /\ job[p] \in Jobs
    BY <1>1 DEF Types, TypeOK, Starts, Jobs
  <2> QED
    BY <2>1 DEF Record, Operations, Jobs, Actions, Statuses, Open
<1> HIDE DEF o
<1>4. PICK n : n = Len(ops) + 1
  OBVIOUS
<1>5. /\ \A q \in Threads \ {p} : pc'[q] = pc[q] /\ job'[q] = job[q]
      /\ job'[p].act = job[p].act /\ job'[p].val = job[p].val /\ job'[p].box = job[p].box
      /\ job'[p].old = job[p].old /\ job'[p].fate = job[p].fate /\ job'[p].op = n
      /\ pc'[p] = IF job[p].act = "create" THEN "claim"
                  ELSE IF job[p].act = "update" /\ kind = "mailbox" THEN "row" ELSE "entity"
  <2>1. pc \in [Threads -> Places] /\ job \in [Threads -> Jobs] /\ job[p] \in Jobs
    BY <1>1 DEF Types, TypeOK, Places, Jobs
  <2>2. job' = [job EXCEPT ![p].op = n]
    BY <1>4 DEF StartOperation, Set
  <2>3. job'[p] = [job[p] EXCEPT !.op = n]
    BY <1>1, <2>1, <2>2
  <2>4. /\ job'[p].act = job[p].act /\ job'[p].val = job[p].val /\ job'[p].box = job[p].box
        /\ job'[p].old = job[p].old /\ job'[p].fate = job[p].fate /\ job'[p].op = n
    BY <2>1, <2>3 DEF Jobs
  <2>5. \A q \in Threads \ {p} : pc'[q] = pc[q] /\ job'[q] = job[q]
    BY <2>1, <2>2 DEF StartOperation, Goto
  <2> QED
    BY <1>1, <2>1, <2>4, <2>5 DEF StartOperation, Goto
<1>6. job[p].fate = "pending" /\ ~Inserted(p) /\ ~Removed(p)
  BY <1>1, <1>2 DEF Knows, Inserted, Removed
<1>7. Named(o)
  BY <1>2, <1>3, <1>6 DEF Named, Knows, Log, HandlerActions
<1>8. Mends(o)
  <2>1. o.action = "create" => row = NoRow
    BY <1>2, <1>3, <1>6 DEF Knows
  <2>2. o.action # "create" => row # NoRow /\ row.id = o.box
    BY <1>2, <1>3, <1>6 DEF Knows
  <2>3. ASSUME o.action = "update", kind = "mailbox" PROVE Agreed
    <3> SUFFICES ASSUME ~Agreed PROVE FALSE
      OBVIOUS
    <3>1. PICK i \in DOMAIN ops : Last(i) /\ IsOpen(i)
      BY <1>2 DEF Log
    <3>2. Mends(ops[i]) /\ ops[i].action \notin {"password", "delete"}
      BY <1>1, <1>2, <1>3, <2>3, <3>1 DEF Log, Races, Drops
    <3>3. ops[i].action \in Actions
      <4>1. \A s \in Seq(Operations) : \A k \in DOMAIN s : s[k] \in Operations
        OBVIOUS
      <4> QED
        BY <4>1 DEF Types, TypeOK, Operations
    <3> QED
      BY <2>2, <2>3, <3>2, <3>3 DEF Mends, Agreed, Actions, HandlerActions
  <2> QED
    BY <1>3, <2>1, <2>2, <2>3 DEF Mends, HandlerActions
<1>9. /\ Log' /\ Last(n)' /\ n \in DOMAIN ops' /\ ops'[n] = o
      /\ \A i \in DOMAIN ops : i \in DOMAIN ops' /\ ops'[i] = ops[i] /\ ~Last(i)' /\ i # n
  BY <1>1, <1>2, <1>3, <1>4, <1>7, <1>8, LogAppend DEF Log
<1>10. n \notin batch
  <2>1. \A i \in batch : i \in DOMAIN ops
    BY DEF Types
  <2> QED
    BY <1>9, <2>1
<1>11. Handler(p)'
  <2>1. Knows(p)'
    BY <1>1, <1>2, <1>5, <1>6 DEF Knows, Inserted, Removed
  <2>2. Holds(p)'
    BY <1>1, <1>3, <1>5, <1>9, <1>10 DEF Holds, OpOf
  <2>3. Reached(p)'
    BY <1>1, <1>3, <1>5 DEF Reached, HandlerActions
  <2> QED
    BY <2>1, <2>2, <2>3 DEF Handler
<1>12. ASSUME NEW q \in Requests \ {p}, Working(q) PROVE Handler(q)' /\ Apart(p, q)'
  <2>1. pc'[q] = pc[q] /\ job'[q] = job[q] /\ Knows(q) /\ Holds(q) /\ (Meet(p, q) \/ Meet(q, p)) /\ Handler(q)
    BY <1>1, <1>5, <1>12, OfHandler DEF Handler
  <2>2. job[p].act # "create"
    BY <1>1, <1>6, <1>12, <2>1 DEF Races, Meet, Removed, Working
  <2>3. Inserted(q)
    BY <1>6, <2>1, <2>2 DEF Meet
  <2>4. job[q].op \in DOMAIN ops
    BY <1>12, <2>1, <2>3 DEF Holds, Started, Inserted, OpOf
  <2>5. Handler(q)'
    BY <1>1, <1>9, <1>12, <2>1, <2>3, <2>4, InsertedKeeps
  <2>6. Apart(p, q)'
    <3>1. Apart(p, q)
      BY DEF Kept, Handlers
    <3> QED
      BY <1>1, <1>5, <1>6, <1>9, <1>12, <2>1, <2>2, <2>4, <3>1, ApartKeeps
  <2> QED
    BY <2>5, <2>6
<1> QED
  BY <1>1, <1>2, <1>5, <1>9, <1>11, <1>12, HandlerStep

(* The steps of a saga between its start and its end. *)
Midway(p) == pc[p] \in {"claim", "entity", "row", "undo"} /\ job[p].act # "resync"

(* What a handler in the middle of its saga relies on. *)
LEMMA OfMidway ==
  ASSUME Kept, NEW p \in Requests, Midway(p)
  PROVE  /\ Working(p) /\ Started(p) /\ Knows(p) /\ Holds(p) /\ Reached(p) /\ ~WorkerBusy /\ Log
         /\ OpOf(p) /\ Last(job[p].op) /\ IsOpen(job[p].op)
         /\ job[p].fate = "pending" /\ ~Inserted(p) /\ ~Removed(p)
<1>1. Working(p) /\ Started(p)
  BY DEF Midway, Working, Started, Steps
<1>2. Knows(p) /\ Holds(p) /\ Reached(p) /\ ~WorkerBusy /\ Log
  BY <1>1, OfHandler DEF Kept
<1>3. OpOf(p) /\ Last(job[p].op) /\ IsOpen(job[p].op)
  BY <1>1, <1>2 DEF Holds, Midway, IsOpen, OpOf, Open
<1>4. job[p].fate = "pending"
  BY <1>2 DEF Knows, Midway
<1> QED
  BY <1>1, <1>2, <1>3, <1>4 DEF Inserted, Removed, Midway

(* The others keep what they know, whatever becomes of account and row. *)
LEMMA MidwayStep ==
  ASSUME ConstantsAssumption, Types, Kept, NEW p \in Requests, Midway(p),
         UNCHANGED <<kind, ops, batch>>,
         \A q \in Threads \ {p} : pc'[q] = pc[q] /\ job'[q] = job[q],
         job'[p].act = job[p].act /\ job'[p].op = job[p].op,
         Log', Handler(p)'
  PROVE  Kept'
<1>1. /\ Working(p) /\ Started(p) /\ Knows(p) /\ ~WorkerBusy /\ Last(job[p].op)
      /\ ~Inserted(p) /\ ~Removed(p) /\ Requests \subseteq Threads
  BY OfMidway DEF Threads
<1>2. ASSUME NEW q \in Requests \ {p}, Working(q) PROVE Handler(q)' /\ (Working(p)' => Apart(p, q)')
  <2>1. job[p].act # "create"
    BY <1>1, <1>2, Alone DEF Midway
  <2>2. Inserted(q)
    BY <1>1, <1>2, <2>1, OnlyInserted
  <2>3. Apart(p, q) /\ Handler(q) /\ pc'[q] = pc[q] /\ job'[q] = job[q] /\ Started(q)
    BY <1>1, <1>2, <2>2 DEF Kept, Handlers, Inserted, Started
  <2>4. job[q].op \in DOMAIN ops /\ job[p].op # job[q].op
    BY <1>1, <1>2, <2>3 DEF Handler, Holds, OpOf, Apart
  <2>5. ~Last(job[q].op)
    BY <1>1, <2>4, OneLast
  <2>6. ~Last(job[q].op)'
    BY <2>3, <2>5 DEF Last
  <2>7. Handler(q)'
    BY <1>2, <2>2, <2>3, <2>4, <2>6, InsertedKeeps
  <2>8. Apart(p, q)'
    BY <1>1, <1>2, <2>1, <2>3, <2>4, ApartKeeps
  <2> QED
    BY <2>7, <2>8
<1> QED
  BY <1>1, <1>2, HandlerStep

(* A step that fails leaves the operation open. *)
LEMMA FailKeeps ==
  ASSUME ConstantsAssumption, Types, Kept, NEW p \in Requests, Midway(p), Fail(p),
         UNCHANGED <<kind, row, ops, batch>>, Log'
  PROVE  Kept'
<1>1. p \in Threads
  BY DEF Threads
<1>2. Settle(p, "pending")
  BY DEF Fail, Midway
<1>3. /\ \A q \in Threads \ {p} : pc'[q] = pc[q] /\ job'[q] = job[q]
      /\ pc'[p] = "finish" /\ job'[p].fate = "pending" /\ job'[p].act = job[p].act /\ job'[p].val = job[p].val
      /\ job'[p].old = job[p].old /\ job'[p].box = job[p].box /\ job'[p].op = job[p].op
  BY <1>1, <1>2, Moved
<1>4. Knows(p) /\ Holds(p) /\ Started(p) /\ ~Inserted(p) /\ ~Removed(p)
  BY OfMidway
<1>5. Handler(p)'
  <2>1. Knows(p)'
    BY <1>3, <1>4 DEF Knows, Inserted, Removed, Midway
  <2>2. Holds(p)'
    BY <1>3, <1>4 DEF Holds, OpOf
  <2>3. Reached(p)'
    BY <1>3 DEF Reached
  <2> QED
    BY <2>1, <2>2, <2>3 DEF Handler
<1> QED
  BY <1>3, <1>5, MidwayStep

(* A creation claims its login. *)
LEMMA ClaimKeeps ==
  ASSUME ConstantsAssumption, Types, Kept, NEW p \in Requests, ClaimOwner(p)
  PROVE  Kept'
<1>1. /\ p \in Threads /\ pc[p] = "claim" /\ Working(p) /\ UNCHANGED <<kind, account, row, ops, batch>>
      /\ ~Redo(p)
  BY DEF ClaimOwner, Threads, Working, Steps, Redo, Requests, ConstantsAssumption
<1>2. Knows(p) /\ Holds(p)
  BY <1>1, OfHandler
<1>3. job[p].act = "create" /\ Midway(p)
  BY <1>1, <1>2 DEF Knows, Midway
<1>4. Log'
  <2>1. owner # "free" => owner' # "free"
    BY DEF ClaimOwner, Registry
  <2> QED
    BY <1>1, <2>1, LogStands DEF Kept
<1>5. CASE Fail(p)
  BY <1>1, <1>3, <1>4, <1>5, FailKeeps
<1>6. CASE Proceed(p, "entity") /\ owner' = "managed"
  <2>1. \A q \in Threads \ {p} : pc'[q] = pc[q] /\ job'[q] = job[q]
    BY <1>1, <1>6, Moved
  <2>2. pc'[p] = "entity" /\ job'[p] = job[p]
    BY <1>1, <1>6 DEF Proceed, Goto, Types, TypeOK
  <2>3. Knows(p)'
    BY <1>1, <1>2, <1>3, <2>2 DEF Knows, Inserted, Removed
  <2>4. Holds(p)'
    BY <1>1, <1>2, <1>3, <2>2 DEF Holds, Started, OpOf, Last, Working
  <2>5. Reached(p)'
    BY <1>3, <1>6, <2>2 DEF Reached
  <2> QED
    BY <1>1, <1>3, <1>4, <2>1, <2>2, <2>3, <2>4, <2>5, MidwayStep DEF Handler
<1>7. CASE Settle(p, "failed")
  <2>1. /\ \A q \in Threads \ {p} : pc'[q] = pc[q] /\ job'[q] = job[q]
        /\ pc'[p] = "finish" /\ job'[p].fate = "failed" /\ job'[p].act = job[p].act /\ job'[p].val = job[p].val
        /\ job'[p].old = job[p].old /\ job'[p].box = job[p].box /\ job'[p].op = job[p].op
    BY <1>1, <1>7, Moved
  <2>2. ~Inserted(p) /\ Started(p)
    BY <1>3, OfMidway
  <2>3. Knows(p)'
    BY <1>1, <1>2, <1>3, <2>1, <2>2 DEF Knows, Inserted, Removed, HandlerActions
  <2>4. Holds(p)'
    BY <1>1, <1>2, <2>1, <2>2 DEF Holds, OpOf
  <2>5. Reached(p)'
    BY <2>1 DEF Reached
  <2> QED
    BY <1>1, <1>3, <1>4, <2>1, <2>3, <2>4, <2>5, MidwayStep DEF Handler
<1> QED
  BY <1>1, <1>3, <1>5, <1>6, <1>7 DEF ClaimOwner, Registry

(* The account is changed. *)
LEMMA EntityKeeps ==
  ASSUME ConstantsAssumption, Types, Kept, NEW p \in Requests, Entity(p)
  PROVE  Kept'
<1>1. p \in Threads /\ pc[p] = "entity" /\ Working(p) /\ UNCHANGED <<kind, owner, row, ops, batch>>
  BY DEF Entity, Threads, Working, Steps
<1>2. Knows(p) /\ Holds(p) /\ Reached(p) /\ ~WorkerBusy
  BY <1>1, OfHandler
<1>3. CASE job[p].act = "resync"
  <2>1. /\ Proceed(p, "done") /\ (account' = account \/ account' = job[p].val)
    BY <1>3 DEF Entity, Control, Fail
  <2>2. /\ \A q \in Threads \ {p} : pc'[q] = pc[q] /\ job'[q] = job[q]
        /\ ~Working(p)'
    BY <1>1, <2>1, Moved DEF Proceed, Goto, Working, Types, TypeOK, Steps
  <2>3. job[p].val = row.val /\ row # NoRow /\ ~Removed(p)
    BY <1>2, <1>3 DEF Knows, Removed
  <2>4. Log' /\ (account' = account \/ Agreed')
    <3>1. CASE account' = account
      BY <1>1, <3>1, LogStands DEF Kept
    <3>2. CASE account' = row.val
      BY <1>1, <2>3, <3>2, LogResync DEF Kept
    <3> QED
      BY <2>1, <2>3, <3>1, <3>2
  <2>5. ASSUME NEW q \in Requests \ {p}, Working(q) PROVE Handler(q)'
    <3>1. Handler(q) /\ pc'[q] = pc[q] /\ job'[q] = job[q]
      BY <2>2 DEF Kept, Handlers, Threads
    <3>2. CASE account' = account
      BY <1>1, <3>1, <3>2, SameOps
    <3>3. CASE Agreed'
      <4>1. Inserted(q)
        BY <1>1, <1>3, <2>3, <2>5, OnlyInserted
      <4>2. job[q].op \in DOMAIN ops
        BY <2>5, <3>1, <4>1 DEF Handler, Holds, Started, Inserted, OpOf
      <4> QED
        BY <1>1, <2>5, <3>1, <3>3, <4>1, <4>2, InsertedKeeps
    <3> QED
      BY <2>4, <3>2, <3>3
  <2>6. Handler(p)'
    BY <2>2 DEF Handler
  <2> QED
    BY <1>2, <2>2, <2>4, <2>5, <2>6, HandlerStep
<1>4. CASE job[p].act # "resync"
  <2>1. Midway(p)
    BY <1>1, <1>4 DEF Midway
  <2>2. Log'
    BY <1>1, <1>4, <2>1, OfMidway, LogEntity
  <2>3. CASE Fail(p)
    BY <1>1, <2>1, <2>2, <2>3, FailKeeps
  <2>4. CASE Proceed(p, "row") /\ account' = IF job[p].act = "delete" THEN Gone ELSE job[p].val
    <3>1. \A q \in Threads \ {p} : pc'[q] = pc[q] /\ job'[q] = job[q]
      BY <1>1, <2>4, Moved
    <3>2. pc'[p] = "row" /\ job'[p] = job[p]
      BY <1>1, <2>4 DEF Proceed, Goto, Types, TypeOK
    <3>3. ~Inserted(p) /\ ~Removed(p) /\ Started(p)
      BY <2>1, OfMidway
    <3>4. Knows(p)'
      BY <1>1, <1>2, <1>4, <3>2, <3>3 DEF Knows, Inserted, Removed
    <3>5. Holds(p)'
      BY <1>1, <1>2, <3>2, <3>3 DEF Holds, Started, OpOf, Last
    <3>6. Reached(p)'
      BY <1>1, <1>2, <2>4, <3>2 DEF Reached
    <3> QED
      BY <1>1, <2>1, <2>2, <3>1, <3>2, <3>4, <3>5, <3>6, MidwayStep DEF Handler
  <2> QED
    BY <1>4, <2>3, <2>4 DEF Entity, Control
<1> QED
  BY <1>3, <1>4

(* The row is written, or something is in the way. *)
LEMMA RowKeeps ==
  ASSUME ConstantsAssumption, Types, Kept, NEW p \in Requests, Row(p)
  PROVE  Kept'
<1>1. p \in Threads /\ pc[p] = "row" /\ Working(p) /\ UNCHANGED <<kind, account, owner, ops, batch>> /\ ~Redo(p)
  BY DEF Row, Threads, Working, Steps, Redo, Requests, ConstantsAssumption
<1>2. Knows(p) /\ Holds(p) /\ Reached(p)
  BY <1>1, OfHandler
<1>3. Midway(p) /\ job[p].act \in HandlerActions
  BY <1>1, <1>2 DEF Knows, Midway
<1>4. Started(p) /\ ~Inserted(p) /\ ~Removed(p) /\ Log /\ OpOf(p) /\ Last(job[p].op) /\ IsOpen(job[p].op)
  BY <1>3, OfMidway
<1>5. CASE WriteRow(p)
  <2>1. /\ Log' /\ Agreed' /\ (job[p].act = "delete" => row' = NoRow)
        /\ job[p].act # "delete" => row' # NoRow /\ (~Inserts(p) => row'.id = job[p].box)
    BY <1>1, <1>2, <1>4, <1>5, LogRow
  <2>2. /\ \A q \in Threads \ {p} : pc'[q] = pc[q] /\ job'[q] = job[q]
        /\ pc'[p] = (IF job[p].act = "delete" THEN "release" ELSE "finish")
        /\ job'[p].fate = "completed" /\ job'[p].act = job[p].act /\ job'[p].val = job[p].val
        /\ job'[p].op = job[p].op /\ job'[p].box = IF Inserts(p) THEN lastId + 1 ELSE job[p].box
    <3> DEFINE box == IF Inserts(p) THEN lastId + 1 ELSE job[p].box
    <3>1. pc \in [Threads -> Places] /\ job \in [Threads -> Jobs] /\ job[p] \in Jobs
      BY <1>1 DEF Types, TypeOK, Places, Jobs
    <3>2. job' = [job EXCEPT ![p] = [job[p] EXCEPT !.fate = "completed", !.box = box]]
      BY <1>5, <3>1 DEF WriteRow
    <3> HIDE DEF box
    <3>3. job'[p] = [job[p] EXCEPT !.fate = "completed", !.box = box]
      BY <1>1, <3>1, <3>2
    <3>4. /\ job'[p].fate = "completed" /\ job'[p].act = job[p].act /\ job'[p].val = job[p].val
          /\ job'[p].op = job[p].op /\ job'[p].box = box
      BY <3>1, <3>3 DEF Jobs
    <3>5. \A q \in Threads \ {p} : pc'[q] = pc[q] /\ job'[q] = job[q]
      BY <1>5, <3>1, <3>2 DEF WriteRow, Goto
    <3>6. pc'[p] = (IF job[p].act = "delete" THEN "release" ELSE "finish")
      BY <1>1, <1>5, <3>1 DEF WriteRow, Goto
    <3> QED
      BY <3>4, <3>5, <3>6 DEF box
  <2>3. Inserts(p) <=> job[p].act = "create"
    BY <1>2, <1>4 DEF Knows, Inserts
  <2>4. lastId + 1 # 0
    BY DEF Types, TypeOK
  <2>5. Knows(p)'
    BY <1>1, <1>2, <1>3, <1>4, <2>1, <2>2, <2>3, <2>4 DEF Knows, Inserted, Removed, HandlerActions, Reached
  <2>6. Holds(p)'
    BY <1>1, <1>2, <1>4, <2>2, <2>3 DEF Holds, OpOf
  <2>7. Reached(p)'
    BY <1>1, <1>2, <2>1, <2>2 DEF Reached
  <2> QED
    BY <1>1, <1>3, <2>1, <2>2, <2>5, <2>6, <2>7, MidwayStep DEF Handler
<1>6. CASE RowFails(p)
  <2>1. UNCHANGED row
    BY <1>6 DEF RowFails
  <2>2. Log'
    BY <1>1, <1>4, <2>1, LogStands
  <2>3. CASE Fail(p)
    BY <1>1, <1>3, <2>1, <2>2, <2>3, FailKeeps
  <2>4. CASE Undoes(p) /\ Proceed(p, "undo")
    <3>1. \A q \in Threads \ {p} : pc'[q] = pc[q] /\ job'[q] = job[q]
      BY <1>1, <2>4, Moved
    <3>2. pc'[p] = "undo" /\ job'[p] = job[p]
      BY <1>1, <2>4 DEF Proceed, Goto, Types, TypeOK
    <3>3. kind \in {"mailbox", "distribution"}
      BY DEF Types, TypeOK, ConstantsAssumption
    <3>4. Knows(p)'
      BY <1>1, <1>2, <1>3, <1>4, <2>1, <2>4, <3>2 DEF Knows, Inserted, Removed, Undoes
    <3>5. Holds(p)'
      BY <1>1, <1>2, <1>4, <3>2 DEF Holds, Started, OpOf, Last
    <3>6. Reached(p)'
      BY <1>1, <2>4, <3>2 DEF Reached, Undoes
    <3> QED
      BY <1>1, <1>3, <2>2, <3>1, <3>2, <3>4, <3>5, <3>6, MidwayStep DEF Handler
  <2> QED
    BY <1>6, <2>3, <2>4 DEF RowFails
<1> QED
  BY <1>5, <1>6 DEF Row

(* The account is put back. *)
LEMMA UndoKeeps ==
  ASSUME ConstantsAssumption, Types, Kept, NEW p \in Requests, Undo(p)
  PROVE  Kept'
<1>1. p \in Threads /\ pc[p] = "undo" /\ Working(p) /\ UNCHANGED <<kind, owner, row, ops, batch>>
  BY DEF Undo, Threads, Working, Steps
<1>2. Knows(p) /\ Holds(p) /\ Reached(p)
  BY <1>1, OfHandler
<1>3. Midway(p) /\ job[p].act \in {"create", "password", "update"}
  BY <1>1, <1>2 DEF Knows, Midway
<1>4. Started(p) /\ ~Inserted(p) /\ ~Removed(p) /\ Log /\ OpOf(p) /\ Last(job[p].op) /\ IsOpen(job[p].op)
  BY <1>3, OfMidway
<1>5. Log'
  <2>1. PICK n \in DOMAIN ops : n = job[p].op
    BY <1>4 DEF OpOf
  <2>2. ops[n].action = job[p].act
    BY <1>4, <2>1 DEF OpOf
  <2>3. Mends(ops[n])'
    BY <1>1, <1>2, <1>3, <1>4, <2>2 DEF Mends, Knows, Reached
  <2> QED
    BY <1>1, <1>4, <2>1, <2>3, LogAccount
<1>6. CASE Fail(p)
  BY <1>1, <1>3, <1>5, <1>6, FailKeeps
<1>7. CASE Settle(p, "completed") /\ account' = IF job[p].act = "create" THEN Gone ELSE job[p].old
  <2>1. /\ \A q \in Threads \ {p} : pc'[q] = pc[q] /\ job'[q] = job[q]
        /\ pc'[p] = "finish" /\ job'[p].fate = "completed" /\ job'[p].act = job[p].act /\ job'[p].val = job[p].val
        /\ job'[p].old = job[p].old /\ job'[p].box = job[p].box /\ job'[p].op = job[p].op
    BY <1>1, <1>7, Moved
  <2>2. Agreed'
    BY <1>1, <1>2, <1>3, <1>4, <1>7 DEF Knows, Agreed
  <2>3. Knows(p)'
    BY <1>1, <1>2, <1>3, <1>4, <1>7, <2>1 DEF Knows, Inserted, Removed, HandlerActions
  <2>4. Holds(p)'
    BY <1>1, <1>2, <1>4, <2>1 DEF Holds, OpOf
  <2>5. Reached(p)'
    BY <2>1, <2>2 DEF Reached
  <2> QED
    BY <1>1, <1>3, <1>5, <2>1, <2>3, <2>4, <2>5, MidwayStep DEF Handler
<1> QED
  BY <1>6, <1>7 DEF Undo, Control

(* A creation that lost its login leaves nothing behind. *)
LEMMA LogFail ==
  ASSUME Log, row = NoRow, account = Gone, NEW n \in DOMAIN ops, n \notin batch,
         DOMAIN ops' = DOMAIN ops, \A i \in DOMAIN ops : i # n => ops'[i] = ops[i],
         ops'[n].status = "failed", UNCHANGED <<kind, account, row, batch>>
  PROVE  Log'
<1>1. Agreed' /\ \A i : Mends(ops[i])'
  BY DEF Agreed, Mends
<1>2. ~IsOpen(n)' /\ \A i \in DOMAIN ops : i # n => (IsOpen(i)' <=> IsOpen(i))
  BY DEF IsOpen, Open
<1>3. \A i \in DOMAIN ops' : IsOpen(i)' => Named(ops[i])'
  BY <1>2 DEF Log, Named
<1>4. \A i \in batch' : IsOpen(i)'
  BY <1>2 DEF Log, IsOpen
<1> QED
  BY <1>1, <1>3, <1>4 DEF Log

(* The operation is closed or left open. *)
LEMMA FinishKeeps ==
  ASSUME ConstantsAssumption, Types, Kept, NEW p \in Requests, Finish(p)
  PROVE  Kept'
<1>1. /\ p \in Threads /\ pc[p] = "finish" /\ Working(p) /\ UNCHANGED <<kind, account, owner, row, batch>> /\ ~Redo(p)
      /\ Requests \subseteq Threads
  BY DEF Finish, Threads, Working, Steps, Redo, Requests, ConstantsAssumption
<1>2. Knows(p) /\ Holds(p) /\ Reached(p) /\ ~WorkerBusy /\ Log
  BY <1>1, OfHandler DEF Kept
<1>3. Started(p) /\ OpOf(p) /\ ops[job[p].op].status = "pending"
  BY <1>1, <1>2 DEF Knows, Started, Holds
<1>4. PICK n \in DOMAIN ops : n = job[p].op
  BY <1>3 DEF OpOf
<1>5. n \notin batch /\ IsOpen(n)
  BY <1>3, <1>4 DEF OpOf, IsOpen, Open
<1>6. /\ DOMAIN ops' = DOMAIN ops /\ \A i \in DOMAIN ops : i # n => ops'[i] = ops[i]
      /\ ops'[n].status = job[p].fate /\ ops'[n].action = ops[n].action /\ ops'[n].val = ops[n].val
      /\ ops'[n].box = IF job[p].fate = "completed" THEN job[p].box ELSE ops[n].box
  <2> DEFINE box == IF job[p].fate = "completed" THEN job[p].box ELSE ops[n].box
  <2>1. ops[n] \in Operations
    <3>1. \A s \in Seq(Operations) : \A i \in DOMAIN s : s[i] \in Operations
      OBVIOUS
    <3> QED
      BY <3>1 DEF Types, TypeOK, Operations
  <2>2. ops' = [ops EXCEPT ![n] = [ops[n] EXCEPT !.status = job[p].fate, !.box = box]]
    BY <1>4 DEF Finish
  <2> HIDE DEF box
  <2>3. ops'[n] = [ops[n] EXCEPT !.status = job[p].fate, !.box = box]
    BY <2>2
  <2>4. ops'[n].status = job[p].fate /\ ops'[n].box = box /\ ops'[n].action = ops[n].action /\ ops'[n].val = ops[n].val
    BY <2>1, <2>3 DEF Operations
  <2> QED
    BY <2>2, <2>4 DEF box
<1>7. /\ \A q \in Threads \ {p} : pc'[q] = pc[q] /\ job'[q] = job[q]
      /\ IF Undone(p) THEN pc'[p] = "release" /\ job'[p] = job[p] ELSE ~Working(p)'
  <2>1. Proceed(p, IF Undone(p) THEN "release" ELSE "done")
    BY <1>1 DEF Finish
  <2>2. pc \in [Threads -> Places] /\ job \in [Threads -> Jobs]
    BY DEF Types, TypeOK, Places, Jobs
  <2> QED
    BY <1>1, <2>1, <2>2 DEF Proceed, Goto, Working, Steps
<1>8. Undone(p) => job[p].act = "create" /\ ~Inserted(p)
  BY DEF Undone, Inserts, Inserted
<1>9. Handler(p)'
  <2>1. CASE Undone(p)
    <3>1. row = NoRow /\ account = Gone /\ job[p].act = "create" /\ job[p].box = 0 /\ job[p].fate = "completed"
      BY <1>1, <1>2, <1>8, <2>1 DEF Knows, Undone, Inserts
    <3>2. Knows(p)' /\ Reached(p)'
      BY <1>1, <1>7, <2>1, <3>1 DEF Knows, Inserted, Removed, HandlerActions, Reached
    <3>3. Holds(p)'
      BY <1>7, <2>1, <3>1 DEF Holds, Started
    <3> QED
      BY <3>2, <3>3 DEF Handler
  <2> QED
    BY <1>7, <2>1 DEF Handler
<1>10. CASE job[p].fate = "failed"
  <2>1. job[p].act = "create" /\ ~Inserted(p) /\ row = NoRow /\ account = Gone
    BY <1>1, <1>2, <1>10 DEF Knows
  <2>2. \A q \in Requests \ {p} : ~Working(q)
    BY <1>1, <2>1, Alone
  <2>3. Log'
    BY <1>1, <1>2, <1>5, <1>6, <1>10, <2>1, LogFail
  <2> QED
    BY <1>2, <1>7, <1>9, <2>2, <2>3, HandlerStep
<1>11. CASE job[p].fate # "failed"
  <2>1. job[p].fate \in {"pending", "completed"}
    BY <1>1, <1>2, <1>11 DEF Knows, Types, TypeOK, Statuses, Open
  <2>2. Log' /\ \A i \in DOMAIN ops : Last(i)' <=> Last(i)
    BY <1>1, <1>2, <1>4, <1>5, <1>6, <2>1, LogSettle DEF Reached
  <2>3. ASSUME NEW q \in Requests \ {p}, Working(q) PROVE Handler(q)' /\ (Working(p)' => Apart(p, q)')
    <3>1. Handler(q) /\ Apart(p, q) /\ pc'[q] = pc[q] /\ job'[q] = job[q]
      BY <1>1, <1>7 DEF Kept, Handlers
    <3>2. Started(q) => job[q].op \in DOMAIN ops /\ job[q].op # n
      BY <1>1, <1>3, <1>4, <2>3, <3>1 DEF Handler, Holds, OpOf, Apart
    <3>3. Last(job[q].op)' <=> Last(job[q].op)
      <4>1. CASE job[q].op \in DOMAIN ops
        BY <2>2, <3>1, <4>1
      <4>2. CASE job[q].op \notin DOMAIN ops
        BY <1>6, <3>1, <4>2 DEF Last
      <4> QED
        BY <4>1, <4>2
    <3>4. Handler(q)'
      BY <1>1, <1>6, <3>1, <3>2, <3>3, HandlerKeeps
    <3>5. ~Working(p)'
      BY <1>1, <1>7, <1>8, <2>3, Alone
    <3> QED
      BY <3>4, <3>5
  <2> QED
    BY <1>2, <1>7, <1>9, <2>2, <2>3, HandlerStep
<1> QED
  BY <1>10, <1>11

(* The login is given back, or an operation is left to do so. *)
LEMMA LogRelease ==
  ASSUME ConstantsAssumption, Types, Log, NEW p \in Threads, Release(p), row = NoRow, account = Gone
  PROVE  /\ Log' /\ UNCHANGED <<kind, account, row, batch>>
         /\ \A i \in DOMAIN ops : i \in DOMAIN ops' /\ ops'[i] = ops[i]
<1> DEFINE o == Record("release", 0, Gone, 0)
<1>1. UNCHANGED <<kind, account, row, batch>> /\ (ops' = ops \/ ops' = Append(ops, o))
  BY DEF Release, Registry
<1>2. CASE ops' = ops
  BY <1>1, <1>2, LogStands
<1>3. CASE ops' = Append(ops, o)
  <2>1. o \in Operations /\ o.status = "pending" /\ o.action = "release" /\ o.box = 0
    BY DEF Record, Operations, Actions, Statuses, Open, Contents
  <2> HIDE DEF o
  <2>2. Named(o) /\ Mends(o)
    BY <2>1 DEF Named, Mends
  <2>3. PICK n : n = Len(ops) + 1
    OBVIOUS
  <2> QED
    BY <1>1, <1>3, <2>1, <2>2, <2>3, LogAppend
<1> QED
  BY <1>1, <1>2, <1>3

(* A handler does so after an undone creation or a deletion. *)
LEMMA ReleaseKeeps ==
  ASSUME ConstantsAssumption, Types, Kept, NEW p \in Requests, Release(p)
  PROVE  Kept'
<1>1. /\ p \in Threads /\ pc[p] = "release" /\ Working(p) /\ ~Redo(p) /\ Requests \subseteq Threads
  BY DEF Release, Threads, Working, Steps, Redo, Requests, ConstantsAssumption
<1>2. Knows(p) /\ Holds(p) /\ Reached(p) /\ ~WorkerBusy /\ Log
  BY <1>1, OfHandler DEF Kept
<1>3. row = NoRow /\ account = Gone
  BY <1>1, <1>2 DEF Reached
<1>4. /\ Log' /\ UNCHANGED <<kind, account, row, batch>>
      /\ \A i \in DOMAIN ops : i \in DOMAIN ops' /\ ops'[i] = ops[i]
  BY <1>1, <1>2, <1>3, LogRelease
<1>5. Agreed'
  BY <1>3, <1>4 DEF Agreed
<1>6. CASE job[p].act = "create"
  <2>1. Proceed(p, "done")
    BY <1>1, <1>6 DEF Release, Registry
  <2>2. (\A q \in Threads \ {p} : pc'[q] = pc[q] /\ job'[q] = job[q]) /\ ~Working(p)'
    BY <1>1, <2>1 DEF Proceed, Goto, Working, Steps, Types, TypeOK
  <2>3. \A q \in Requests \ {p} : ~Working(q)
    BY <1>1, <1>6, Alone DEF Inserted
  <2> QED
    BY <1>2, <1>4, <2>2, <2>3, HandlerStep DEF Handler
<1>7. CASE job[p].act # "create"
  <2>1. Removed(p) /\ Started(p)
    BY <1>1, <1>2, <1>7 DEF Knows, Started
  <2>2. Settle(p, "completed")
    BY <1>1, <1>7 DEF Release, Registry
  <2>3. /\ \A q \in Threads \ {p} : pc'[q] = pc[q] /\ job'[q] = job[q]
        /\ pc'[p] = "finish" /\ job'[p].fate = "completed" /\ job'[p].act = job[p].act /\ job'[p].val = job[p].val
        /\ job'[p].old = job[p].old /\ job'[p].box = job[p].box /\ job'[p].op = job[p].op
    BY <1>1, <2>2, Moved
  <2>4. Handler(p)'
    <3>1. Knows(p)'
      BY <1>2, <1>3, <1>4, <2>1, <2>3 DEF Knows, Inserted, Removed
    <3>2. Holds(p)'
      BY <1>2, <1>4, <2>1, <2>3 DEF Holds, OpOf
    <3>3. Reached(p)'
      BY <1>5, <2>3 DEF Reached
    <3> QED
      BY <3>1, <3>2, <3>3 DEF Handler
  <2>5. ASSUME NEW q \in Requests \ {p}, Working(q) PROVE Handler(q)' /\ Apart(p, q)'
    <3>1. Handler(q) /\ Apart(p, q) /\ pc'[q] = pc[q] /\ job'[q] = job[q]
      BY <1>1, <2>3 DEF Kept, Handlers
    <3>2. ASSUME Inserted(q) PROVE Handler(q)'
      <4>1. job[q].op \in DOMAIN ops
        BY <2>5, <3>1, <3>2 DEF Handler, Holds, Started, Inserted, OpOf
      <4> QED
        BY <1>4, <1>5, <2>5, <3>1, <3>2, <4>1, InsertedKeeps
    <3>3. ASSUME pc[q] \in {"available", "start"}, job[q].act = "create" PROVE Handler(q)'
      BY <1>4, <3>1, <3>3, FreshKeeps
    <3>4. Inserted(q) \/ (pc[q] \in {"available", "start"} /\ job[q].act = "create")
      BY <1>1, <1>7, <2>5, <3>1 DEF Apart, Meet
    <3>5. Apart(p, q)'
      BY <1>1, <1>7, <2>1, <2>3, <2>5, <3>1, ApartKeeps DEF Inserted, Removed, Apart
    <3> QED
      BY <3>2, <3>3, <3>4, <3>5
  <2> QED
    BY <1>2, <1>4, <2>3, <2>4, <2>5, HandlerStep
<1> QED
  BY <1>6, <1>7

-----------------------------------------------------------------------------
(* The worker. *)

(* What it relies on while it redoes an operation. *)
WorkersOp ==
  LET j == job[Worker] IN
  /\ OpOf(Worker) /\ Last(j.op) /\ IsOpen(j.op)
  /\ pc[Worker] \notin {"available", "start", "undo"}
  /\ pc[Worker] = "claim" => j.act = "create"
  /\ pc[Worker] = "release" => j.act # "create"
  /\ j.fate \in {"pending", "completed"}
  /\ Reached(Worker)

(* No handler is at work beside it. *)
LEMMA WorkerStep ==
  ASSUME ConstantsAssumption, Kept, \A q \in Requests : ~Working(q), Log',
         \A q \in Requests : pc'[q] = pc[q],
         WorkerBusy' => WorkersOp'
  PROVE  Kept'
BY DEF Kept, Handlers, Handler, Apart, Working, Redoes, WorkersOp

(* Beside handlers it only looks and chooses. *)
LEMMA WorkerIdles ==
  ASSUME ConstantsAssumption, Types, Kept, ~WorkerBusy', Log', UNCHANGED <<kind, account, row>>,
         owner # "free" => owner' # "free", batch' \subseteq batch,
         \A q \in Requests : pc'[q] = pc[q] /\ job'[q] = job[q],
         DOMAIN ops' = DOMAIN ops, \A i \in DOMAIN ops : Last(i)' <=> Last(i),
         \A q \in Requests : Working(q) /\ Started(q) => ops'[job[q].op] = ops[job[q].op]
  PROVE  Kept'
<1>1. ASSUME NEW q \in Requests, Working(q) PROVE Handler(q)'
  <2>1. Handler(q)
    BY DEF Kept, Handlers
  <2>2. Started(q) => job[q].op \in DOMAIN ops
    BY <1>1, <2>1 DEF Handler, Holds, OpOf
  <2> QED
    BY <1>1, <2>1, <2>2, HandlerKeeps
<1>2. \A q \in Requests : Handler(q)'
  BY <1>1 DEF Handler, Working
<1>3. \A q, r \in Requests : q # r => Apart(q, r)'
  BY DEF Kept, Handlers, Apart, Meet, Inserted, Removed, Started, Working
<1> QED
  BY <1>2, <1>3 DEF Kept, Handlers, Redoes

(* Synchronising only touches owners. *)
LEMMA SyncKeeps ==
  ASSUME ConstantsAssumption, Types, Kept, SyncList \/ SyncClaim
  PROVE  Kept'
<1>1. /\ UNCHANGED <<kind, account, row, ops, batch>> /\ (owner # "free" => owner' # "free")
      /\ pc' = [pc EXCEPT ![Worker] = pc'[Worker]] /\ pc'[Worker] \in {"idle", "sync"}
      /\ \A q \in Requests : pc'[q] = pc[q] /\ job'[q] = job[q]
  <2>1. \E step \in {"idle", "sync"} : Proceed(Worker, step)
    BY DEF SyncList, SyncClaim
  <2>2. pc \in [Threads -> Places] /\ job \in [Threads -> Jobs] /\ Worker \in Threads
        /\ Requests \subseteq Threads /\ Worker \notin Requests
    BY DEF Types, TypeOK, Places, Jobs, Threads, Requests, ConstantsAssumption
  <2> QED
    BY <2>1, <2>2 DEF SyncList, SyncClaim, Registry, Proceed, Goto
<1>2. Log'
  BY <1>1, LogStands DEF Kept
<1>3. ~WorkerBusy'
  BY <1>1 DEF WorkerBusy, Steps
<1>4. \A i \in DOMAIN ops : Last(i)' <=> Last(i)
  BY <1>1 DEF Last
<1> QED
  BY <1>1, <1>2, <1>3, <1>4, WorkerIdles

(* A claim only takes open operations that no handler works on. *)
LEMMA ClaimStaleKeeps ==
  ASSUME ConstantsAssumption, Types, Kept, ClaimStale, ~raced'
  PROVE  Kept'
<1>1. PICK S \in SUBSET {i \in DOMAIN ops : Claimable(i)} :
        /\ batch' = S
        /\ ops' = [i \in DOMAIN ops |-> IF i \in S THEN [ops[i] EXCEPT !.status = "reconciling"] ELSE ops[i]]
        /\ raced' = (raced \/ \E q \in Requests : pc[q] \in Steps /\ job[q].op \in S)
  BY DEF ClaimStale
<1>2. \A i \in DOMAIN ops : ops[i] \in Operations
  <2>1. \A s \in Seq(Operations) : \A i \in DOMAIN s : s[i] \in Operations
    OBVIOUS
  <2> QED
    BY <2>1 DEF Types, TypeOK, Operations
<1>3. DOMAIN ops' = DOMAIN ops /\ UNCHANGED <<kind, account, owner, row>>
  BY <1>1 DEF ClaimStale
<1>4. ASSUME NEW i \in DOMAIN ops
      PROVE  /\ ops'[i].action = ops[i].action /\ ops'[i].val = ops[i].val /\ ops'[i].box = ops[i].box
             /\ IF i \in S THEN ops'[i].status = "reconciling" /\ ops[i].status \in {"pending", "reconciling"}
                ELSE ops'[i] = ops[i]
  <2>1. CASE i \in S
    <3>1. ops'[i] = [ops[i] EXCEPT !.status = "reconciling"]
      BY <1>1, <2>1
    <3>2. ops[i].status \in {"pending", "reconciling"}
      BY <1>1, <2>1 DEF Claimable
    <3> QED
      BY <1>2, <2>1, <3>1, <3>2 DEF Operations
  <2>2. CASE i \notin S
    BY <1>1, <2>2
  <2> QED
    BY <2>1, <2>2
<1>5. \A i \in DOMAIN ops : (Last(i)' <=> Last(i)) /\ (IsOpen(i)' <=> IsOpen(i))
  <2>1. \A i \in DOMAIN ops : ops'[i].status = "failed" <=> ops[i].status = "failed"
    BY <1>4
  <2>2. \A i \in DOMAIN ops : ops'[i].status \in Open <=> ops[i].status \in Open
    BY <1>4 DEF Open
  <2> QED
    BY <1>3, <2>1, <2>2 DEF Last, IsOpen
<1>6. Log'
  <2>1. Log /\ (Agreed' <=> Agreed)
    BY <1>3 DEF Kept, Agreed
  <2>2. \A i \in DOMAIN ops : (Mends(ops[i]) => Mends(ops[i])') /\ (Named(ops[i]) => Named(ops[i])')
    BY <1>3, <1>4, <2>1 DEF Mends, Named
  <2>3. \A i \in batch' : IsOpen(i)'
    <3>1. \A i \in S : i \in DOMAIN ops /\ IsOpen(i)
      BY <1>1 DEF Claimable, IsOpen, Open
    <3> QED
      BY <1>1, <1>5, <3>1
  <2>4. Agreed' \/ \E i \in DOMAIN ops' : Last(i)' /\ IsOpen(i)'
    BY <1>3, <1>5, <2>1 DEF Log
  <2>5. \A i \in DOMAIN ops' : (Last(i)' /\ IsOpen(i)' => Mends(ops[i])') /\ (IsOpen(i)' => Named(ops[i])')
    BY <1>3, <1>5, <2>1, <2>2 DEF Log
  <2>6. row' # NoRow => owner' # "free" /\ row'.id >= 1
    BY <1>3, <2>1 DEF Log
  <2> QED
    BY <2>3, <2>4, <2>5, <2>6 DEF Log
<1>7. /\ \A q \in Requests : pc'[q] = pc[q] /\ job'[q] = job[q]
      /\ pc'[Worker] = "pick"
  <2>1. pc \in [Threads -> Places] /\ job \in [Threads -> Jobs] /\ Worker \in Threads
        /\ Requests \subseteq Threads /\ Worker \notin Requests
    BY DEF Types, TypeOK, Places, Jobs, Threads, Requests, ConstantsAssumption
  <2> QED
    BY <2>1 DEF ClaimStale, Proceed, Goto
<1>8. ASSUME NEW q \in Requests, Working(q), Started(q) PROVE ops'[job[q].op] = ops[job[q].op] /\ job[q].op \notin S
  <2>1. job[q].op \in DOMAIN ops
    BY <1>8, OfHandler DEF Holds, OpOf
  <2>2. job[q].op \notin S
    BY <1>1, <1>8 DEF Working
  <2> QED
    BY <1>4, <2>1, <2>2
<1>9. ASSUME NEW q \in Requests, Working(q) PROVE Handler(q)'
  <2>1. Knows(q) /\ Holds(q) /\ Reached(q)
    BY <1>9, OfHandler
  <2>2. pc'[q] = pc[q] /\ job'[q] = job[q]
    BY <1>7
  <2>3. Knows(q)'
    BY <1>3, <2>1, <2>2 DEF Knows, Inserted, Removed
  <2>4. Holds(q)'
    <3> SUFFICES ASSUME Started(q) PROVE (OpOf(q) /\ ops[job[q].op].status = "pending"
                    /\ (pc[q] \in {"claim", "entity", "row", "undo"} => Last(job[q].op)))'
      BY <2>2 DEF Holds, Started, Working
    <3>1. job[q].op \in DOMAIN ops /\ ops'[job[q].op] = ops[job[q].op] /\ job[q].op \notin S
      BY <1>8, <1>9, <2>1 DEF Holds, OpOf
    <3> QED
      BY <1>1, <1>3, <1>5, <2>1, <2>2, <3>1 DEF Holds, OpOf
  <2>5. Reached(q)'
    <3>1. pc[q] = "finish" => job[q].op \in DOMAIN ops
      BY <1>9, <2>1 DEF Holds, OpOf, Knows, Started
    <3> QED
      BY <1>3, <1>5, <2>1, <2>2, <3>1 DEF Reached, Agreed
  <2> QED
    BY <2>3, <2>4, <2>5 DEF Handler
<1>10. \A q \in Requests : Handler(q)'
  BY <1>7, <1>9 DEF Handler, Working
<1>11. \A q, r \in Requests : q # r => Apart(q, r)'
  BY <1>7 DEF Kept, Handlers, Apart, Meet, Inserted, Removed, Started, Working
<1>12. ~WorkerBusy'
  BY <1>7 DEF WorkerBusy, Steps
<1> QED
  BY <1>6, <1>10, <1>11, <1>12 DEF Kept, Handlers, Redoes

(* The worker's place in the tables. *)
LEMMA WorkerIs ==
  ASSUME ConstantsAssumption, Types
  PROVE  /\ Worker \in Threads /\ Worker \notin Requests /\ Requests \subseteq Threads
         /\ pc \in [Threads -> Places] /\ job \in [Threads -> Jobs] /\ job[Worker] \in Jobs
         /\ \A i \in DOMAIN ops : ops[i] \in Operations
<1>1. \A s \in Seq(Operations) : \A i \in DOMAIN s : s[i] \in Operations
  OBVIOUS
<1>2. ops \in Seq(Operations) /\ pc \in [Threads -> Places] /\ job \in [Threads -> Jobs]
  BY DEF Types, TypeOK, Places, Jobs, Operations
<1>3. Worker \in Threads /\ Worker \notin Requests /\ Requests \subseteq Threads
  BY DEF Threads, Requests, ConstantsAssumption
<1> QED
  BY <1>1, <1>2, <1>3

(* It drops an operation that a later one supersedes, and takes the last.  *)
LEMMA PickKeeps ==
  ASSUME ConstantsAssumption, Types, Kept, Pick, ~raced'
  PROVE  Kept'
<1>1. /\ Worker \in Threads /\ Worker \notin Requests /\ Requests \subseteq Threads
      /\ pc \in [Threads -> Places] /\ job \in [Threads -> Jobs]
      /\ \A i \in DOMAIN ops : ops[i] \in Operations
  BY WorkerIs
<1>2. UNCHANGED <<kind, account, owner, row>> /\ Log
  BY DEF Pick, Kept
<1>3. CASE Proceed(Worker, "idle") /\ UNCHANGED <<ops, batch>>
  <2>1. (\A q \in Requests : pc'[q] = pc[q] /\ job'[q] = job[q]) /\ ~WorkerBusy'
    BY <1>1, <1>3 DEF Proceed, Goto, WorkerBusy, Steps
  <2>2. Log' /\ \A i \in DOMAIN ops : Last(i)' <=> Last(i)
    BY <1>2, <1>3, LogStands DEF Last
  <2> QED
    BY <1>2, <1>3, <2>1, <2>2, WorkerIdles
<1>4. CASE \E i \in batch : Superseded(i) /\ batch' = batch \ {i} /\ Proceed(Worker, "pick")
               /\ ops' = [ops EXCEPT ![i].status = "completed"]
  <2>1. PICK i \in batch : Superseded(i) /\ batch' = batch \ {i} /\ ops' = [ops EXCEPT ![i].status = "completed"]
    BY <1>4
  <2>2. (\A q \in Requests : pc'[q] = pc[q] /\ job'[q] = job[q]) /\ ~WorkerBusy'
    BY <1>1, <1>4 DEF Proceed, Goto, WorkerBusy, Steps
  <2>3. i \in DOMAIN ops /\ IsOpen(i) /\ ~Last(i)
    <3>1. IsOpen(i)
      BY <1>2, <2>1 DEF Log
    <3>2. ~Last(i)
      BY <2>1 DEF Superseded, Last, Open
    <3> QED
      BY <3>1, <3>2 DEF IsOpen
  <2>4. /\ DOMAIN ops' = DOMAIN ops /\ \A k \in DOMAIN ops : k # i => ops'[k] = ops[k]
        /\ ops'[i].status = "completed" /\ ops'[i].action = ops[i].action /\ ops'[i].val = ops[i].val
    <3>1. ops'[i] = [ops[i] EXCEPT !.status = "completed"]
      BY <2>1, <2>3
    <3> QED
      BY <1>1, <2>1, <2>3, <3>1 DEF Operations
  <2>5. Log' /\ \A k \in DOMAIN ops : Last(k)' <=> Last(k)
    BY <1>2, <2>1, <2>3, <2>4, LogSettle
  <2>6. ASSUME NEW q \in Requests, Working(q), Started(q) PROVE ops'[job[q].op] = ops[job[q].op]
    BY <2>1, <2>4, <2>6, OfHandler DEF Holds, OpOf
  <2> QED
    BY <1>2, <2>1, <2>2, <2>4, <2>5, <2>6, WorkerIdles
<1>5. CASE \E i \in batch : ~Superseded(i) /\ Goto(Worker, "load") /\ UNCHANGED ops /\ batch' = batch \ {i}
               /\ job' = [job EXCEPT ![Worker] =
                    Job(ops[i].action, ops[i].val, Gone, ops[i].rev, ops[i].box, i)]
               /\ raced' = (raced \/ HandlerBusy)
  <2>1. PICK i \in batch : /\ ~Superseded(i) /\ Goto(Worker, "load") /\ UNCHANGED ops /\ batch' = batch \ {i}
                           /\ job' = [job EXCEPT ![Worker] =
                                Job(ops[i].action, ops[i].val, Gone, ops[i].rev, ops[i].box, i)]
                           /\ raced' = (raced \/ HandlerBusy)
    BY <1>5
  <2>2. /\ \A q \in Requests : pc'[q] = pc[q]
        /\ pc'[Worker] = "load" /\ job'[Worker] = Job(ops[i].action, ops[i].val, Gone, ops[i].rev, ops[i].box, i)
    BY <1>1, <2>1 DEF Goto
  <2>3. /\ job'[Worker].act = ops[i].action /\ job'[Worker].val = ops[i].val /\ job'[Worker].box = ops[i].box
        /\ job'[Worker].op = i /\ job'[Worker].fate = "pending"
    BY <2>2 DEF Job
  <2>4. IsOpen(i) /\ Last(i)
    <3>1. IsOpen(i) /\ i \in DOMAIN ops /\ ops[i].status # "failed"
      BY <1>2, <2>1 DEF Log, IsOpen, Open
    <3>2. ASSUME NEW j \in DOMAIN ops, j > i PROVE ops[j].status = "failed"
      <4>1. ops[j].status \notin Open \cup {"completed"}
        BY <2>1, <3>2 DEF Superseded
      <4>2. ops[j].status \in Statuses
        BY <1>1 DEF Operations
      <4> QED
        BY <4>1, <4>2 DEF Statuses
    <3> QED
      BY <3>1, <3>2 DEF Last
  <2>5. Log'
    BY <1>2, <2>1, LogStands
  <2>6. \A q \in Requests : ~Working(q)
    BY <2>1 DEF HandlerBusy, Working
  <2>7. WorkersOp'
    <3>1. OpOf(Worker)' /\ Last(job[Worker].op)' /\ IsOpen(job[Worker].op)'
      BY <2>1, <2>3, <2>4 DEF OpOf, Last, IsOpen
    <3>2. Reached(Worker)'
      BY <2>2 DEF Reached
    <3> QED
      BY <2>2, <2>3, <3>1, <3>2 DEF WorkersOp
  <2> QED
    BY <2>2, <2>5, <2>6, <2>7, WorkerStep
<1>6. CASE ~(Proceed(Worker, "idle") /\ UNCHANGED <<ops, batch>>)
  <2>1. PICK i \in batch :
          /\ batch' = batch \ {i}
          /\ IF Superseded(i)
             THEN /\ ops' = [ops EXCEPT ![i].status = "completed"]
                  /\ Proceed(Worker, "pick")
             ELSE /\ Goto(Worker, "load") /\ UNCHANGED ops
                  /\ job' = [job EXCEPT ![Worker] =
                       Job(ops[i].action, ops[i].val, Gone, ops[i].rev, ops[i].box, i)]
                  /\ raced' = (raced \/ HandlerBusy)
    BY <1>6 DEF Pick
  <2> QED
    BY <1>4, <1>5, <2>1, Zenon
<1> QED
  BY <1>3, <1>6

(* What it relies on at each step of a redo. *)
LEMMA OfWorker ==
  ASSUME ConstantsAssumption, Types, Kept, WorkerBusy
  PROVE  /\ WorkersOp /\ Log /\ job[Worker].act \in Actions
         /\ Mends(ops[job[Worker].op]) /\ Named(ops[job[Worker].op]) /\ \A q \in Requests : ~Working(q)
<1>1. WorkersOp /\ Log /\ \A q \in Requests : ~Working(q)
  BY DEF Kept, Redoes, WorkersOp
<1>2. job[Worker].op \in DOMAIN ops /\ ops[job[Worker].op].action = job[Worker].act
  BY <1>1 DEF WorkersOp, OpOf
<1>3. job[Worker].act \in Actions
  BY <1>2, WorkerIs DEF Operations
<1> QED
  BY <1>1, <1>2, <1>3 DEF WorkersOp, Log

(* A redo goes on while its operation stays. *)
LEMMA RedoStep ==
  ASSUME ConstantsAssumption, Types, Kept, WorkerBusy, Log', UNCHANGED <<ops, batch>>,
         \A q \in Requests : pc'[q] = pc[q],
         job'[Worker].act = job[Worker].act, job'[Worker].val = job[Worker].val, job'[Worker].op = job[Worker].op,
         job[Worker].act # "create" => job'[Worker].box = job[Worker].box,
         job'[Worker].fate \in {"pending", "completed"},
         pc'[Worker] \in {"claim", "entity", "row", "finish", "release"},
         pc'[Worker] = "claim" => job[Worker].act = "create",
         pc'[Worker] = "release" => job[Worker].act # "create",
         Reached(Worker)'
  PROVE  Kept'
<1>1. WorkersOp /\ \A q \in Requests : ~Working(q)
  BY OfWorker
<1>2. WorkersOp'
  <2>1. OpOf(Worker)' /\ Last(job[Worker].op)' /\ IsOpen(job[Worker].op)'
    BY <1>1 DEF WorkersOp, OpOf, Last, IsOpen
  <2> QED
    BY <2>1 DEF WorkersOp
<1> QED
  BY <1>1, <1>2, WorkerStep

(* A redo that fails leaves the operation open. *)
LEMMA RedoFails ==
  ASSUME ConstantsAssumption, Types, Kept, WorkerBusy, Log', UNCHANGED <<ops, batch>>, Fail(Worker)
  PROVE  Kept'
<1>1. Worker \in Threads /\ Worker \notin Requests /\ Requests \subseteq Threads
  BY WorkerIs
<1>2. Settle(Worker, "pending")
  BY OfWorker DEF Fail, Actions, HandlerActions
<1>3. /\ \A q \in Threads \ {Worker} : pc'[q] = pc[q]
      /\ pc'[Worker] = "finish" /\ job'[Worker].fate = "pending" /\ job'[Worker].act = job[Worker].act
      /\ job'[Worker].val = job[Worker].val /\ job'[Worker].box = job[Worker].box
      /\ job'[Worker].op = job[Worker].op
  BY <1>1, <1>2, Moved
<1>4. Reached(Worker)'
  BY <1>3 DEF Reached
<1> QED
  BY <1>1, <1>3, <1>4, RedoStep

(* The current row of the operation is read. *)
LEMMA LoadKeeps ==
  ASSUME ConstantsAssumption, Types, Kept, Load
  PROVE  Kept'
<1>1. /\ Worker \in Threads /\ Worker \notin Requests /\ Requests \subseteq Threads
      /\ pc \in [Threads -> Places] /\ job \in [Threads -> Jobs] /\ job[Worker] \in Jobs
  BY WorkerIs
<1>2. WorkerBusy /\ UNCHANGED <<kind, account, owner, row, ops, batch>>
  BY DEF Load, WorkerBusy
<1>3. /\ WorkersOp /\ Log /\ job[Worker].act \in Actions /\ Mends(ops[job[Worker].op])
      /\ ops[job[Worker].op].action = job[Worker].act
  BY <1>2, OfWorker DEF WorkersOp, OpOf
<1>4. Log'
  BY <1>2, <1>3, LogStands
<1>5. CASE job[Worker].act = "create"
  <2> DEFINE j == [job[Worker] EXCEPT !.box = row.id, !.rev = row.rev]
  <2>1. j.act = job[Worker].act /\ j.val = job[Worker].val /\ j.op = job[Worker].op /\ j.fate = job[Worker].fate
    BY <1>1 DEF Jobs
  <2>2. pc' = [pc EXCEPT ![Worker] = "claim"] /\ (job' = job \/ job' = [job EXCEPT ![Worker] = j])
    BY <1>1, <1>5 DEF Load, Goto
  <2> HIDE DEF j
  <2>3. /\ \A q \in Requests : pc'[q] = pc[q]
        /\ pc'[Worker] = "claim" /\ job'[Worker].act = job[Worker].act /\ job'[Worker].val = job[Worker].val
        /\ job'[Worker].op = job[Worker].op /\ job'[Worker].fate = job[Worker].fate
    BY <1>1, <2>1, <2>2
  <2>4. Reached(Worker)'
    BY <2>3 DEF Reached
  <2> QED
    BY <1>2, <1>3, <1>4, <1>5, <2>3, <2>4, RedoStep DEF WorkersOp
<1>6. CASE Fail(Worker)
  BY <1>2, <1>4, <1>6, RedoFails
<1>7. ASSUME NEW step \in {"entity", "row", "release"}, Proceed(Worker, step), job[Worker].act # "create",
             step = "entity" => job[Worker].act # "release" /\ ~(job[Worker].act = "update" /\ kind = "mailbox"),
             step = "row" => job[Worker].act = "update" /\ kind = "mailbox",
             step = "release" => job[Worker].act = "release"
      PROVE  Kept'
  <2>1. (\A q \in Requests : pc'[q] = pc[q]) /\ pc'[Worker] = step /\ job' = job
    BY <1>1, <1>7 DEF Proceed, Goto
  <2>2. Reached(Worker)'
    BY <1>2, <1>3, <1>7, <2>1 DEF Reached, Mends
  <2> QED
    BY <1>2, <1>3, <1>4, <1>7, <2>1, <2>2, RedoStep DEF WorkersOp
<1>8. CASE job[Worker].act = "password"
  BY <1>6, <1>7, <1>8 DEF Load
<1>9. CASE job[Worker].act = "update" /\ kind = "mailbox"
  BY <1>6, <1>7, <1>9 DEF Load
<1>10. CASE job[Worker].act = "release"
  BY <1>7, <1>10 DEF Load
<1>11. CASE job[Worker].act \in {"delete", "update"} /\ ~(job[Worker].act = "update" /\ kind = "mailbox")
  BY <1>7, <1>11 DEF Load
<1> QED
  BY <1>3, <1>5, <1>8, <1>9, <1>10, <1>11 DEF Actions, HandlerActions

(* The steps a redo shares with the handlers. *)
LEMMA RedoClaims ==
  ASSUME ConstantsAssumption, Types, Kept, ClaimOwner(Worker)
  PROVE  Kept'
<1>1. /\ Worker \in Threads /\ Worker \notin Requests /\ Requests \subseteq Threads
      /\ pc \in [Threads -> Places] /\ job \in [Threads -> Jobs]
  BY WorkerIs
<1>2. WorkerBusy /\ pc[Worker] = "claim" /\ UNCHANGED <<kind, account, row, ops, batch>> /\ Redo(Worker)
  BY DEF ClaimOwner, WorkerBusy, Steps, Redo
<1>3. WorkersOp /\ Log /\ job[Worker].act = "create"
  BY <1>2, OfWorker DEF WorkersOp
<1>4. Log'
  <2>1. owner # "free" => owner' # "free"
    BY DEF ClaimOwner, Registry
  <2> QED
    BY <1>2, <1>3, <2>1, LogStands
<1>5. CASE Fail(Worker)
  BY <1>2, <1>4, <1>5, RedoFails
<1>6. CASE Proceed(Worker, "entity") /\ owner' = "managed"
  <2>1. (\A q \in Requests : pc'[q] = pc[q]) /\ pc'[Worker] = "entity" /\ job' = job
    BY <1>1, <1>6 DEF Proceed, Goto
  <2>2. Reached(Worker)'
    BY <1>3, <1>6, <2>1 DEF Reached
  <2> QED
    BY <1>2, <1>3, <1>4, <2>1, <2>2, RedoStep DEF WorkersOp
<1> QED
  BY <1>2, <1>3, <1>5, <1>6 DEF ClaimOwner, Registry, Fail

(* And the next: the account. *)
LEMMA RedoEntity ==
  ASSUME ConstantsAssumption, Types, Kept, Entity(Worker)
  PROVE  Kept'
<1>1. /\ Worker \in Threads /\ Worker \notin Requests /\ Requests \subseteq Threads
      /\ pc \in [Threads -> Places] /\ job \in [Threads -> Jobs]
  BY WorkerIs
<1>2. WorkerBusy /\ pc[Worker] = "entity" /\ UNCHANGED <<kind, owner, row, ops, batch>>
  BY DEF Entity, WorkerBusy, Steps
<1>3. WorkersOp /\ Log /\ job[Worker].act \in Actions /\ job[Worker].act # "resync"
  BY <1>2, OfWorker DEF Actions, HandlerActions
<1>4. Log'
  BY <1>1, <1>2, <1>3, LogEntity DEF WorkersOp
<1>5. CASE Fail(Worker)
  BY <1>2, <1>4, <1>5, RedoFails
<1>6. CASE Proceed(Worker, "row") /\ account' = IF job[Worker].act = "delete" THEN Gone ELSE job[Worker].val
  <2>1. (\A q \in Requests : pc'[q] = pc[q]) /\ pc'[Worker] = "row" /\ job' = job
    BY <1>1, <1>6 DEF Proceed, Goto
  <2>2. Reached(Worker)'
    BY <1>2, <1>3, <1>6, <2>1 DEF Reached, WorkersOp
  <2> QED
    BY <1>2, <1>3, <1>4, <2>1, <2>2, RedoStep DEF WorkersOp
<1> QED
  BY <1>3, <1>5, <1>6 DEF Entity, Control

(* And the next: the row. *)
LEMMA RedoRow ==
  ASSUME ConstantsAssumption, Types, Kept, Row(Worker)
  PROVE  Kept'
<1>1. /\ Worker \in Threads /\ Worker \notin Requests /\ Requests \subseteq Threads
      /\ pc \in [Threads -> Places] /\ job \in [Threads -> Jobs] /\ job[Worker] \in Jobs
  BY WorkerIs
<1>2. WorkerBusy /\ pc[Worker] = "row" /\ UNCHANGED <<kind, account, owner, ops, batch>>
  BY DEF Row, WorkerBusy, Steps
<1>3. WorkersOp /\ Log
  BY <1>2, OfWorker
<1>4. CASE WriteRow(Worker)
  <2>1. Log' /\ Agreed' /\ (job[Worker].act = "delete" => row' = NoRow)
    BY <1>1, <1>2, <1>3, <1>4, LogRow DEF WorkersOp
  <2>2. /\ \A q \in Requests : pc'[q] = pc[q]
        /\ pc'[Worker] = (IF job[Worker].act = "delete" THEN "release" ELSE "finish")
        /\ job'[Worker].fate = "completed" /\ job'[Worker].act = job[Worker].act
        /\ job'[Worker].val = job[Worker].val /\ job'[Worker].op = job[Worker].op
        /\ job[Worker].act # "create" => job'[Worker].box = job[Worker].box
    <3> DEFINE box == IF Inserts(Worker) THEN lastId + 1 ELSE job[Worker].box
    <3>1. job[Worker].act # "create" => box = job[Worker].box
      BY DEF Inserts
    <3>2. job' = [job EXCEPT ![Worker] = [job[Worker] EXCEPT !.fate = "completed", !.box = box]]
      BY <1>1, <1>4 DEF WriteRow
    <3> HIDE DEF box
    <3>3. job'[Worker] = [job[Worker] EXCEPT !.fate = "completed", !.box = box]
      BY <1>1, <3>2
    <3>4. /\ job'[Worker].fate = "completed" /\ job'[Worker].act = job[Worker].act
          /\ job'[Worker].val = job[Worker].val /\ job'[Worker].op = job[Worker].op /\ job'[Worker].box = box
      BY <1>1, <3>3 DEF Jobs
    <3>5. /\ \A q \in Requests : pc'[q] = pc[q]
          /\ pc'[Worker] = (IF job[Worker].act = "delete" THEN "release" ELSE "finish")
      BY <1>1, <1>4 DEF WriteRow, Goto
    <3> QED
      BY <3>1, <3>4, <3>5
  <2>3. Reached(Worker)'
    BY <1>2, <1>3, <2>1, <2>2 DEF Reached, WorkersOp
  <2> QED
    BY <1>2, <2>1, <2>2, <2>3, RedoStep
<1>5. CASE RowFails(Worker)
  <2>1. UNCHANGED row /\ Fail(Worker)
    BY <1>5 DEF RowFails, Undoes, Redo
  <2>2. Log'
    BY <1>2, <1>3, <2>1, LogStands
  <2> QED
    BY <1>2, <2>1, <2>2, RedoFails
<1> QED
  BY <1>4, <1>5 DEF Row

(* And the operation is closed. *)
LEMMA RedoFinishes ==
  ASSUME ConstantsAssumption, Types, Kept, Finish(Worker)
  PROVE  Kept'
<1>1. /\ Worker \in Threads /\ Worker \notin Requests /\ Requests \subseteq Threads
      /\ pc \in [Threads -> Places] /\ job \in [Threads -> Jobs] /\ \A i \in DOMAIN ops : ops[i] \in Operations
  BY WorkerIs
<1>2. WorkerBusy /\ pc[Worker] = "finish" /\ UNCHANGED <<kind, account, owner, row, batch>> /\ Redo(Worker)
  BY DEF Finish, WorkerBusy, Steps, Redo
<1>3. WorkersOp /\ Log /\ \A q \in Requests : ~Working(q)
  BY <1>2, OfWorker
<1>4. PICK n \in DOMAIN ops : n = job[Worker].op
  BY <1>3 DEF WorkersOp, OpOf
<1>5. n \notin batch /\ IsOpen(n)
  BY <1>3, <1>4 DEF WorkersOp, OpOf
<1>6. /\ DOMAIN ops' = DOMAIN ops /\ \A i \in DOMAIN ops : i # n => ops'[i] = ops[i]
      /\ ops'[n].status = job[Worker].fate /\ ops'[n].action = ops[n].action /\ ops'[n].val = ops[n].val
      /\ ops'[n].box = IF job[Worker].fate = "completed" THEN job[Worker].box ELSE ops[n].box
  <2> DEFINE box == IF job[Worker].fate = "completed" THEN job[Worker].box ELSE ops[n].box
  <2>1. ops' = [ops EXCEPT ![n] = [ops[n] EXCEPT !.status = job[Worker].fate, !.box = box]]
    BY <1>4 DEF Finish
  <2> HIDE DEF box
  <2>2. ops'[n] = [ops[n] EXCEPT !.status = job[Worker].fate, !.box = box]
    BY <2>1
  <2>3. /\ ops'[n].status = job[Worker].fate /\ ops'[n].box = box
        /\ ops'[n].action = ops[n].action /\ ops'[n].val = ops[n].val
    BY <1>1, <2>2 DEF Operations
  <2> QED
    BY <2>1, <2>3 DEF box
<1>7. Log'
  BY <1>2, <1>3, <1>4, <1>5, <1>6, LogSettle DEF WorkersOp, Reached
<1>8. (\A q \in Requests : pc'[q] = pc[q]) /\ ~WorkerBusy'
  <2>1. Proceed(Worker, "pick")
    BY <1>2 DEF Finish, Undone
  <2> QED
    BY <1>1, <2>1 DEF Proceed, Goto, WorkerBusy, Steps
<1> QED
  BY <1>3, <1>7, <1>8, WorkerStep

(* The login is given back. *)
LEMMA RedoReleases ==
  ASSUME ConstantsAssumption, Types, Kept, Release(Worker)
  PROVE  Kept'
<1>1. /\ Worker \in Threads /\ Worker \notin Requests /\ Requests \subseteq Threads
      /\ pc \in [Threads -> Places] /\ job \in [Threads -> Jobs]
  BY WorkerIs
<1>2. WorkerBusy /\ pc[Worker] = "release" /\ Redo(Worker)
  BY DEF Release, WorkerBusy, Steps, Redo
<1>3. /\ WorkersOp /\ Log /\ job[Worker].act # "create"
      /\ row = NoRow /\ account = Gone
  BY <1>2, OfWorker DEF WorkersOp, Reached
<1>4. Log' /\ UNCHANGED <<kind, account, row, ops, batch>>
  BY <1>1, <1>2, <1>3, LogRelease DEF Release, Registry
<1>5. CASE Fail(Worker)
  BY <1>2, <1>4, <1>5, RedoFails
<1>6. CASE Settle(Worker, "completed")
  <2>1. /\ \A q \in Threads \ {Worker} : pc'[q] = pc[q]
        /\ pc'[Worker] = "finish" /\ job'[Worker].fate = "completed" /\ job'[Worker].act = job[Worker].act
        /\ job'[Worker].val = job[Worker].val /\ job'[Worker].box = job[Worker].box
        /\ job'[Worker].op = job[Worker].op
    BY <1>1, <1>6, Moved
  <2>2. Reached(Worker)'
    BY <1>3, <1>4, <2>1 DEF Reached, Agreed
  <2> QED
    BY <1>1, <1>2, <1>4, <2>1, <2>2, RedoStep
<1> QED
  BY <1>2, <1>3, <1>5, <1>6 DEF Release, Registry

(* A restart forgets who was at work; the log says what is to be done. *)
LEMMA CrashKeeps ==
  ASSUME ConstantsAssumption, Types, Kept, Crash
  PROVE  Kept'
<1>1. Log'
  BY LogStands DEF Crash, Kept
<1>2. (\A q \in Requests : ~Working(q)') /\ ~WorkerBusy'
  BY WorkerIs DEF Crash, Working, WorkerBusy, Steps
<1> QED
  BY <1>1, <1>2 DEF Kept, Handlers, Handler, Apart, Redoes

(* Nothing but the owner changes, who is not lost. *)
LEMMA OwnerKeeps ==
  ASSUME Types, Kept, UNCHANGED <<kind, account, row, ops, pc, job, batch>>, owner # "free" => owner' # "free"
  PROVE  Kept'
<1>1. Log'
  BY LogStands DEF Kept
<1>2. \A q \in Requests : Handler(q)'
  BY SameOps
<1>3. \A q, r \in Requests : q # r => Apart(q, r)'
  BY DEF Kept, Handlers, Apart, Meet, Inserted, Removed, Started, Working
<1>4. Redoes'
  <2> SUFFICES ASSUME WorkerBusy PROVE Redoes'
    BY DEF Redoes, WorkerBusy
  <2>1. Redoes /\ Reached(Worker)
    BY DEF Kept, Redoes
  <2>2. Reached(Worker)'
    BY <2>1 DEF Reached, Agreed, Last
  <2> QED
    BY <2>1, <2>2 DEF Redoes, OpOf, Last, IsOpen, Working
<1> QED
  BY <1>1, <1>2, <1>3, <1>4 DEF Kept, Handlers

(* What the code keeps apart stays in order. *)
LEMMA KeptInductive ==
  ASSUME ConstantsAssumption, Types, raced \/ Kept, [Next]_vars
  PROVE  (raced \/ Kept)'
<1> SUFFICES ASSUME ~raced' PROVE Kept'
  OBVIOUS
<1>1. ~raced
  BY DEF Next, vars, Begin, BeginCreate, BeginUpdate, BeginPassword, BeginDelete, BeginResync, ChangeMembers,
         Refuse, NewJob, Continue, Available, StartOperation, ClaimOwner, Entity, Row, Undo, Finish, Release,
         SyncList, ClaimStale, Work, SyncClaim, Pick, Load, TakeLogin, Crash, Finished
<1>2. Kept
  BY <1>1
<1>3. ASSUME NEW p \in Requests, Continue(p) PROVE Kept'
  BY <1>2, <1>3, AvailableKeeps, StartKeeps, ClaimKeeps, EntityKeeps, RowKeeps, UndoKeeps, FinishKeeps,
     ReleaseKeeps DEF Continue
<1>4. ASSUME Continue(Worker) PROVE Kept'
  <2>1. ~Available(Worker) /\ ~StartOperation(Worker)
    BY WorkerIs DEF Types, Starts, Available, StartOperation
  <2>2. ~Undo(Worker)
    <3>1. pc[Worker] = "undo" => WorkerBusy
      BY DEF WorkerBusy, Steps
    <3> QED
      BY <1>2, <3>1, OfWorker DEF Undo, WorkersOp
  <2> QED
    BY <1>2, <1>4, <2>1, <2>2, RedoClaims, RedoEntity, RedoRow, RedoFinishes, RedoReleases DEF Continue
<1>5. ASSUME TakeLogin \/ UNCHANGED vars PROVE Kept'
  <2>1. UNCHANGED <<kind, account, row, ops, pc, job, batch>> /\ (owner # "free" => owner' # "free")
    BY <1>5 DEF TakeLogin, vars
  <2> QED
    BY <1>2, <2>1, OwnerKeeps
<1> QED
  BY <1>2, <1>3, <1>4, <1>5, BeginKeeps, SyncKeeps, ClaimStaleKeeps, PickKeeps, LoadKeeps, CrashKeeps DEF Next, Work, Finished, Threads

(* There is nothing to keep at first. *)
LEMMA KeptAtStart ==
  ASSUME ConstantsAssumption, Init
  PROVE  Kept
<1>1. (\A q \in Requests : ~Working(q)) /\ ~WorkerBusy
  BY DEF Init, Threads, Working, WorkerBusy, Steps
<1>2. Log
  BY DEF Init, Log, Agreed, NoRow
<1> QED
  BY <1>1, <1>2 DEF Kept, Handlers, Handler, Apart, Redoes

(* With no operation open and no handler at work, account and row are of   *)
(* one mind, and the login is not free: unless two changes met that the    *)
(* code does not keep apart.                                               *)
THEOREM AddressesAgree == Spec => []QuietMeansAgreed
<1>1. Init => raced \/ Kept
  BY ConstantsAssumption, KeptAtStart
<1>2. Types /\ (raced \/ Kept) /\ [Next]_vars => (raced \/ Kept)'
  BY ConstantsAssumption, KeptInductive
<1>3. raced \/ Kept => QuietMeansAgreed
  BY DEF Kept, Log, QuietMeansAgreed, Quiet, Agreed
<1> QED
  BY <1>1, <1>2, <1>3, TypesHold, PTL DEF Spec

=============================================================================
