-------------------------- MODULE MailboxLifecycle --------------------------
(***************************************************************************)
(* Suspending and restoring one mailbox from the admin portal.             *)
(*                                                                         *)
(* The truth lives in two places that no transaction spans: the password   *)
(* in force at the mail server, which only the SOC control plane changes,  *)
(* and the row of mailbox_lifecycle.  A handler therefore records its      *)
(* intent in mailbox_lifecycle_operations first, resets the password, then *)
(* writes the row, and undoes the reset when the row cannot be written.    *)
(* What a crash or a failure leaves open is claimed once it is stale and   *)
(* redone by the background worker.  Handlers and worker of one mailbox    *)
(* exclude each other with a lock; password change, deletion and creation  *)
(* of an account take no lock.                                             *)
(*                                                                         *)
(* Mailboxes share nothing here but the executor's threads, so one mailbox *)
(* is modelled.  There is no clock: an open operation may be stale at any  *)
(* time, since a handler may outlive MAILBOX_LIFECYCLE_STALE_SECONDS.      *)
(* A control-plane call has had its effect, or never will, when the caller *)
(* gives up on it.                                                         *)
(***************************************************************************)
EXTENDS Integers, FiniteSets

CONSTANTS
  Requests,    \* admin-portal requests on the mailbox, one shot each
  Worker,      \* the thread of background_worker_loop
  Ops,         \* ids of rows of mailbox_lifecycle_operations
  Passwords,   \* passwords a user may hold
  Blocked,     \* a random password nobody was told
  Absent,      \* no such account
  Nobody,      \* the lock is free
  Kinds,       \* bound: which operations the requests ask for
  PoolSize,    \* threads of the event loop's executor
  Faults,      \* what may fail: "control", "db", "read"
  MaxFaults,   \* bound: how many calls fail
  MaxCrashes   \* bound: how often the server is killed and restarted

AllKinds == {"suspend", "restore", "password", "delete", "create"}

ASSUME ConstantsAssumption ==
  /\ Worker \notin Requests
  /\ Nobody \notin Requests \cup {Worker}
  /\ Blocked \notin Passwords /\ Absent \notin Passwords /\ Blocked # Absent
  /\ Kinds \subseteq AllKinds
  /\ IsFiniteSet(Requests)
  /\ PoolSize \in Nat \ {0}
  /\ Faults \subseteq {"control", "db", "read"}
  /\ MaxFaults \in Nat
  /\ MaxCrashes \in Nat

VARIABLES
  (* the control plane *)
  live,       \* the password the mail server accepts
  stored,     \* the credential kept for recovery
  (* the database *)
  state,      \* "suspended", or "active" (row restored, or no row)
  opAction, opPass, opStatus,    \* the rows of mailbox_lifecycle_operations
  (* the threads *)
  lock,       \* who holds the mailbox's lock
  pc,
  act,        \* what the thread's operation is, "suspend" or "restore"
  op,         \* its row of the operations table
  got,        \* the recovery password the handler has read
  verdict,    \* the status it is going to leave in the row
  (* the environment *)
  faults,
  crashes

control == <<live, stored>>
opVars == <<opAction, opPass, opStatus>>
local == <<act, op, got, verdict>>
vars == <<control, state, opVars, lock, pc, local, faults, crashes>>

Threads == Requests \cup {Worker}
Actions == {"suspend", "restore"}
Open == {"pending", "reconciling"}
Labels == {"idle", "locking", "check", "recovery", "start", "reset", "mark",
           "undo", "finish", "change", "purge", "done", "poll", "waiting"}

(* The rows, the caches and the handlers have the shape the code gives them. *)
TypeOK ==
  /\ live \in Passwords \cup {Blocked, Absent}
  /\ stored \in Passwords \cup {Absent}
  /\ state \in {"active", "suspended"}
  /\ opAction \in [Ops -> Actions]
  /\ opPass \in [Ops -> Passwords \cup {Blocked}]
  /\ opStatus \in [Ops -> Open \cup {"unused", "completed"}]
  /\ lock \in Threads \cup {Nobody}
  /\ pc \in [Threads -> Labels]
  /\ act \in [Threads -> Actions]
  /\ op \in [Threads -> Ops]
  /\ got \in [Threads -> Passwords]
  /\ verdict \in [Threads -> {"pending", "completed"}]
  /\ faults \in Nat
  /\ crashes \in Nat

Init ==
  /\ live \in Passwords /\ stored = live
  /\ state = "active"
  /\ opAction = [o \in Ops |-> "suspend"]
  /\ opPass = [o \in Ops |-> Blocked]
  /\ opStatus = [o \in Ops |-> "unused"]
  /\ lock = Nobody
  /\ pc = [t \in Threads |-> IF t = Worker THEN "poll" ELSE "idle"]
  /\ act = [t \in Threads |-> "suspend"]
  /\ \E o \in Ops : op = [t \in Threads |-> o]
  /\ \E p \in Passwords : got = [t \in Threads |-> p]
  /\ verdict = [t \in Threads |-> "pending"]
  /\ faults = 0
  /\ crashes = 0

-----------------------------------------------------------------------------
(* Control of a thread. *)

Goto(t, l) == pc' = [pc EXCEPT ![t] = l]

Answer(t) == Goto(t, IF t = Worker THEN "poll" ELSE "done")

KeepLock == UNCHANGED lock          \* mutation: no release on the way out

(* The finally block, and the end of the worker's with block.              *)
Release == lock' = Nobody

Decide(t, v) ==
  /\ Goto(t, "finish")
  /\ verdict' = [verdict EXCEPT ![t] = v]

Fault(kind) ==
  /\ kind \in Faults
  /\ faults < MaxFaults
  /\ faults' = faults + 1

(* A handler awaits run_in_executor for every blocking call, and each      *)
(* handler waiting for the lock keeps a thread of the same executor.       *)
ThreadFree == Cardinality({r \in Requests : pc[r] = "locking"}) < PoolSize

CanRun(t) == t = Worker \/ ThreadFree

(* Whoever holds the lock cannot go on, since those who wait for it have   *)
(* all threads: lock.acquire has no timeout, and nothing else ends this.   *)
Exhausted ==
  /\ lock \in Requests /\ ~ThreadFree
  /\ pc[lock] \in {"recovery", "start", "reset", "mark", "undo", "finish"}

-----------------------------------------------------------------------------
(* The control plane, reached by _mail_control_request. *)

SetPassword(p, persist) ==
  /\ live # Absent
  /\ live' = p
  /\ stored' = IF persist THEN p ELSE stored

(* POST /api/mail/reset_password: done; or it raises, with or without the  *)
(* effect, when the call fails; or it raises because there is no account.  *)
ResetPassword(p, persist, raised) ==
  \/ ~raised /\ SetPassword(p, persist) /\ UNCHANGED faults
  \/ raised /\ Fault("control") /\ (SetPassword(p, persist) \/ UNCHANGED control)
  \/ raised /\ live = Absent /\ UNCHANGED <<control, faults>>

-----------------------------------------------------------------------------
(* adminportal_mailbox_suspend and adminportal_mailbox_restore. *)

Arrive(r, a) ==
  /\ pc[r] = "idle"
  /\ a \in Kinds \cap Actions
  /\ ThreadFree
  /\ act' = [act EXCEPT ![r] = a]
  /\ Goto(r, "locking")
  /\ UNCHANGED <<control, state, opVars, lock, op, got, verdict, faults, crashes>>

Acquire(r) ==
  /\ pc[r] = "locking"
  /\ lock = Nobody
  /\ lock' = r
  /\ Goto(r, "check")
  /\ UNCHANGED <<control, state, opVars, local, faults, crashes>>

(* A validation, a lookup or an insert that fails: 4xx or 5xx, no change.  *)
(* Only the first is made on the event loop.                               *)
Reject(r) ==
  /\ pc[r] = "check" \/ (pc[r] \in {"recovery", "start"} /\ CanRun(r))
  /\ Answer(r)
  /\ Release
  /\ UNCHANGED <<control, state, opVars, local, faults, crashes>>

(* Suspend wants a mailbox that is not suspended, restore one that is.     *)
Check(r) ==
  /\ pc[r] = "check"
  /\ (state = "suspended") <=> (act[r] = "restore")
  /\ Goto(r, "recovery")
  /\ UNCHANGED <<control, state, opVars, lock, local, faults, crashes>>

(* /api/mail/recovery_password; suspend then also reads the current hash.  *)
Recover(r) ==
  /\ pc[r] = "recovery" /\ CanRun(r)
  /\ stored # Absent
  /\ got' = [got EXCEPT ![r] = stored]
  /\ Goto(r, "start")
  /\ UNCHANGED <<control, state, opVars, lock, act, op, verdict, faults, crashes>>

(* _mailbox_lifecycle_operation_start: the partial unique index refuses a  *)
(* second open operation (then the handler answers 409: Reject).           *)
StartOp(r) ==
  /\ pc[r] = "start" /\ CanRun(r)
  /\ \A o \in Ops : opStatus[o] \notin Open
  /\ \E o \in Ops :
       /\ opStatus[o] = "unused"
       /\ op' = [op EXCEPT ![r] = o]
       /\ opAction' = [opAction EXCEPT ![o] = act[r]]
       /\ opPass' = [opPass EXCEPT ![o] = IF act[r] = "suspend" THEN Blocked
                                          ELSE got[r]]
       /\ opStatus' = [opStatus EXCEPT ![o] = "pending"]
  /\ Goto(r, "reset")
  /\ UNCHANGED <<control, state, lock, act, got, verdict, faults, crashes>>

(* The reset that carries the operation out.  Of the three callers only    *)
(* the suspend handler compensates a reset that raised.                    *)
OnResetError(t) ==
  IF t # Worker /\ act[t] = "suspend"
  THEN Goto(t, "undo") /\ UNCHANGED verdict
  ELSE Decide(t, "pending")

Reset(t) ==
  /\ pc[t] = "reset" /\ CanRun(t)
  /\ LET p == opPass[op[t]]
         persist == act[t] = "restore" IN
     \/ ResetPassword(p, persist, FALSE) /\ Goto(t, "mark") /\ UNCHANGED verdict
     \/ ResetPassword(p, persist, TRUE) /\ OnResetError(t)
  /\ UNCHANGED <<state, opVars, lock, act, op, got, crashes>>

(* db_mark_mailbox_suspended, db_mark_mailbox_restored: one write, then a  *)
(* read of the row; either may raise, and the handlers compensate.         *)
OnMarkError(t) ==
  IF t = Worker THEN Decide(t, "pending")
  ELSE Goto(t, "undo") /\ UNCHANGED verdict

WriteState(t) ==
  state' = IF act[t] = "suspend" THEN "suspended" ELSE "active"

Mark(t) ==
  /\ pc[t] = "mark" /\ CanRun(t)
  /\ \/ WriteState(t) /\ Decide(t, "completed") /\ UNCHANGED faults
     \/ Fault("db") /\ UNCHANGED state /\ OnMarkError(t)
     \/ Fault("read") /\ WriteState(t) /\ OnMarkError(t)
  /\ UNCHANGED <<control, opVars, lock, act, op, got, crashes>>

UndoUnchecked(raised) == "completed"    \* mutation: `compensated` always set

Compensated(raised) == IF raised THEN "pending" ELSE "completed"

(* The compensation of a handler: back to what held before its reset. *)
Undo(r) ==
  /\ pc[r] = "undo" /\ CanRun(r)
  /\ \E raised \in BOOLEAN :
       /\ IF act[r] = "suspend"
          THEN ResetPassword(got[r], TRUE, raised)
          ELSE ResetPassword(Blocked, FALSE, raised)
       /\ Decide(r, Compensated(raised))
  /\ UNCHANGED <<state, opVars, lock, act, op, got, crashes>>

(* _mailbox_lifecycle_operation_update, by id alone.  When it raises the   *)
(* handler answers 500; the worker retries with 'pending', then gives up.  *)
Finish(t) ==
  /\ pc[t] = "finish" /\ CanRun(t)
  /\ \/ /\ opStatus' = [opStatus EXCEPT ![op[t]] = verdict[t]]
        /\ Answer(t) /\ Release
        /\ UNCHANGED <<verdict, faults>>
     \/ /\ Fault("db")
        /\ IF t = Worker /\ verdict[t] = "completed"
           THEN Decide(t, "pending") /\ UNCHANGED lock
           ELSE Answer(t) /\ Release /\ UNCHANGED verdict
        /\ UNCHANGED opStatus
  /\ UNCHANGED <<control, state, opAction, opPass, act, op, got, crashes>>

-----------------------------------------------------------------------------
(* _reconcile_mailbox_lifecycle_operations. *)

ClaimablePending(o) == opStatus[o] = "pending"   \* mutation: one status only

Claimable(o) == opStatus[o] \in Open

ClaimStale ==
  /\ pc[Worker] = "poll"
  /\ \E o \in Ops :
       /\ Claimable(o)
       /\ opStatus' = [opStatus EXCEPT ![o] = "reconciling"]
       /\ op' = [op EXCEPT ![Worker] = o]
       /\ act' = [act EXCEPT ![Worker] = opAction[o]]
  /\ Goto(Worker, "waiting")
  /\ UNCHANGED <<control, state, opAction, opPass, lock, got, verdict, faults,
                 crashes>>

NotRechecked == TRUE                \* mutation: the claim is trusted

StillReconciling == opStatus[op[Worker]] = "reconciling"

(* With the lock, is the operation still the worker's to redo?             *)
WorkerLock ==
  /\ pc[Worker] = "waiting"
  /\ lock = Nobody
  /\ \/ /\ StillReconciling
        /\ lock' = Worker
        /\ Goto(Worker, "reset")
     \/ /\ ~StillReconciling
        /\ UNCHANGED lock
        /\ Goto(Worker, "poll")
  /\ UNCHANGED <<control, state, opVars, local, faults, crashes>>

-----------------------------------------------------------------------------
(* The operations that take no lock. *)

(* adminportal_change_password: the check is made before the await.        *)
BeginChange(r) ==
  /\ pc[r] = "idle"
  /\ "password" \in Kinds
  /\ state = "active"
  /\ Goto(r, "change")
  /\ UNCHANGED <<control, state, opVars, lock, local, faults, crashes>>

Change(r) ==
  /\ pc[r] = "change" /\ CanRun(r)
  /\ \E p \in Passwords, raised \in BOOLEAN : ResetPassword(p, TRUE, raised)
  /\ Answer(r)
  /\ UNCHANGED <<state, opVars, lock, local, crashes>>

(* adminportal_delete_account: the account first, then the row.            *)
Delete(r) ==
  /\ pc[r] = "idle" /\ CanRun(r)
  /\ "delete" \in Kinds
  /\ live' = Absent /\ stored' = Absent
  /\ \/ Goto(r, "purge") /\ UNCHANGED faults
     \/ Fault("control") /\ Answer(r)
  /\ UNCHANGED <<state, opVars, lock, local, crashes>>

Purge(r) ==
  /\ pc[r] = "purge"
  /\ state' = "active"
  /\ Answer(r)
  /\ UNCHANGED <<control, opVars, lock, local, faults, crashes>>

(* adminportal_create_account, for an account that is not there.           *)
Create(r) ==
  /\ pc[r] = "idle" /\ CanRun(r)
  /\ "create" \in Kinds
  /\ live = Absent
  /\ \E p \in Passwords : live' = p /\ stored' = p
  /\ Answer(r)
  /\ UNCHANGED <<state, opVars, lock, local, faults, crashes>>

-----------------------------------------------------------------------------
(* The environment. *)

(* The process is killed and started again: threads and locks are gone.    *)
Crash ==
  /\ crashes < MaxCrashes
  /\ crashes' = crashes + 1
  /\ pc' = [t \in Threads |-> IF t = Worker THEN "poll"
                              ELSE IF pc[t] = "idle" THEN "idle" ELSE "done"]
  /\ lock' = Nobody
  /\ UNCHANGED <<control, state, opVars, local, faults>>

Finished ==
  /\ \A r \in Requests : pc[r] \in {"idle", "done"}
  /\ pc[Worker] = "poll" /\ \A o \in Ops : opStatus[o] \notin Open
  /\ UNCHANGED vars

(* The portal's blocking calls hang until the process is killed. *)
Hung == Exhausted /\ UNCHANGED vars

Handler(r) == \/ Acquire(r) \/ Check(r) \/ Recover(r) \/ StartOp(r) \/ Reject(r)
              \/ Undo(r) \/ Reset(r) \/ Mark(r) \/ Finish(r)
              \/ Change(r) \/ Purge(r)

WorkerStep == \/ ClaimStale \/ WorkerLock
              \/ Reset(Worker) \/ Mark(Worker) \/ Finish(Worker)

Next ==
  \/ \E r \in Requests, a \in Actions : Arrive(r, a)
  \/ \E r \in Requests : BeginChange(r) \/ Delete(r) \/ Create(r) \/ Handler(r)
  \/ WorkerStep
  \/ Crash
  \/ Finished
  \/ Hung

Spec == Init /\ [][Next]_vars

(* The event loop resumes every handler and the worker polls for ever.  A  *)
(* waiting handler gets the lock in the end: the worker leaves it free for *)
(* as long as an operation takes to become stale again.                    *)
Fairness ==
  /\ WF_vars(WorkerStep)
  /\ \A r \in Requests : WF_vars(Handler(r)) /\ SF_vars(Acquire(r))

FairSpec == Spec /\ Fairness

-----------------------------------------------------------------------------
(* Safety. *)

Settled == \A o \in Ops : opStatus[o] \notin Open

(* "Suspension blocks login": with no operation open, a mailbox shown as   *)
(* suspended accepts no password that anybody holds.                       *)
SuspendedMeansBlocked ==
  Settled /\ state = "suspended" => live \in {Blocked, Absent}

(* The other way round: with no operation open, a mailbox shown as active  *)
(* accepts the credential kept for it; no failed or interrupted suspension *)
(* leaves its user locked out.                                             *)
ActiveMeansUsable ==
  Settled /\ state = "active" => live = stored

(* The last word on an operation stands: the updates by id alone never     *)
(* reopen one that is completed, though handler and worker both write it.  *)
CompletedStaysCompleted ==
  [][\A o \in Ops : opStatus[o] = "completed" => opStatus'[o] = "completed"]_vars

(* A mailbox becomes suspended only on behalf of a suspension that is      *)
(* still open: the worker never redoes one a handler has settled meanwhile. *)
SuspendedOnlyByOpenOperation ==
  [][state = "active" /\ state' = "suspended" =>
       \E o \in Ops : opStatus[o] \in Open /\ opAction[o] = "suspend"]_vars

-----------------------------------------------------------------------------
(* Liveness, with finitely many faults. *)

(* What was left open by a crash or a failure is completed in the end,     *)
(* unless the account is deleted, when the worker tries for ever, or those *)
(* who wait for the lock exhaust the pool.                                 *)
OperationsComplete ==
  \A o \in Ops :
    opStatus[o] \in Open ~> (opStatus[o] = "completed" \/ live = Absent \/ Exhausted)

(* Every request that got into the handler is answered, whatever fails and *)
(* whoever holds the lock or the threads meanwhile, unless those who wait  *)
(* for the lock exhaust the pool: as many as it has threads, while another *)
(* request holds the lock.                                                 *)
RequestsAnswered ==
  \A r \in Requests : pc[r] # "idle" ~> (pc[r] = "done" \/ Exhausted)
=============================================================================
