--------------------------- MODULE ScheduledSends ---------------------------
(***************************************************************************)
(* The send-later queue of the webmail server: the table scheduled_sends,  *)
(* the background worker that drains it, and the HTTP handlers that fill   *)
(* it (schedule, failed immediate send), cancel a row and retry a row.     *)
(*                                                                         *)
(* The worker is one thread; every handler is a request of its own that    *)
(* runs in an executor thread.  They share nothing but the table, and each *)
(* `with _db_connection()` block is one atomic step on it, so the          *)
(* interleavings are those of the blocks of _deliver_scheduled_send_row.   *)
(* The rows of a user other than the caller's are left out: both handlers  *)
(* reject them before any change.                                          *)
(***************************************************************************)
EXTENDS Integers, FiniteSets

CONSTANTS
  Rows,           \* queue items; each stands for one message a user composed
  Senders,        \* HTTP requests that send a message at once, one shot each
  Requests,       \* HTTP requests that cancel or retry a row, one shot each
  Worker,         \* the thread of background_worker_loop
  MaxAttempts,    \* claims after which the worker gives up (3 in the code)
  BatchLimit,     \* rows one poll takes (LIMIT 20 in the code)
  MaxTime,        \* bound: last instant of the clock
  MaxCrashes,     \* bound: how often the server is killed and restarted
  Faults,         \* "smtp": smtp_send raises after the relay took the message;
                  \* "db": a statement on the table raises
  MaxFaults       \* bound: how often that happens

ASSUME ConstantsAssumption ==
  /\ Worker \notin Senders \cup Requests
  /\ Senders \cap Requests = {}
  /\ MaxAttempts \in Nat \ {0}
  /\ BatchLimit \in Nat \ {0}
  /\ MaxTime \in Nat
  /\ MaxCrashes \in Nat
  /\ Faults \subseteq {"smtp", "db"}
  /\ MaxFaults \in Nat

VARIABLES
  (* one record of the table per item *)
  status,     \* "none" before the insert, then the column `status`
  attempts,   \* column `attempts`
  cred,       \* is `imap_pass_enc` non-empty?
  due,        \* column `scheduled_at`
  origin,     \* column `origin`
  (* the threads *)
  pc,         \* where the thread is
  cur,        \* the row it works on
  seen,       \* the status it read from that row
  pass,       \* does it hold a password (row's, or the session's override)?
  batch,      \* rows the current poll of the worker has still to visit
  (* the environment *)
  now,
  crashes,
  faults,
  (* history *)
  submitted,  \* how often the relay accepted the message
  cancelled,  \* rows whose cancellation was confirmed to the user
  retried     \* rows a retry request was let through for

rowVars  == <<status, attempts, cred, due, origin>>
procVars == <<pc, cur, seen, pass>>
vars == <<rowVars, procVars, batch, now, crashes, faults, submitted, cancelled,
          retried>>

Procs == Senders \cup Requests \cup {Worker}
Statuses == {"none", "pending", "sending", "failed", "sent", "cancelled"}
Labels == {"idle", "immediate", "queue", "next", "claim", "send",
           "markfailed", "marksent", "requeue", "done"}

(* The rows and the workers have the shape the table and the code give them. *)
TypeOK ==
  /\ status \in [Rows -> Statuses]
  /\ attempts \in [Rows -> Nat]
  /\ cred \in [Rows -> BOOLEAN]
  /\ due \in [Rows -> Nat]
  /\ origin \in [Rows -> {"scheduled", "immediate"}]
  /\ pc \in [Procs -> Labels]
  /\ cur \in [Procs -> Rows]
  /\ seen \in [Procs -> Statuses]
  /\ pass \in [Procs -> BOOLEAN]
  /\ batch \subseteq Rows
  /\ now \in Nat
  /\ crashes \in Nat /\ faults \in Nat
  /\ submitted \in [Rows -> Nat]
  /\ cancelled \subseteq Rows
  /\ retried \subseteq Rows

Init ==
  /\ status = [m \in Rows |-> "none"]
  /\ attempts = [m \in Rows |-> 0]
  /\ cred = [m \in Rows |-> FALSE]
  /\ due = [m \in Rows |-> 0]
  /\ origin = [m \in Rows |-> "scheduled"]
  /\ pc = [p \in Procs |-> IF p = Worker THEN "next" ELSE "idle"]
  /\ \E m \in Rows : cur = [p \in Procs |-> m]
  /\ seen = [p \in Procs |-> "none"]
  /\ pass = [p \in Procs |-> FALSE]
  /\ batch = {}
  /\ now = 0
  /\ crashes = 0 /\ faults = 0
  /\ submitted = [m \in Rows |-> 0]
  /\ cancelled = {}
  /\ retried = {}

-----------------------------------------------------------------------------
(* Control of a thread: where it goes when the delivery raises or returns. *)

Goto(p, l) == pc' = [pc EXCEPT ![p] = l]

Raise(p) == Goto(p, IF p = Worker THEN "requeue" ELSE "done")

Return(p) == Goto(p, IF p = Worker THEN "next" ELSE "done")

(* One of the failures the environment still owes, or none.                *)
Fails(kind) == kind \in Faults /\ faults < MaxFaults /\ faults' = faults + 1

Works == UNCHANGED faults

(* The row a message gets when it enters the table. *)
Insert(m, newStatus, at, from) ==
  /\ status' = [status EXCEPT ![m] = newStatus]
  /\ attempts' = [attempts EXCEPT ![m] = 0]
  /\ cred' = [cred EXCEPT ![m] = TRUE]
  /\ due' = [due EXCEPT ![m] = at]
  /\ origin' = [origin EXCEPT ![m] = from]

(* Both final UPDATEs and a cancellation blank the stored password.        *)
KeepCred(m) == UNCHANGED cred       \* mutation: the column is left out

WipeCred(m) == cred' = [cred EXCEPT ![m] = FALSE]

(* A message nobody has composed yet: not stored, not sent, not in hand. *)
Unused(m) ==
  /\ status[m] = "none"
  /\ submitted[m] = 0
  /\ \A p \in Procs : cur[p] = m => pc[p] \in {"idle", "next"}

-----------------------------------------------------------------------------
(* The handlers that take one step on the table. *)

(* POST /api/scheduled/send: the time must lie in the future. *)
Schedule(m) ==
  /\ Unused(m)
  /\ \E at \in (now + 1) .. MaxTime : Insert(m, "pending", at, "scheduled")
  /\ UNCHANGED <<procVars, batch, now, crashes, faults, submitted, cancelled, retried>>

CancellableInFlight(m) ==            \* mutation: a row in delivery counts too
  status[m] \in {"pending", "sending"}

Cancellable(m) == status[m] = "pending"

(* DELETE /api/scheduled/{id}: one UPDATE guarded by status='pending'. *)
Cancel(r, m) ==
  /\ pc[r] = "idle"
  /\ Cancellable(m)
  /\ Goto(r, "done")
  /\ status' = [status EXCEPT ![m] = "cancelled"]
  /\ WipeCred(m)
  /\ cancelled' = cancelled \cup {m}
  /\ UNCHANGED <<attempts, due, origin, cur, seen, pass, batch, now, crashes, faults,
                 submitted, retried>>

-----------------------------------------------------------------------------
(* POST /api/messages/send: SMTP at once, a row only when that raises. *)

StartImmediate(r, m) ==
  /\ pc[r] = "idle"
  /\ Unused(m)
  /\ Goto(r, "immediate")
  /\ cur' = [cur EXCEPT ![r] = m]
  /\ UNCHANGED <<rowVars, seen, pass, batch, now, crashes, faults, submitted,
                 cancelled, retried>>

(* The relay's answer to smtp_send: taken and reported, refused, or taken  *)
(* while the caller sees an error (a reset before the final reply, or an   *)
(* exception in the handler's own bookkeeping after the submission).       *)
SmtpOutcome(m, accepted, raised) ==
  /\ \/ accepted # raised /\ Works
     \/ accepted /\ raised /\ Fails("smtp")
  /\ submitted' = [submitted EXCEPT ![m] = IF accepted THEN @ + 1 ELSE @]

ImmediateSmtp(r) ==
  /\ pc[r] = "immediate"
  /\ \E accepted, raised \in BOOLEAN :
       /\ SmtpOutcome(cur[r], accepted, raised)
       /\ Goto(r, IF raised THEN "queue" ELSE "done")
  /\ UNCHANGED <<rowVars, cur, seen, pass, batch, now, crashes, cancelled,
                 retried>>

(* _queue_failed_immediate_send.  A send from a shared mailbox is not      *)
(* queued, and a failure to queue is only logged.                          *)
QueueFailed(r) ==
  /\ pc[r] = "queue"
  /\ \/ Insert(cur[r], "failed", now, "immediate")
     \/ UNCHANGED rowVars
  /\ Goto(r, "done")
  /\ UNCHANGED <<cur, seen, pass, batch, now, crashes, faults, submitted, cancelled,
                 retried>>

-----------------------------------------------------------------------------
(* _deliver_scheduled_send_row, block by block, for the thread p. *)

(* The SELECT and the checks on what it returned.  What a thread has read  *)
(* is forgotten when it is of no further use.                              *)
ReadRow(p, m, allowed, override) ==
  /\ cur' = [cur EXCEPT ![p] = m]
  /\ \/ /\ status[m] \in allowed /\ Works
        /\ seen' = [seen EXCEPT ![p] = status[m]]
        /\ pass' = [pass EXCEPT ![p] = override \/ cred[m]]
        /\ Goto(p, "claim")
     \/ /\ (status[m] \notin allowed /\ Works) \/ Fails("db")
        /\ Raise(p)
        /\ UNCHANGED <<seen, pass>>

(* The UPDATE guarded by the status that was read: rowcount = 1.           *)
ClaimUnguarded(p) == TRUE           \* mutation: UPDATE ... WHERE id=?

ClaimMatches(p) == status[cur[p]] = seen[p]

Claim(p) ==
  /\ pc[p] = "claim"
  /\ LET m == cur[p] IN
     \/ /\ ClaimMatches(p)
        /\ status' = [status EXCEPT ![m] = "sending"]
        /\ attempts' = [attempts EXCEPT ![m] = @ + 1]
        /\ Goto(p, "send")
        /\ Works /\ UNCHANGED pass
     \/ /\ (~ClaimMatches(p) /\ Works) \/ Fails("db")
        /\ Raise(p)
        /\ pass' = [pass EXCEPT ![p] = FALSE]
        /\ UNCHANGED <<status, attempts>>
  /\ seen' = [seen EXCEPT ![p] = "none"]
  /\ UNCHANGED <<cred, due, origin, cur, batch, now, crashes,
                 submitted, cancelled, retried>>

(* Where the try block ends: the except branch or the final UPDATE.        *)
AfterSmtpSwallowed(raised) == "marksent"     \* mutation: the exception is lost

AfterSmtpRetried(raised) == "markfailed"     \* mutation: success falls through

AfterSmtp(raised) == IF raised THEN "markfailed" ELSE "marksent"

(* The try block: no password, or one SMTP session. *)
Send(p) ==
  /\ pc[p] = "send"
  /\ \/ /\ ~pass[p]
        /\ Goto(p, "markfailed")
        /\ Works /\ UNCHANGED submitted
     \/ /\ pass[p]
        /\ \E accepted, raised \in BOOLEAN :
             /\ SmtpOutcome(cur[p], accepted, raised)
             /\ Goto(p, AfterSmtp(raised))
  /\ pass' = [pass EXCEPT ![p] = FALSE]
  /\ UNCHANGED <<rowVars, cur, seen, batch, now, crashes, cancelled,
                 retried>>

(* The except branch: an UPDATE by id alone, then raise. *)
MarkFailed(p) ==
  /\ pc[p] = "markfailed"
  /\ \/ Works /\ status' = [status EXCEPT ![cur[p]] = "failed"]
     \/ Fails("db") /\ UNCHANGED status
  /\ Raise(p)
  /\ UNCHANGED <<attempts, cred, due, origin, cur, seen, pass, batch, now,
                 crashes, submitted, cancelled, retried>>

(* The final UPDATE, by id alone; outside the try, so a fault raises too. *)
MarkSent(p) ==
  /\ pc[p] = "marksent"
  /\ \/ /\ status' = [status EXCEPT ![cur[p]] = "sent"]
        /\ WipeCred(cur[p])
        /\ Return(p)
        /\ Works
     \/ /\ Fails("db")
        /\ Raise(p)
        /\ UNCHANGED <<status, cred>>
  /\ UNCHANGED <<attempts, due, origin, cur, seen, pass, batch, now, crashes,
                 submitted, cancelled, retried>>

-----------------------------------------------------------------------------
(* The callers of the delivery. *)

(* POST /api/scheduled/{id}/retry: only 'failed' rows, session password. *)
StartRetry(r, m) ==
  /\ pc[r] = "idle"
  /\ status[m] # "none"
  /\ ReadRow(r, m, {"failed"}, TRUE)
  /\ retried' = IF status[m] = "failed" THEN retried \cup {m} ELSE retried
  /\ UNCHANGED <<rowVars, batch, now, crashes, submitted, cancelled>>

AutoStatusesSwapped == {"failed"}   \* mutation: the retry handler's tuple

(* The statuses the worker may deliver from.                               *)
AutoStatuses == {"pending"}

DueRows == {m \in Rows : status[m] = "pending" /\ due[m] <= now}

(* SELECT ... WHERE status='pending' AND scheduled_at <= now               *)
(* ORDER BY scheduled_at LIMIT BatchLimit.                                 *)
SelectDue ==
  /\ pc[Worker] = "next"
  /\ batch = {}
  /\ DueRows # {}
  /\ \E B \in SUBSET DueRows :
       /\ \/ Cardinality(B) = BatchLimit
          \/ B = DueRows /\ Cardinality(B) < BatchLimit
       /\ \A m \in B, n \in DueRows \ B : due[m] <= due[n]
       /\ batch' = B
  /\ UNCHANGED <<rowVars, procVars, now, crashes, faults, submitted, cancelled, retried>>

(* The next row of the poll's list, in its order. *)
Visit ==
  /\ pc[Worker] = "next"
  /\ \E m \in batch :
       /\ \A n \in batch : due[m] <= due[n]
       /\ batch' = batch \ {m}
       /\ ReadRow(Worker, m, AutoStatuses, FALSE)
  /\ UNCHANGED <<rowVars, now, crashes, submitted, cancelled, retried>>

RequeueOnceMore(m) ==               \* mutation: > for >=
  IF attempts[m] > MaxAttempts THEN "failed" ELSE "pending"

RequeueStatus(m) == IF attempts[m] >= MaxAttempts THEN "failed" ELSE "pending"

(* The worker's except branch: an UPDATE by id alone, whatever the row's   *)
(* status is by now.  A fault here ends the poll.                          *)
Requeue ==
  /\ pc[Worker] = "requeue"
  /\ LET m == cur[Worker] IN
     \/ /\ status' = [status EXCEPT ![m] = RequeueStatus(m)]
        /\ IF RequeueStatus(m) = "pending" THEN UNCHANGED cred ELSE WipeCred(m)
        /\ Works /\ UNCHANGED batch
     \/ /\ Fails("db")
        /\ batch' = {}
        /\ UNCHANGED <<status, cred>>
  /\ Goto(Worker, "next")
  /\ UNCHANGED <<attempts, due, origin, cur, seen, pass, now, crashes,
                 submitted, cancelled, retried>>

-----------------------------------------------------------------------------
(* The environment. *)

Tick ==
  /\ now < MaxTime
  /\ now' = now + 1
  /\ UNCHANGED <<rowVars, procVars, batch, crashes, faults, submitted, cancelled, retried>>

(* The process is killed and started again: every thread is gone, the      *)
(* table stays, and db_init blanks the credentials of settled rows.        *)
Crash ==
  /\ crashes < MaxCrashes
  /\ crashes' = crashes + 1
  /\ pc' = [p \in Procs |-> IF p = Worker THEN "next"
                            ELSE IF pc[p] = "idle" THEN "idle" ELSE "done"]
  /\ seen' = [p \in Procs |-> "none"] /\ pass' = [p \in Procs |-> FALSE]
  /\ batch' = {}
  /\ cred' = [m \in Rows |-> cred[m] /\ status[m] \notin {"sent", "cancelled"}]
  /\ UNCHANGED <<faults, status, attempts, due, origin, cur, now,
                 submitted, cancelled, retried>>

(* Nothing left to do: the requests are answered and the clock stands. *)
Finished ==
  /\ \A r \in Senders \cup Requests : pc[r] \in {"idle", "done"}
  /\ pc[Worker] = "next" /\ batch = {} /\ DueRows = {}
  /\ now = MaxTime
  /\ UNCHANGED vars

Deliver(p) == Claim(p) \/ Send(p) \/ MarkFailed(p) \/ MarkSent(p)

WorkerStep == SelectDue \/ Visit \/ Deliver(Worker) \/ Requeue

SendStep(s) == ImmediateSmtp(s) \/ QueueFailed(s)

Next ==
  \/ \E m \in Rows : Schedule(m)
  \/ \E s \in Senders, m \in Rows : StartImmediate(s, m)
  \/ \E s \in Senders : SendStep(s)
  \/ \E r \in Requests, m \in Rows : Cancel(r, m) \/ StartRetry(r, m)
  \/ \E r \in Requests : Deliver(r)
  \/ WorkerStep
  \/ Tick
  \/ Crash
  \/ Finished

Spec == Init /\ [][Next]_vars

(* The threads run and the clock advances; users and the killer owe nothing. *)
Fairness ==
  /\ WF_vars(WorkerStep)
  /\ \A s \in Senders : WF_vars(SendStep(s))
  /\ \A r \in Requests : WF_vars(Deliver(r))
  /\ WF_vars(Tick)

FairSpec == Spec /\ Fairness

-----------------------------------------------------------------------------
(* Safety. *)

(* A row the worker may still pick up has attempts left: however retries,  *)
(* cancellations and requeues interleave, no row is claimed automatically  *)
(* more than MaxAttempts times.                                            *)
PendingWithinBudget ==
  \A m \in Rows : status[m] = "pending" => attempts[m] < MaxAttempts

(* A row shown as sent was accepted by the relay at least once, whichever  *)
(* of the racing threads wrote the status last.                            *)
SentWasSubmitted ==
  \A m \in Rows : status[m] = "sent" => submitted[m] > 0

(* SEC-005: the stored password does not outlive the row: it is gone from  *)
(* a sent row and, for good, from a row whose cancellation was confirmed,  *)
(* even when the worker's except branch has since put it back in the queue. *)
CredentialGone ==
  \A m \in Rows : status[m] = "sent" \/ m \in cancelled => ~cred[m]

(* After a cancellation was confirmed the worker never submits the message, *)
(* though a stale poll may have set the row back to 'pending'.             *)
WorkerNeverSendsCancelled ==
  [][\A m \in cancelled :
       Send(Worker) /\ cur[Worker] = m => submitted'[m] = submitted[m]]_vars

(* A message the user never retried is submitted once, and so is an        *)
(* immediate message however many retries of it run at once; each relay    *)
(* answer that is lost and each statement that fails costs one more copy   *)
(* at most, and a restart costs none.                                      *)
SubmittedOnce ==
  \A m \in Rows :
    m \notin retried \/ origin[m] = "immediate" => submitted[m] <= 1 + faults

(* Liveness. *)

(* No row waits for ever: each ends, and stays, sent, cancelled or failed; *)
(* after a restart or a failed statement it may also be left in delivery.  *)
QueueSettles ==
  \A m \in Rows :
    <>[](\/ status[m] \in {"none", "sent", "cancelled", "failed"}
         \/ status[m] = "sending" /\ crashes + faults > 0)

-----------------------------------------------------------------------------
(* Refinement: the queue as its user and the relay see it. *)

(* The messages in the table, those of them that were to be sent at once,  *)
(* and those shown as sent.                                                *)
Stored == {m \in Rows : status[m] # "none"}

Direct == {m \in Stored : origin[m] = "immediate"}

Sent == {m \in Rows : status[m] = "sent"}

Promise == INSTANCE DeliveryPromise WITH
  Messages <- Rows, copies <- submitted, stored <- Stored, direct <- Direct,
  shown <- Sent, withdrawn <- cancelled, repeated <- retried, losses <- faults

(* However the worker, retries, cancellations, restarts and failures       *)
(* interleave, each step of the queue is one the promise of delivery       *)
(* allows: no copy too many, none of a message that was cancelled and not  *)
(* retried, and no status "sent" that goes away by itself.                 *)
KeepsPromise == Promise!PromiseSpec
=============================================================================
