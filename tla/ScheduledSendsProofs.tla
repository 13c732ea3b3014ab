------------------------ MODULE ScheduledSendsProofs ------------------------
(***************************************************************************)
(* What holds of the send-later queue for every number of rows, requests   *)
(* and crashes, with an ambiguous relay and a failing table allowed.       *)
(*                                                                         *)
(* The argument for the worker and a cancelled row: the confirmation blanks *)
(* the stored password (CredentialGone), the worker has no other one,      *)
(* and a worker that read the password before the confirmation fails its   *)
(* guarded claim, because nobody but the worker itself could set the row   *)
(* back to 'pending' in between (WorkerInv).                               *)
(*                                                                         *)
(* The argument for the copies of a message: a thread past the claim of a  *)
(* row that nobody retried is alone there (Hands, OnePastClaim), and while *)
(* the message can still be submitted, each copy the relay took so far     *)
(* goes with a failure of the environment (Paid).                          *)
(*                                                                         *)
(* The argument for the promise of delivery (DeliveryPromise): what these  *)
(* invariants say of the thread at each place is the guard of the step of  *)
(* the promise it takes; a status is written over "sent" only in a row the *)
(* user retried (Unsettled, OnePastClaim).                                 *)
(***************************************************************************)
EXTENDS ScheduledSends, TLAPS

(* The worker and the requests are distinct threads. *)
LEMMA ProcsFacts == /\ Worker \in Procs
                    /\ Senders \cup Requests \subseteq Procs
                    /\ \A r \in Senders \cup Requests : r # Worker
  BY ConstantsAssumption DEF Procs

(* Reading a row keeps the types of what a thread knows. *)
LEMMA ReadRowTyped ==
  ASSUME TypeOK, NEW p \in Procs, NEW m \in Rows, NEW allowed, NEW override \in BOOLEAN,
         ReadRow(p, m, allowed, override)
  PROVE  /\ cur' \in [Procs -> Rows] /\ seen' \in [Procs -> Statuses]
         /\ pass' \in [Procs -> BOOLEAN] /\ pc' \in [Procs -> Labels]
         /\ faults' \in Nat
<1> USE DEF TypeOK
<1>1. cur' \in [Procs -> Rows] /\ seen' \in [Procs -> Statuses]
  BY DEF ReadRow
<1>2. (override \/ cred[m]) \in BOOLEAN
  OBVIOUS
<1>3. \/ UNCHANGED pass
      \/ pass' = [pass EXCEPT ![p] = override \/ cred[m]]
  BY DEF ReadRow
<1>4. pass' \in [Procs -> BOOLEAN]
  BY <1>2, <1>3
<1>5. pc' \in [Procs -> Labels] /\ faults' \in Nat
  BY ProcsFacts DEF ReadRow, Raise, Goto, Fails, Works, Labels
<1>6. QED
  BY <1>1, <1>4, <1>5

(* Every variable keeps its type under every step of the threads, the      *)
(* users and the environment.                                              *)
THEOREM TypeCorrect == Spec => []TypeOK
<1>1. Init => TypeOK
  BY DEF Init, TypeOK, Statuses, Labels
<1>2. TypeOK /\ [Next]_vars => TypeOK'
  <2> SUFFICES ASSUME TypeOK, [Next]_vars PROVE TypeOK'
    OBVIOUS
  <2> USE ProcsFacts, ConstantsAssumption DEF TypeOK, Statuses, Labels, rowVars, procVars, Fails, Works
  <2>1. ASSUME NEW m \in Rows, Schedule(m) PROVE TypeOK'
    BY <2>1 DEF Schedule, Insert
  <2>2. ASSUME NEW r \in Requests, NEW m \in Rows, Cancel(r, m) PROVE TypeOK'
    BY <2>2 DEF Cancel, WipeCred, Goto
  <2>3. ASSUME NEW r \in Senders, NEW m \in Rows, StartImmediate(r, m)
        PROVE TypeOK'
    BY <2>3 DEF StartImmediate, Goto
  <2>4. ASSUME NEW r \in Requests, NEW m \in Rows, StartRetry(r, m)
        PROVE TypeOK'
    <3>1. r \in Procs /\ status[m] \in Statuses
      BY <2>4
    <3>2. /\ cur' \in [Procs -> Rows] /\ seen' \in [Procs -> Statuses]
          /\ pass' \in [Procs -> BOOLEAN] /\ pc' \in [Procs -> Labels]
          /\ faults' \in Nat
      BY <2>4, <3>1, ReadRowTyped DEF StartRetry
    <3>3. QED
      BY <2>4, <3>1, <3>2 DEF StartRetry
  <2>5. ASSUME NEW r \in Senders, ImmediateSmtp(r) PROVE TypeOK'
    BY <2>5 DEF ImmediateSmtp, SmtpOutcome, Goto
  <2>6. ASSUME NEW r \in Senders, QueueFailed(r) PROVE TypeOK'
    <3>1. r \in Procs /\ cur[r] \in Rows
      BY <2>6
    <3>2. CASE Insert(cur[r], "failed", now, "immediate")
      BY <2>6, <3>1, <3>2 DEF QueueFailed, Insert, Goto
    <3>3. CASE UNCHANGED rowVars
      BY <2>6, <3>1, <3>3 DEF QueueFailed, Goto
    <3>4. QED
      BY <2>6, <3>2, <3>3 DEF QueueFailed
  <2>7. ASSUME NEW p \in Procs, Claim(p) PROVE TypeOK'
    <3>1. status' \in [Rows -> Statuses] /\ attempts' \in [Rows -> Nat]
      BY <2>7 DEF Claim
    <3>2. pc' \in [Procs -> Labels] /\ faults' \in Nat
      BY <2>7 DEF Claim, Raise, Goto
    <3>3. seen' \in [Procs -> Statuses] /\ pass' \in [Procs -> BOOLEAN]
      BY <2>7 DEF Claim
    <3>4. QED
      BY <2>7, <3>1, <3>2, <3>3 DEF Claim
  <2>8. ASSUME NEW p \in Procs, Send(p) PROVE TypeOK'
    BY <2>8 DEF Send, SmtpOutcome, AfterSmtp, Goto
  <2>9. ASSUME NEW p \in Procs, MarkFailed(p) PROVE TypeOK'
    BY <2>9 DEF MarkFailed, Raise, Goto
  <2>10. ASSUME NEW p \in Procs, MarkSent(p) PROVE TypeOK'
    <3>1. status' \in [Rows -> Statuses] /\ cred' \in [Rows -> BOOLEAN]
      BY <2>10 DEF MarkSent, WipeCred
    <3>2. pc' \in [Procs -> Labels]
      BY <2>10 DEF MarkSent, Return, Raise, Goto
    <3>3. QED
      BY <2>10, <3>1, <3>2 DEF MarkSent
  <2>11. CASE SelectDue
    BY <2>11 DEF SelectDue, DueRows
  <2>12. CASE Visit
    <3>1. PICK m \in Rows : /\ ReadRow(Worker, m, AutoStatuses, FALSE)
                            /\ batch' = batch \ {m}
      BY <2>12 DEF Visit
    <3>2. /\ cur' \in [Procs -> Rows] /\ seen' \in [Procs -> Statuses]
          /\ pass' \in [Procs -> BOOLEAN] /\ pc' \in [Procs -> Labels]
          /\ faults' \in Nat
      BY <3>1, ReadRowTyped
    <3>3. QED
      BY <2>12, <3>1, <3>2 DEF Visit
  <2>13. CASE Requeue
    <3>1. cred' \in [Rows -> BOOLEAN]
      BY <2>13 DEF Requeue, WipeCred
    <3>2. status' \in [Rows -> Statuses] /\ batch' \subseteq Rows
      BY <2>13 DEF Requeue, RequeueStatus
    <3>3. pc' \in [Procs -> Labels] /\ faults' \in Nat
      BY <2>13 DEF Requeue, Goto
    <3>4. QED
      BY <2>13, <3>1, <3>2, <3>3 DEF Requeue
  <2>14. CASE Tick
    BY <2>14 DEF Tick
  <2>15. CASE Crash
    BY <2>15 DEF Crash
  <2>16. CASE Finished \/ UNCHANGED vars
    BY <2>16 DEF Finished, vars
  <2>17. QED
    BY <2>1, <2>2, <2>3, <2>4, <2>5, <2>6, <2>7, <2>8, <2>9, <2>10, <2>11,
       <2>12, <2>13, <2>14, <2>15, <2>16
       DEF Next, WorkerStep, SendStep, Deliver
<1>3. QED
  BY <1>1, <1>2, PTL DEF Spec

-----------------------------------------------------------------------------
(* The retry budget. *)

(* A row that is 'pending' has been claimed fewer than MaxAttempts times:  *)
(* the claim counts the attempt in the UPDATE that takes the row out of    *)
(* 'pending', and the except branch reads that count before it requeues.   *)
THEOREM PendingStaysWithinBudget == Spec => []PendingWithinBudget
<1>1. Init => PendingWithinBudget
  BY DEF Init, PendingWithinBudget
<1>2. TypeOK /\ PendingWithinBudget /\ [Next]_vars => PendingWithinBudget'
  <2> SUFFICES ASSUME TypeOK, PendingWithinBudget, [Next]_vars
               PROVE PendingWithinBudget'
    OBVIOUS
  <2> USE ProcsFacts, ConstantsAssumption DEF TypeOK, PendingWithinBudget
  <2>1. ASSUME NEW m \in Rows, Schedule(m) PROVE PendingWithinBudget'
    BY <2>1 DEF Schedule, Insert
  <2>2. ASSUME NEW r \in Requests, NEW m \in Rows, Cancel(r, m)
        PROVE PendingWithinBudget'
    BY <2>2 DEF Cancel
  <2>3. ASSUME NEW r \in Senders, QueueFailed(r) PROVE PendingWithinBudget'
    BY <2>3 DEF QueueFailed, Insert, rowVars
  <2>4. ASSUME NEW p \in Procs, Claim(p) PROVE PendingWithinBudget'
    BY <2>4 DEF Claim
  <2>5. ASSUME NEW p \in Procs, MarkFailed(p) \/ MarkSent(p)
        PROVE PendingWithinBudget'
    BY <2>5 DEF MarkFailed, MarkSent
  <2>6. CASE Requeue
    BY <2>6 DEF Requeue, RequeueStatus
  <2>7. ASSUME UNCHANGED <<status, attempts>> PROVE PendingWithinBudget'
    BY <2>7
  <2>8. QED
    BY <2>1, <2>2, <2>3, <2>4, <2>5, <2>6, <2>7
       DEF Next, WorkerStep, SendStep, Deliver, StartImmediate, StartRetry,
           ImmediateSmtp, Send, SelectDue, Visit, Tick, Crash, Finished, vars,
           rowVars
<1>3. QED
  BY <1>1, <1>2, TypeCorrect, PTL DEF Spec

-----------------------------------------------------------------------------
(* Who owns a message. *)

Delivering == {"claim", "send", "markfailed", "marksent", "requeue"}
Composing == {"immediate", "queue"}

(* A message is in the table, or in the hands of the one request that      *)
(* composes it, never both: a delivery only ever works on a stored row.    *)
Ownership ==
  /\ \A m \in cancelled \cup batch : status[m] # "none"
  /\ \A p \in Procs : pc[p] \in Delivering => status[cur[p]] # "none"
  /\ pc[Worker] \notin Composing
  /\ \A p \in Procs : pc[p] \in Composing => status[cur[p]] = "none"
  /\ \A p, q \in Procs :
       pc[p] \in Composing /\ pc[q] \in Composing /\ cur[p] = cur[q] => p = q

(* A row never leaves the table, and a message in hand is in nobody else's. *)
LEMMA OwnershipHolds == Spec => []Ownership
<1>1. Init => Ownership
  BY ProcsFacts DEF Init, Ownership, Delivering, Composing
<1>2. TypeOK /\ Ownership /\ [Next]_vars => Ownership'
  <2> SUFFICES ASSUME TypeOK, Ownership, [Next]_vars PROVE Ownership'
    OBVIOUS
  <2> USE ProcsFacts DEF TypeOK, Ownership, Delivering, Composing
  <2>1. ASSUME NEW m \in Rows, Schedule(m) PROVE Ownership'
    BY <2>1 DEF Schedule, Unused, Insert, procVars
  <2>2. ASSUME NEW r \in Requests, NEW m \in Rows, Cancel(r, m)
        PROVE Ownership'
    BY <2>2 DEF Cancel, Cancellable, Goto
  <2>3. ASSUME NEW r \in Senders, NEW m \in Rows, StartImmediate(r, m)
        PROVE Ownership'
    BY <2>3 DEF StartImmediate, Unused, Goto, rowVars
  <2>4. ASSUME NEW r \in Requests, NEW m \in Rows, StartRetry(r, m)
        PROVE Ownership'
    BY <2>4 DEF StartRetry, ReadRow, Raise, Goto, rowVars
  <2>5. ASSUME NEW r \in Senders, ImmediateSmtp(r) PROVE Ownership'
    BY <2>5 DEF ImmediateSmtp, Goto, rowVars
  <2>6. ASSUME NEW r \in Senders, QueueFailed(r) PROVE Ownership'
    BY <2>6 DEF QueueFailed, Insert, Goto, rowVars
  <2>7. ASSUME NEW p \in Procs, Claim(p) PROVE Ownership'
    BY <2>7 DEF Claim, Raise, Goto
  <2>8. ASSUME NEW p \in Procs, Send(p) PROVE Ownership'
    BY <2>8 DEF Send, AfterSmtp, Goto, rowVars
  <2>9. ASSUME NEW p \in Procs, MarkFailed(p) PROVE Ownership'
    BY <2>9 DEF MarkFailed, Raise, Goto
  <2>10. ASSUME NEW p \in Procs, MarkSent(p) PROVE Ownership'
    BY <2>10 DEF MarkSent, Raise, Return, Goto
  <2>11. CASE SelectDue
    BY <2>11 DEF SelectDue, DueRows, rowVars, procVars
  <2>12. CASE Visit
    BY <2>12 DEF Visit, ReadRow, Raise, Goto, AutoStatuses, rowVars
  <2>13. CASE Requeue
    BY <2>13 DEF Requeue, RequeueStatus, Goto
  <2>14. CASE Crash
    BY <2>14 DEF Crash
  <2>15. CASE Tick \/ Finished \/ UNCHANGED vars
    BY <2>15 DEF Tick, Finished, vars, rowVars, procVars
  <2>16. QED
    BY <2>1, <2>2, <2>3, <2>4, <2>5, <2>6, <2>7, <2>8, <2>9, <2>10, <2>11,
       <2>12, <2>13, <2>14, <2>15
       DEF Next, WorkerStep, SendStep, Deliver
<1>3. QED
  BY <1>1, <1>2, TypeCorrect, PTL DEF Spec

-----------------------------------------------------------------------------
(* SEC-005. *)

(* No stored password is left in a sent row or in a row whose cancellation *)
(* was confirmed: only an insert stores one, and by Ownership an insert    *)
(* never meets a row that is sent or cancelled already.                    *)
THEOREM CredentialsAreWiped == Spec => []CredentialGone
<1>1. Init => CredentialGone
  BY DEF Init, CredentialGone
<1>2. TypeOK /\ Ownership /\ CredentialGone /\ [Next]_vars => CredentialGone'
  <2> SUFFICES ASSUME TypeOK, Ownership, CredentialGone, [Next]_vars
               PROVE CredentialGone'
    OBVIOUS
  <2> USE ProcsFacts DEF TypeOK, Ownership, CredentialGone
  <2>1. ASSUME NEW m \in Rows, Schedule(m) PROVE CredentialGone'
    BY <2>1 DEF Schedule, Unused, Insert
  <2>2. ASSUME NEW r \in Requests, NEW m \in Rows, Cancel(r, m)
        PROVE CredentialGone'
    BY <2>2 DEF Cancel, WipeCred
  <2>3. ASSUME NEW r \in Senders, QueueFailed(r) PROVE CredentialGone'
    BY <2>3 DEF QueueFailed, Insert, rowVars, Composing
  <2>4. ASSUME NEW p \in Procs, Claim(p) \/ MarkFailed(p)
        PROVE CredentialGone'
    BY <2>4 DEF Claim, MarkFailed
  <2>5. ASSUME NEW p \in Procs, MarkSent(p) PROVE CredentialGone'
    BY <2>5 DEF MarkSent, WipeCred
  <2>6. CASE Requeue
    BY <2>6 DEF Requeue, RequeueStatus, WipeCred
  <2>7. CASE Crash
    BY <2>7 DEF Crash
  <2>8. ASSUME UNCHANGED <<status, cred, cancelled>> PROVE CredentialGone'
    BY <2>8
  <2>9. QED
    BY <2>1, <2>2, <2>3, <2>4, <2>5, <2>6, <2>7, <2>8
       DEF Next, WorkerStep, SendStep, Deliver, StartImmediate, StartRetry,
           ImmediateSmtp, Send, SelectDue, Visit, Tick, Finished, vars, rowVars
<1>3. QED
  BY <1>1, <1>2, TypeCorrect, OwnershipHolds, PTL DEF Spec

-----------------------------------------------------------------------------
(* Sent means submitted. *)

(* A thread about to write 'sent' has seen the relay accept the message. *)
AcceptedBeforeSent ==
  \A p \in Procs : pc[p] = "marksent" => submitted[cur[p]] > 0

(* The relay's answer comes before the statement that reports it.          *)
LEMMA AcceptedHolds == Spec => [](AcceptedBeforeSent /\ SentWasSubmitted)
<1> DEFINE Inv == AcceptedBeforeSent /\ SentWasSubmitted
<1>1. Init => Inv
  BY DEF Init, AcceptedBeforeSent, SentWasSubmitted
<1>2. TypeOK /\ Inv /\ [Next]_vars => Inv'
  <2> SUFFICES ASSUME TypeOK, Inv, [Next]_vars PROVE Inv'
    OBVIOUS
  <2> USE ProcsFacts DEF TypeOK, AcceptedBeforeSent, SentWasSubmitted
  <2>1. ASSUME NEW m \in Rows, Schedule(m) PROVE Inv'
    BY <2>1 DEF Schedule, Insert, procVars
  <2>2. ASSUME NEW r \in Requests, NEW m \in Rows, Cancel(r, m) PROVE Inv'
    BY <2>2 DEF Cancel, Goto
  <2>3. ASSUME NEW r \in Senders, NEW m \in Rows, StartImmediate(r, m)
        PROVE Inv'
    BY <2>3 DEF StartImmediate, Goto, rowVars
  <2>4. ASSUME NEW r \in Requests, NEW m \in Rows, StartRetry(r, m)
        PROVE Inv'
    BY <2>4 DEF StartRetry, ReadRow, Raise, Goto, rowVars
  <2>5. ASSUME NEW r \in Senders, ImmediateSmtp(r) PROVE Inv'
    BY <2>5 DEF ImmediateSmtp, SmtpOutcome, Goto, rowVars
  <2>6. ASSUME NEW r \in Senders, QueueFailed(r) PROVE Inv'
    BY <2>6 DEF QueueFailed, Insert, Goto, rowVars
  <2>7. ASSUME NEW p \in Procs, Claim(p) PROVE Inv'
    BY <2>7 DEF Claim, Raise, Goto
  <2>8. ASSUME NEW p \in Procs, Send(p) PROVE Inv'
    BY <2>8 DEF Send, SmtpOutcome, AfterSmtp, Goto, rowVars
  <2>9. ASSUME NEW p \in Procs, MarkFailed(p) PROVE Inv'
    BY <2>9 DEF MarkFailed, Raise, Goto
  <2>10. ASSUME NEW p \in Procs, MarkSent(p) PROVE Inv'
    BY <2>10 DEF MarkSent, Raise, Return, Goto
  <2>11. CASE Visit
    BY <2>11 DEF Visit, ReadRow, Raise, Goto, rowVars
  <2>12. CASE Requeue
    BY <2>12 DEF Requeue, RequeueStatus, Goto
  <2>13. CASE Crash
    BY <2>13 DEF Crash
  <2>14. CASE SelectDue \/ Tick \/ Finished \/ UNCHANGED vars
    BY <2>14 DEF SelectDue, Tick, Finished, vars, rowVars, procVars
  <2>15. QED
    BY <2>1, <2>2, <2>3, <2>4, <2>5, <2>6, <2>7, <2>8, <2>9, <2>10, <2>11,
       <2>12, <2>13, <2>14
       DEF Next, WorkerStep, SendStep, Deliver
<1>3. QED
  BY <1>1, <1>2, TypeCorrect, PTL DEF Spec

(* A row shown as 'sent' was accepted by the relay, whichever thread wrote *)
(* the status and whatever other deliveries of the row did meanwhile.      *)
THEOREM SentMeansSubmitted == Spec => []SentWasSubmitted
  BY AcceptedHolds, PTL

-----------------------------------------------------------------------------
(* The worker and a cancelled row. *)

(* What the worker knows of its row.  From the claim to the SMTP session   *)
(* nobody else puts the row back to 'pending'; if the row was cancelled    *)
(* while the worker held its password, the claim is bound to fail; and     *)
(* once past the claim, a cancelled row has left it without a password.    *)
WorkerInv ==
  LET m == cur[Worker] IN
  /\ pc[Worker] = "claim" => seen[Worker] = "pending"
  /\ pc[Worker] = "claim" /\ m \in cancelled /\ pass[Worker]
       => status[m] # "pending"
  /\ pc[Worker] = "send" => status[m] # "pending"
  /\ pc[Worker] = "send" /\ m \in cancelled => ~pass[Worker]

(* Nobody but the worker itself sets a row back to 'pending'. *)
LEMMA WorkerInvHolds == Spec => []WorkerInv
<1>1. Init => WorkerInv
  BY ProcsFacts DEF Init, WorkerInv
<1>2. TypeOK /\ Ownership /\ CredentialGone /\ WorkerInv /\ [Next]_vars
        => WorkerInv'
  <2> SUFFICES ASSUME TypeOK, Ownership, CredentialGone, WorkerInv, [Next]_vars
               PROVE WorkerInv'
    OBVIOUS
  <2> USE ProcsFacts DEF TypeOK, WorkerInv
  <2>1. ASSUME NEW m \in Rows, Schedule(m) PROVE WorkerInv'
    BY <2>1 DEF Schedule, Insert, procVars, Unused
  <2>2. ASSUME NEW r \in Requests, NEW m \in Rows, Cancel(r, m)
        PROVE WorkerInv'
    BY <2>2 DEF Cancel, Cancellable, Goto
  <2>3. ASSUME NEW r \in Senders, NEW m \in Rows, StartImmediate(r, m)
        PROVE WorkerInv'
    BY <2>3 DEF StartImmediate, Goto, rowVars
  <2>4. ASSUME NEW r \in Requests, NEW m \in Rows, StartRetry(r, m)
        PROVE WorkerInv'
    BY <2>4 DEF StartRetry, ReadRow, Raise, Goto, rowVars
  <2>5. ASSUME NEW r \in Senders, ImmediateSmtp(r) PROVE WorkerInv'
    BY <2>5 DEF ImmediateSmtp, Goto, rowVars
  <2>6. ASSUME NEW r \in Senders, QueueFailed(r) PROVE WorkerInv'
    BY <2>6 DEF QueueFailed, Insert, Goto, rowVars
  <2>7. ASSUME NEW p \in Procs, Claim(p) PROVE WorkerInv'
    BY <2>7 DEF Claim, ClaimMatches, Raise, Goto
  <2>8. ASSUME NEW p \in Procs, Send(p) PROVE WorkerInv'
    BY <2>8 DEF Send, AfterSmtp, Goto, rowVars
  <2>9. ASSUME NEW p \in Procs, MarkFailed(p) PROVE WorkerInv'
    BY <2>9 DEF MarkFailed, Raise, Goto
  <2>10. ASSUME NEW p \in Procs, MarkSent(p) PROVE WorkerInv'
    BY <2>10 DEF MarkSent, Raise, Return, Goto
  <2>11. CASE Visit
    BY <2>11 DEF Visit, ReadRow, Raise, Goto, AutoStatuses, rowVars,
                 CredentialGone
  <2>12. CASE Requeue
    BY <2>12 DEF Requeue, Goto
  <2>13. CASE Crash
    BY <2>13 DEF Crash
  <2>14. CASE SelectDue \/ Tick \/ Finished \/ UNCHANGED vars
    BY <2>14 DEF SelectDue, Tick, Finished, vars, rowVars, procVars
  <2>15. QED
    BY <2>1, <2>2, <2>3, <2>4, <2>5, <2>6, <2>7, <2>8, <2>9, <2>10, <2>11,
       <2>12, <2>13, <2>14
       DEF Next, WorkerStep, SendStep, Deliver
<1>3. QED
  BY <1>1, <1>2, TypeCorrect, OwnershipHolds, CredentialsAreWiped, PTL DEF Spec

(* Once the user has been told that a message is cancelled, no step of the *)
(* background worker submits it, although a stale poll of the worker may   *)
(* have put the row back to 'pending'.                                     *)
THEOREM WorkerRespectsCancellation == Spec => WorkerNeverSendsCancelled
<1> DEFINE Step == \A m \in cancelled :
      Send(Worker) /\ cur[Worker] = m => submitted'[m] = submitted[m]
<1>1. WorkerInv /\ [Next]_vars => [Step]_vars
  BY DEF WorkerInv, Send
<1>2. QED
  BY <1>1, WorkerInvHolds, PTL DEF Spec, WorkerNeverSendsCancelled

-----------------------------------------------------------------------------
(* Submitted once.                                                         *)

(* Who delivers what: a request delivers only rows it was let through for, *)
(* the worker only scheduled ones; an immediate message is never pending.  *)
PastClaim == {"send", "markfailed", "marksent"}

Hands ==
  /\ \A s \in Senders : pc[s] \in Composing \cup {"idle", "done"}
  /\ \A r \in Requests :
       /\ pc[r] \in PastClaim \cup {"claim", "idle", "done"}
       /\ pc[r] \in PastClaim \cup {"claim"} => cur[r] \in retried
       /\ pc[r] = "claim" => seen[r] = "failed"
  /\ pc[Worker] \in Delivering \cup {"next"}
  /\ pc[Worker] = "claim" => seen[Worker] = "pending"
  /\ pc[Worker] \in Delivering =>
       origin[cur[Worker]] = "scheduled" /\ cur[Worker] \notin batch
  /\ \A m \in Rows : origin[m] = "immediate" =>
       status[m] \notin {"pending", "cancelled"} /\ m \notin batch

(* The messages that are to be submitted once.                             *)
Eligible(m) == m \notin retried \/ origin[m] = "immediate"

(* One thread at a time is past the claim of such a message.               *)
OnePastClaim ==
  \A m \in Rows, p \in Procs : Eligible(m) /\ pc[p] \in PastClaim /\ cur[p] = m =>
    /\ status[m] = "sending"
    /\ \A q \in Procs : pc[q] \in PastClaim /\ cur[q] = m => q = p

(* Each copy so far was paid for by a failure of the environment.          *)
Spare(m) == submitted[m] <= faults

(* Where a message can still be submitted from.                            *)
InHand(p, m) ==
  /\ cur[p] = m
  /\ pc[p] \in {"send", "markfailed"} \/ (p = Worker /\ pc[p] \in {"claim", "requeue"})

Open(m) ==
  \/ status[m] \in {"pending", "failed", "cancelled"} \/ m \in batch
  \/ \E p \in Procs : InHand(p, m)

Paid ==
  /\ \A m \in Rows : Eligible(m) =>
       submitted[m] <= 1 + faults /\ (Open(m) => Spare(m))
  /\ \A p \in Procs :
       /\ pc[p] = "immediate" => submitted[cur[p]] = 0
       /\ pc[p] = "queue" => Spare(cur[p])

(* Requests, senders and the worker keep to their own steps and rows.      *)
LEMMA HandsInductive ==
  ASSUME TypeOK, Ownership, Hands, [Next]_vars
  PROVE  Hands'
<1> USE ProcsFacts DEF TypeOK, Ownership, Hands, Delivering, Composing, PastClaim
<1>1. ASSUME NEW m \in Rows, Schedule(m) PROVE Hands'
  BY <1>1 DEF Schedule, Unused, Insert, procVars
<1>2. ASSUME NEW r \in Requests, NEW m \in Rows, Cancel(r, m) PROVE Hands'
  BY <1>2 DEF Cancel, Cancellable, Goto
<1>3. ASSUME NEW r \in Senders, NEW m \in Rows, StartImmediate(r, m) PROVE Hands'
  BY <1>3, ConstantsAssumption DEF StartImmediate, Unused, Goto, rowVars
<1>4. ASSUME NEW r \in Requests, NEW m \in Rows, StartRetry(r, m) PROVE Hands'
  BY <1>4, ConstantsAssumption DEF StartRetry, ReadRow, Raise, Goto, rowVars
<1>5. ASSUME NEW r \in Senders, ImmediateSmtp(r) PROVE Hands'
  BY <1>5, ConstantsAssumption DEF ImmediateSmtp, Goto, rowVars
<1>6. ASSUME NEW r \in Senders, QueueFailed(r) PROVE Hands'
  BY <1>6, ConstantsAssumption DEF QueueFailed, Insert, Goto, rowVars
<1>7. ASSUME NEW p \in Requests \cup {Worker}, Claim(p) PROVE Hands'
  BY <1>7, ConstantsAssumption DEF Claim, Raise, Goto
<1>8. ASSUME NEW p \in Requests \cup {Worker}, Send(p) PROVE Hands'
  BY <1>8, ConstantsAssumption DEF Send, AfterSmtp, Goto, rowVars
<1>9. ASSUME NEW p \in Requests \cup {Worker}, MarkFailed(p) PROVE Hands'
  BY <1>9, ConstantsAssumption DEF MarkFailed, Raise, Goto
<1>10. ASSUME NEW p \in Requests \cup {Worker}, MarkSent(p) PROVE Hands'
  BY <1>10, ConstantsAssumption DEF MarkSent, Raise, Return, Goto
<1>11. CASE SelectDue
  BY <1>11 DEF SelectDue, DueRows, rowVars, procVars
<1>12. CASE Visit
  BY <1>12 DEF Visit, ReadRow, Raise, Goto, AutoStatuses, rowVars
<1>13. CASE Requeue
  BY <1>13 DEF Requeue, RequeueStatus, Goto
<1>14. CASE Crash
  BY <1>14 DEF Crash
<1>15. CASE Tick \/ Finished \/ UNCHANGED vars
  BY <1>15 DEF Tick, Finished, vars, rowVars, procVars
<1> QED
  BY <1>1, <1>2, <1>3, <1>4, <1>5, <1>6, <1>7, <1>8, <1>9, <1>10, <1>11,
     <1>12, <1>13, <1>14, <1>15
     DEF Next, WorkerStep, SendStep, Deliver

(* Of a message that is to be submitted once, the worker's row is nobody   *)
(* else's, and a row that is claimed again was given back before.          *)
LEMMA OnePastClaimInductive ==
  ASSUME TypeOK, Ownership, Hands, OnePastClaim, [Next]_vars
  PROVE  OnePastClaim'
<1> USE ProcsFacts DEF TypeOK, OnePastClaim, PastClaim
<1>0. ASSUME \A p \in Procs : pc'[p] \in PastClaim => pc[p] \in PastClaim /\ cur'[p] = cur[p],
             \A m \in Rows : Eligible(m)' => Eligible(m),
             \A m \in Rows : status[m] = "sending" => status'[m] = "sending"
      PROVE  OnePastClaim'
  BY <1>0
<1>1. ASSUME NEW m \in Rows, Schedule(m) PROVE OnePastClaim'
  <2>1. status[m] = "none" /\ \A p \in Procs : pc[p] \in PastClaim => cur[p] # m
    BY <1>1 DEF Schedule, Unused
  <2> QED
    BY <1>1, <2>1 DEF Schedule, Insert, procVars, Eligible
<1>2. ASSUME NEW r \in Requests, NEW m \in Rows, Cancel(r, m) PROVE OnePastClaim'
  BY <1>2 DEF Cancel, Cancellable, Goto, Eligible
<1>3. ASSUME NEW r \in Senders, NEW m \in Rows, StartImmediate(r, m) PROVE OnePastClaim'
  BY <1>3 DEF StartImmediate, Unused, Goto, rowVars, Eligible
<1>4. ASSUME NEW r \in Requests, NEW m \in Rows, StartRetry(r, m) PROVE OnePastClaim'
  BY <1>4 DEF StartRetry, ReadRow, Raise, Goto, rowVars, Eligible
<1>5. ASSUME NEW r \in Senders, ImmediateSmtp(r) PROVE OnePastClaim'
  BY <1>5 DEF ImmediateSmtp, Goto, rowVars, Eligible
<1>6. ASSUME NEW r \in Senders, QueueFailed(r) PROVE OnePastClaim'
  <2>1. status[cur[r]] = "none" /\ \A p \in Procs : pc[p] \in PastClaim => cur[p] # cur[r]
    BY <1>6 DEF QueueFailed, Ownership, Composing, Delivering
  <2> QED
    BY <1>6, <2>1 DEF QueueFailed, Insert, Goto, rowVars, Eligible
<1>7. ASSUME NEW p \in Requests \cup {Worker}, Claim(p) PROVE OnePastClaim'
  <2>1. seen[p] \in {"failed", "pending"} /\ p \in Procs
    BY <1>7 DEF Claim, Hands
  <2>2. CASE ClaimMatches(p) /\ status' = [status EXCEPT ![cur[p]] = "sending"]
               /\ Goto(p, "send")
    <3>1. status[cur[p]] # "sending"
      BY <2>1, <2>2 DEF ClaimMatches
    <3> QED
      BY <1>7, <2>1, <2>2, <3>1 DEF Claim, Goto, Eligible
  <2>3. CASE Raise(p) /\ UNCHANGED status
    BY <1>7, <2>3 DEF Claim, Raise, Goto, Eligible
  <2> QED
    BY <1>7, <2>2, <2>3 DEF Claim
<1>8. ASSUME NEW p \in Requests \cup {Worker}, Send(p) PROVE OnePastClaim'
  BY <1>8 DEF Send, AfterSmtp, Goto, rowVars, Eligible
<1>9. ASSUME NEW p \in Requests \cup {Worker}, MarkFailed(p) PROVE OnePastClaim'
  BY <1>9 DEF MarkFailed, Raise, Goto, Eligible
<1>10. ASSUME NEW p \in Requests \cup {Worker}, MarkSent(p) PROVE OnePastClaim'
  BY <1>10 DEF MarkSent, Raise, Return, Goto, Eligible
<1>11. CASE SelectDue
  BY <1>11 DEF SelectDue, rowVars, procVars, Eligible
<1>12. CASE Visit
  BY <1>12 DEF Visit, ReadRow, Raise, Goto, rowVars, Eligible
<1>13. CASE Requeue
  <2>1. pc[Worker] = "requeue" /\ origin[cur[Worker]] = "scheduled"
    BY <1>13 DEF Requeue, Hands, Delivering
  <2>2. ASSUME NEW q \in Procs, pc[q] \in PastClaim, Eligible(cur[q])
        PROVE  cur[q] # cur[Worker]
    <3>1. q \in Requests
      BY <2>1, <2>2 DEF Hands, Composing, Procs
    <3> QED
      BY <2>1, <2>2, <3>1 DEF Hands, Eligible
  <2> QED
    BY <1>13, <2>1, <2>2 DEF Requeue, Goto, Eligible
<1>14. CASE Crash
  BY <1>14 DEF Crash
<1>15. CASE Tick \/ Finished \/ UNCHANGED vars
  BY <1>15 DEF Tick, Finished, vars, rowVars, procVars, Eligible
<1> QED
  BY <1>1, <1>2, <1>3, <1>4, <1>5, <1>6, <1>7, <1>8, <1>9, <1>10, <1>11,
     <1>12, <1>13, <1>14, <1>15
     DEF Next, WorkerStep, SendStep, Deliver

(* A step that submits nothing and lets no more messages be submitted.     *)
LEMMA PaidStill ==
  ASSUME TypeOK, Paid, faults' \in Nat, faults' >= faults, submitted' = submitted,
         \A m \in Rows : Eligible(m)' => Eligible(m) /\ (Open(m)' => Spare(m)),
         \A p \in Procs : pc'[p] \in Composing => pc'[p] = pc[p] /\ cur'[p] = cur[p]
  PROVE  Paid'
  BY DEF TypeOK, Paid, Spare, Composing

(* A message in delivery is not being composed.                            *)
LEMMA NotComposed ==
  ASSUME TypeOK, Ownership, NEW p \in Procs, pc[p] \in Delivering
  PROVE  \A q \in Procs : pc[q] \in Composing => cur[q] # cur[p]
  BY DEF Ownership

(* The relay's answer to a delivery.                                       *)
LEMMA SendPaid ==
  ASSUME TypeOK, Ownership, Hands, OnePastClaim, Paid,
         NEW p \in Requests \cup {Worker}, Send(p)
  PROVE  Paid'
<1> USE ProcsFacts DEF TypeOK
<1>0. PICK m \in Rows : m = cur[p]
  BY DEF Procs
<1> USE <1>0
<1>1. /\ pc[p] = "send" /\ p \in Procs /\ m \in Rows
      /\ UNCHANGED <<status, origin, cur, batch, retried>>
      /\ pc' = [pc EXCEPT ![p] = pc'[p]]
      /\ pc'[p] \in {"markfailed", "marksent"}
  BY DEF Send, AfterSmtp, Goto, rowVars
<1>2. /\ \A n \in Rows \ {m} : submitted'[n] = submitted[n]
      /\ faults' \in Nat /\ faults' >= faults
  BY <1>1 DEF Send, SmtpOutcome, Fails, Works
<1>3. \/ submitted'[m] = submitted[m]
      \/ submitted'[m] = submitted[m] + 1 /\ (pc'[p] = "marksent" \/ faults' = faults + 1)
  BY <1>1 DEF Send, SmtpOutcome, Fails, Works, AfterSmtp, Goto
<1>4. ASSUME NEW q \in Procs, pc'[q] \in Composing
      PROVE  q # p /\ pc'[q] = pc[q] /\ cur[q] # m
  BY <1>1, <1>4, NotComposed DEF Composing, Delivering
<1>5. ASSUME NEW n \in Rows \ {m}, Eligible(n)'
      PROVE  Eligible(n) /\ (Open(n)' => Open(n))
  BY <1>1, <1>5 DEF Eligible, Open, InHand
<1>6. ASSUME Eligible(m)
      PROVE  /\ Spare(m) /\ status[m] = "sending" /\ m \notin batch
             /\ \A q \in Procs : InHand(q, m) => q = p
  <2>1. Spare(m)
    BY <1>1, <1>6 DEF Paid, Open, InHand
  <2>2. status[m] = "sending" /\ \A q \in Procs : pc[q] \in PastClaim /\ cur[q] = m => q = p
    BY <1>1, <1>6 DEF OnePastClaim, PastClaim
  <2>3. p = Worker \/ (origin[m] = "immediate" /\ p \in Requests)
    BY <1>1, <1>6 DEF Hands, Eligible, PastClaim
  <2>4. m \notin batch
    BY <1>1, <2>3 DEF Hands, Delivering
  <2>5. pc[Worker] \in {"claim", "requeue"} => cur[Worker] # m
    BY <1>1, <2>3 DEF Hands, Delivering
  <2> QED
    BY <2>1, <2>2, <2>4, <2>5 DEF InHand, PastClaim
<1>7. ASSUME Eligible(m)' PROVE submitted'[m] <= 1 + faults' /\ (Open(m)' => Spare(m)')
  <2>1. Eligible(m)
    BY <1>1, <1>7 DEF Eligible
  <2>2. Open(m)' => pc'[p] = "markfailed"
    BY <1>1, <1>6, <2>1 DEF Open, InHand
  <2> QED
    BY <1>1, <1>2, <1>3, <1>6, <2>1, <2>2 DEF Spare
<1>8. ASSUME NEW n \in Rows, Eligible(n)'
      PROVE  submitted'[n] <= 1 + faults' /\ (Open(n)' => Spare(n)')
  <2>1. CASE n = m
    BY <1>7, <1>8, <2>1
  <2>2. CASE n # m
    BY <1>2, <1>5, <1>8, <2>2 DEF Paid, Spare
  <2> QED
    BY <2>1, <2>2
<1>9. ASSUME NEW q \in Procs
      PROVE  /\ pc'[q] = "immediate" => submitted'[cur'[q]] = 0
             /\ pc'[q] = "queue" => Spare(cur[q])'
  BY <1>1, <1>2, <1>4, <1>9 DEF Paid, Spare, Composing
<1> QED
  BY <1>1, <1>8, <1>9 DEF Paid

(* The relay's answer to an immediate send: its row is not in the table.   *)
LEMMA ImmediatePaid ==
  ASSUME TypeOK, Ownership, Hands, Paid, NEW s \in Senders, ImmediateSmtp(s)
  PROVE  Paid'
<1> USE ProcsFacts DEF TypeOK
<1>0. PICK m \in Rows : m = cur[s]
  OBVIOUS
<1> USE <1>0
<1>1. /\ pc[s] = "immediate" /\ s \in Procs /\ m \in Rows
      /\ UNCHANGED <<status, origin, cur, batch, retried>>
      /\ pc'[s] \in {"queue", "done"}
      /\ \A q \in Procs \ {s} : pc'[q] = pc[q]
  BY DEF ImmediateSmtp, Goto, rowVars
<1>2. /\ \A n \in Rows \ {m} : submitted'[n] = submitted[n]
      /\ faults' \in Nat /\ faults' >= faults
  BY <1>1 DEF ImmediateSmtp, SmtpOutcome, Fails, Works
<1>3. submitted[m] = 0
  BY <1>1 DEF Paid
<1>4. submitted'[m] <= 1 /\ (pc'[s] = "queue" => submitted'[m] <= faults')
  BY <1>1, <1>3 DEF ImmediateSmtp, SmtpOutcome, Fails, Works, Goto
<1>5. status[m] = "none" /\ m \notin batch /\ \A q \in Procs : ~InHand(q, m)
  BY <1>1 DEF Ownership, Composing, Delivering, InHand
<1>6. ~Open(m)'
  BY <1>1, <1>5 DEF Open, InHand
<1>7. ASSUME NEW n \in Rows, Eligible(n)'
      PROVE  submitted'[n] <= 1 + faults' /\ (Open(n)' => Spare(n)')
  <2>1. CASE n = m
    <3>1. submitted'[m] <= 1 + faults'
      BY <1>2, <1>3, <1>4 DEF ImmediateSmtp, SmtpOutcome
    <3>2. ~Open(n)'
      BY <1>6, <2>1
    <3> QED
      BY <3>1, <3>2, <2>1
  <2>2. CASE n # m
    <3>1. Eligible(n) /\ (Open(n)' => Open(n))
      BY <1>1, <1>7 DEF Eligible, Open, InHand
    <3> QED
      BY <1>2, <2>2, <3>1 DEF Paid, Spare
  <2> QED
    BY <2>1, <2>2
<1>8. ASSUME NEW q \in Procs
      PROVE  /\ pc'[q] = "immediate" => submitted'[cur'[q]] = 0
             /\ pc'[q] = "queue" => Spare(cur[q])'
  <2>1. CASE q = s
    BY <1>1, <1>4, <2>1 DEF Spare
  <2>2. CASE q # s
    <3>1. pc[q] \in Composing => cur[q] # m
      BY <1>1, <2>2 DEF Ownership, Composing
    <3> QED
      BY <1>1, <1>2, <2>2, <3>1 DEF Paid, Spare, Composing
  <2> QED
    BY <2>1, <2>2
<1> QED
  BY <1>1, <1>7, <1>8 DEF Paid

(* Every step keeps the account of copies and failures.                    *)
LEMMA PaidInductive ==
  ASSUME TypeOK, TypeOK', Ownership, Hands, OnePastClaim, Paid, [Next]_vars
  PROVE  Paid'
<1> USE ProcsFacts
<1>0. /\ \A m \in Rows : submitted[m] \in Nat
      /\ faults \in Nat /\ faults' \in Nat
      /\ \A m \in Rows : Eligible(m) /\ Open(m) => Spare(m)
  BY DEF TypeOK, Paid
<1>1. ASSUME NEW m \in Rows, Schedule(m) PROVE Paid'
  <2>1. /\ submitted[m] = 0 /\ submitted' = submitted /\ faults' = faults
        /\ UNCHANGED <<pc, cur, batch, retried>>
        /\ \A n \in Rows \ {m} : status'[n] = status[n] /\ origin'[n] = origin[n]
    BY <1>1 DEF Schedule, Unused, Insert, procVars, TypeOK
  <2>2. Spare(m)
    BY <1>0, <2>1 DEF Spare
  <2>3. \A n \in Rows \ {m} : Eligible(n)' => Eligible(n) /\ (Open(n)' => Open(n))
    BY <2>1 DEF Eligible, Open, InHand
  <2> QED
    <3>1. \A n \in Rows : Eligible(n)' => submitted[n] <= 1 + faults /\ (Open(n)' => Spare(n))
      BY <1>0, <2>1, <2>2, <2>3 DEF Paid, Spare
    <3> QED
      BY <2>1, <3>1 DEF Paid, Spare
<1>2. ASSUME NEW r \in Requests, NEW m \in Rows, Cancel(r, m) PROVE Paid'
  <2>1. /\ UNCHANGED <<submitted, faults, cur, batch, retried, origin>>
        /\ status[m] = "pending" /\ \A n \in Rows \ {m} : status'[n] = status[n]
        /\ \A p \in Procs \ {r} : pc'[p] = pc[p]
        /\ pc'[r] = "done"
    BY <1>2 DEF Cancel, Cancellable, Goto, TypeOK
  <2>2. \A n \in Rows : Eligible(n)' => Eligible(n) /\ (Open(n)' => Open(n))
    BY <2>1 DEF Eligible, Open, InHand
  <2> QED
    BY <1>0, <2>1, <2>2, PaidStill DEF Composing
<1>3. ASSUME NEW s \in Senders, NEW m \in Rows, StartImmediate(s, m) PROVE Paid'
  <2>1. /\ UNCHANGED <<status, origin, submitted, faults, batch, retried>>
        /\ submitted[m] = 0 /\ pc'[s] = "immediate" /\ cur'[s] = m /\ s # Worker
        /\ \A p \in Procs \ {s} : pc'[p] = pc[p] /\ cur'[p] = cur[p]
    BY <1>3 DEF StartImmediate, Unused, Goto, rowVars, TypeOK
  <2>2. \A n \in Rows : Eligible(n)' => Eligible(n) /\ (Open(n)' => Open(n))
    BY <2>1 DEF Eligible, Open, InHand
  <2>3. \A p \in Procs : /\ pc'[p] = "immediate" => submitted'[cur'[p]] = 0
                         /\ pc'[p] = "queue" => submitted'[cur'[p]] <= faults'
    BY <2>1 DEF Paid, Spare
  <2>4. \A n \in Rows : Eligible(n)' => submitted'[n] <= 1 + faults' /\ (Open(n)' => Spare(n)')
    BY <1>0, <2>1, <2>2 DEF Paid, Spare
  <2> QED
    BY <2>3, <2>4 DEF Paid, Spare
<1>4. ASSUME NEW r \in Requests, NEW m \in Rows, StartRetry(r, m) PROVE Paid'
  <2>1. /\ UNCHANGED <<status, origin, submitted, batch>> /\ faults' >= faults
        /\ retried \subseteq retried' /\ pc'[r] \in {"claim", "done"} /\ r # Worker
        /\ \A p \in Procs \ {r} : pc'[p] = pc[p] /\ cur'[p] = cur[p]
    BY <1>0, <1>4 DEF StartRetry, ReadRow, Raise, Goto, Fails, Works, rowVars, TypeOK
  <2>2. \A n \in Rows : Eligible(n)' => Eligible(n) /\ (Open(n)' => Open(n))
    BY <2>1 DEF Eligible, Open, InHand
  <2> QED
    BY <1>0, <2>1, <2>2, PaidStill DEF Composing
<1>5. ASSUME NEW s \in Senders, ImmediateSmtp(s) PROVE Paid'
  BY <1>5, ImmediatePaid
<1>6. ASSUME NEW s \in Senders, QueueFailed(s) PROVE Paid'
  <2>1. PICK m \in Rows : m = cur[s]
    BY DEF TypeOK
  <2>2. /\ UNCHANGED <<submitted, faults, cur, batch, retried>>
        /\ pc[s] = "queue" /\ pc'[s] = "done"
        /\ \A p \in Procs \ {s} : pc'[p] = pc[p]
        /\ \A n \in Rows \ {m} : status'[n] = status[n] /\ origin'[n] = origin[n]
    BY <1>6, <2>1 DEF QueueFailed, Insert, Goto, rowVars, TypeOK
  <2>3. Spare(m)
    BY <2>1, <2>2 DEF Paid
  <2>4. \A n \in Rows \ {m} : Eligible(n)' => Eligible(n) /\ (Open(n)' => Open(n))
    BY <2>2 DEF Eligible, Open, InHand
  <2>5. \A n \in Rows : Eligible(n)' => submitted[n] <= 1 + faults /\ (Open(n)' => Spare(n))
    BY <1>0, <2>3, <2>4 DEF Paid, Spare
  <2> QED
    BY <2>2, <2>5 DEF Paid, Spare
<1>7. ASSUME NEW p \in Requests \cup {Worker}, Claim(p) PROVE Paid'
  <2>1. p \in Procs /\ pc[p] = "claim" /\ seen[p] \in {"failed", "pending"}
    BY <1>7 DEF Claim, Hands
  <2>2. PICK m \in Rows : m = cur[p]
    BY <2>1 DEF TypeOK
  <2>3. /\ UNCHANGED <<submitted, cur, batch, retried, origin>> /\ faults' >= faults
        /\ \A q \in Procs \ {p} : pc'[q] = pc[q]
        /\ \A n \in Rows \ {m} : status'[n] = status[n]
        /\ \/ pc'[p] = "send" /\ status'[m] = "sending" /\ status[m] = seen[p]
           \/ pc'[p] = "requeue" /\ p = Worker /\ status' = status
           \/ pc'[p] = "done" /\ status' = status
    BY <1>0, <1>7, <2>1, <2>2 DEF Claim, ClaimMatches, Raise, Goto, Fails, Works, TypeOK
  <2>4. \A n \in Rows : Eligible(n)' => Eligible(n)
    BY <2>3 DEF Eligible
  <2>5. \A n \in Rows \ {m} : Open(n)' => Open(n)
    BY <2>2, <2>3 DEF Open, InHand
  <2>6. Open(m)' => Open(m)
    BY <2>1, <2>2, <2>3 DEF Open, InHand
  <2> QED
    BY <1>0, <2>3, <2>4, <2>5, <2>6, PaidStill DEF Composing
<1>8. ASSUME NEW p \in Requests \cup {Worker}, Send(p) PROVE Paid'
  BY <1>8, SendPaid
<1>9. ASSUME NEW p \in Requests \cup {Worker}, MarkFailed(p) \/ MarkSent(p) PROVE Paid'
  <2>1. p \in Procs /\ pc[p] \in {"markfailed", "marksent"}
    BY <1>9 DEF MarkFailed, MarkSent
  <2>2. PICK m \in Rows : m = cur[p]
    BY <2>1 DEF TypeOK
  <2>3. /\ UNCHANGED <<submitted, cur, batch, retried, origin>> /\ faults' >= faults
        /\ \A q \in Procs \ {p} : pc'[q] = pc[q]
        /\ \A n \in Rows \ {m} : status'[n] = status[n]
        /\ pc'[p] \in {"requeue", "next", "done"}
        /\ status'[m] \in {status[m], "failed", "sent"}
        /\ pc[p] = "marksent" => status'[m] # "failed" \/ status[m] = "failed"
        /\ pc[p] = "marksent" /\ pc'[p] = "requeue" => faults' = faults + 1
    BY <1>0, <1>9, <2>1, <2>2
       DEF MarkFailed, MarkSent, Raise, Return, Goto, Fails, Works, TypeOK
  <2>4. \A n \in Rows : Eligible(n)' => Eligible(n)
    BY <2>3 DEF Eligible
  <2>5. \A n \in Rows \ {m} : Open(n)' => Open(n)
    BY <2>2, <2>3 DEF Open, InHand
  <2>6. ASSUME Eligible(m)', Open(m)' PROVE submitted[m] <= faults'
    <3>1. Eligible(m) /\ submitted[m] <= 1 + faults
      BY <2>4, <2>6 DEF Paid
    <3>2. CASE pc[p] = "markfailed"
      BY <1>0, <2>2, <2>3, <3>1, <3>2 DEF Open, InHand, Spare
    <3>3. CASE pc[p] = "marksent" /\ pc'[p] = "requeue"
      BY <1>0, <2>3, <3>1, <3>3
    <3>4. CASE pc[p] = "marksent" /\ pc'[p] # "requeue"
      <4>1. Open(m)
        BY <2>3, <2>6, <3>4 DEF Open, InHand
      <4> QED
        BY <1>0, <2>3, <3>1, <4>1 DEF Spare
    <3> QED
      BY <2>1, <3>2, <3>3, <3>4
  <2>7. \A n \in Rows : Eligible(n)' => submitted[n] <= 1 + faults' /\ (Open(n)' => Spare(n)')
    BY <1>0, <2>3, <2>4, <2>5, <2>6 DEF Paid, Spare
  <2>8. \A q \in Procs : pc'[q] \in Composing => pc'[q] = pc[q]
    BY <2>3 DEF Composing
  <2> QED
    BY <1>0, <2>3, <2>7, <2>8 DEF Paid, Spare, Composing, TypeOK
<1>10. CASE SelectDue
  <2>1. /\ UNCHANGED <<status, origin, submitted, faults, cur, pc, retried>>
        /\ \A m \in batch' : status[m] = "pending"
    BY <1>10 DEF SelectDue, DueRows, rowVars, procVars
  <2>2. \A n \in Rows : Eligible(n)' => Eligible(n) /\ (Open(n)' => Open(n))
    BY <2>1 DEF Eligible, Open, InHand
  <2> QED
    BY <1>0, <2>1, <2>2, PaidStill
<1>11. CASE Visit
  <2>1. PICK m \in Rows :
          /\ m \in batch /\ batch' = batch \ {m} /\ cur' = [cur EXCEPT ![Worker] = m]
          /\ pc'[Worker] \in {"claim", "requeue"} /\ \A q \in Procs \ {Worker} : pc'[q] = pc[q]
    BY <1>11 DEF Visit, ReadRow, Raise, Goto, TypeOK
  <2>2. UNCHANGED <<status, origin, submitted, retried>> /\ faults' >= faults
    BY <1>0, <1>11 DEF Visit, ReadRow, Fails, Works, rowVars
  <2>3. \A n \in Rows : Eligible(n)' => Eligible(n) /\ (Open(n)' => Open(n))
    BY <2>1, <2>2 DEF Eligible, Open, InHand, TypeOK
  <2>4. \A q \in Procs : pc'[q] \in Composing => pc'[q] = pc[q] /\ cur'[q] = cur[q]
    BY <2>1 DEF Composing, TypeOK
  <2> QED
    BY <1>0, <2>2, <2>3, <2>4, PaidStill
<1>12. CASE Requeue
  <2>1. PICK m \in Rows : m = cur[Worker]
    BY DEF TypeOK
  <2>2. /\ UNCHANGED <<submitted, cur, retried, origin>> /\ faults' >= faults
        /\ pc[Worker] = "requeue" /\ pc'[Worker] = "next" /\ batch' \subseteq batch
        /\ \A q \in Procs \ {Worker} : pc'[q] = pc[q]
        /\ \A n \in Rows \ {m} : status'[n] = status[n]
    BY <1>0, <1>12, <2>1 DEF Requeue, Goto, Fails, Works, TypeOK
  <2>3. \A n \in Rows \ {m} : Eligible(n)' => Eligible(n) /\ (Open(n)' => Open(n))
    BY <2>2 DEF Eligible, Open, InHand
  <2>4. Open(m) /\ (Eligible(m)' => Eligible(m))
    BY <2>1, <2>2 DEF Open, InHand, Eligible
  <2>5. \A q \in Procs : pc'[q] \in Composing => pc'[q] = pc[q] /\ cur'[q] = cur[q]
    BY <2>2 DEF Composing
  <2> QED
    BY <1>0, <2>2, <2>3, <2>4, <2>5, PaidStill
<1>13. CASE Crash
  <2>1. /\ UNCHANGED <<submitted, faults, status, origin, retried, cur>> /\ batch' = {}
        /\ \A q \in Procs : pc'[q] \in {"next", "idle", "done"}
    BY <1>13 DEF Crash
  <2>2. \A n \in Rows : Eligible(n)' => Eligible(n) /\ (Open(n)' => Open(n))
    BY <2>1 DEF Eligible, Open, InHand
  <2> QED
    BY <1>0, <2>1, <2>2, PaidStill DEF Composing
<1>14. CASE Tick \/ Finished \/ UNCHANGED vars
  <2>1. UNCHANGED <<submitted, faults, status, origin, retried, cur, pc, batch>>
    BY <1>14 DEF Tick, Finished, vars, rowVars, procVars
  <2>2. \A n \in Rows : Eligible(n)' => Eligible(n) /\ (Open(n)' => Open(n))
    BY <2>1 DEF Eligible, Open, InHand
  <2> QED
    BY <1>0, <2>1, <2>2, PaidStill
<1> QED
  BY <1>1, <1>2, <1>3, <1>4, <1>5, <1>6, <1>7, <1>8, <1>9, <1>10, <1>11,
     <1>12, <1>13, <1>14
     DEF Next, WorkerStep, SendStep, Deliver

(* The account of copies and failures holds at every moment.               *)
LEMMA PaidHolds == Spec => [](Hands /\ OnePastClaim /\ Paid)
<1>1. Init => Hands /\ OnePastClaim /\ Paid
  BY ProcsFacts DEF Init, Hands, OnePastClaim, PastClaim, Paid, Open, InHand, Spare,
     Composing, Delivering, Procs
<1>2. TypeOK /\ TypeOK' /\ Ownership /\ Hands /\ OnePastClaim /\ Paid /\ [Next]_vars
        => Hands' /\ OnePastClaim' /\ Paid'
  BY HandsInductive, OnePastClaimInductive, PaidInductive
<1> QED
  BY <1>1, <1>2, TypeCorrect, OwnershipHolds, PTL DEF Spec

(* A message nobody retried, and an immediate one, is submitted once, and  *)
(* once more at most for each answer of the relay that was lost and each   *)
(* statement that failed: whoever is past the claim of its row is alone,   *)
(* and gives the row back only unsent, or at the price of a failure.       *)
THEOREM CopiesArePaidFor == Spec => []SubmittedOnce
<1>1. Paid => SubmittedOnce
  BY DEF Paid, Eligible, SubmittedOnce
<1> QED
  BY <1>1, PaidHolds, PTL

-----------------------------------------------------------------------------
(* The promise of delivery.                                                *)

(* A message nobody retried is not shown as sent while the worker has yet  *)
(* to visit it, or is to put it back.                                      *)
Unsettled ==
  \A m \in Rows \ retried :
    m \in batch \/ (pc[Worker] \in {"claim", "requeue"} /\ cur[Worker] = m) => status[m] # "sent"

(* The worker writes over no status of a message that was sent for good.   *)
LEMMA UnsettledInductive ==
  ASSUME TypeOK, Ownership, Hands, OnePastClaim, Unsettled, [Next]_vars
  PROVE  Unsettled'
<1> USE ProcsFacts DEF TypeOK, Unsettled
<1>1. ASSUME NEW m \in Rows, Schedule(m) PROVE Unsettled'
  BY <1>1 DEF Schedule, Insert, procVars
<1>2. ASSUME NEW r \in Requests, NEW m \in Rows, Cancel(r, m) PROVE Unsettled'
  BY <1>2 DEF Cancel, Goto
<1>3. ASSUME NEW s \in Senders, NEW m \in Rows, StartImmediate(s, m) PROVE Unsettled'
  BY <1>3 DEF StartImmediate, Goto, rowVars
<1>4. ASSUME NEW r \in Requests, NEW m \in Rows, StartRetry(r, m) PROVE Unsettled'
  BY <1>4 DEF StartRetry, ReadRow, Raise, Goto, rowVars
<1>5. ASSUME NEW s \in Senders, SendStep(s) PROVE Unsettled'
  BY <1>5 DEF SendStep, ImmediateSmtp, QueueFailed, Insert, Goto, rowVars
<1>6. ASSUME NEW p \in Requests \cup {Worker}, Claim(p) PROVE Unsettled'
  BY <1>6 DEF Claim, Raise, Goto
<1>7. ASSUME NEW p \in Requests \cup {Worker}, Send(p) PROVE Unsettled'
  BY <1>7 DEF Send, AfterSmtp, Goto, rowVars
<1>8. ASSUME NEW p \in Requests \cup {Worker}, MarkFailed(p) \/ MarkSent(p) PROVE Unsettled'
  <2>1. p \in Procs /\ pc[p] \in {"markfailed", "marksent"}
    BY <1>8 DEF MarkFailed, MarkSent
  <2>2. PICK m \in Rows : m = cur[p]
    BY <2>1
  <2>3. /\ UNCHANGED <<cur, batch, retried>>
        /\ \A q \in Procs \ {p} : pc'[q] = pc[q]
        /\ \A n \in Rows \ {m} : status'[n] = status[n]
        /\ \/ status'[m] \in {status[m], "failed"}
           \/ status'[m] = "sent" /\ pc'[p] \in {"next", "done"}
    BY <1>8, <2>1, <2>2 DEF MarkFailed, MarkSent, Raise, Return, Goto
  <2>4. m \notin retried => p = Worker /\ status[m] = "sending" /\ m \notin batch
    BY <2>1, <2>2 DEF Hands, OnePastClaim, Eligible, PastClaim, Delivering
  <2> QED
    BY <2>1, <2>2, <2>3, <2>4
<1>9. CASE SelectDue
  BY <1>9 DEF SelectDue, DueRows, rowVars, procVars
<1>10. CASE Visit
  BY <1>10 DEF Visit, ReadRow, Raise, Goto, rowVars
<1>11. CASE Requeue
  BY <1>11 DEF Requeue, RequeueStatus, Goto
<1>12. CASE Crash
  BY <1>12 DEF Crash
<1>13. CASE Tick \/ Finished \/ UNCHANGED vars
  BY <1>13 DEF Tick, Finished, vars, rowVars, procVars
<1> QED
  BY <1>1, <1>2, <1>3, <1>4, <1>5, <1>6, <1>7, <1>8, <1>9, <1>10, <1>11, <1>12, <1>13
     DEF Next, WorkerStep, Deliver

(* What a written status does to the sets the promise speaks of.           *)
LEMMA WrittenStatus ==
  ASSUME TypeOK, NEW m \in Rows, NEW st \in Statuses \ {"none"}, status[m] # "none",
         status' = [status EXCEPT ![m] = st], origin' = origin
  PROVE  /\ Stored' = Stored /\ Direct' = Direct /\ m \in Stored
         /\ st = "sent" => Sent' = Sent \cup {m}
         /\ st # "sent" => Sent' = Sent \ {m}
  BY DEF TypeOK, Stored, Direct, Sent

(* What the promise takes no notice of.                                    *)
Unnoticed == UNCHANGED <<submitted, cancelled, retried>>

(* A lost statement or answer, and a step outside the promise.             *)
LEMMA LostOrStutter ==
  ASSUME UNCHANGED <<status, origin>>, Unnoticed, faults' \in {faults, faults + 1}
  PROVE  [Promise!PromiseNext]_(Promise!promiseVars)
<1>1. Stored' = Stored /\ Direct' = Direct /\ Sent' = Sent
  BY DEF Stored, Direct, Sent
<1>2. CASE faults' = faults
  BY <1>1, <1>2 DEF Unnoticed, Promise!promiseVars
<1>3. CASE faults' = faults + 1
  BY <1>1, <1>3 DEF Unnoticed, Promise!PromiseNext, Promise!Lose
<1> QED
  BY <1>2, <1>3

(* A status written over another one, by a thread that looked at the row   *)
(* before.                                                                 *)
LEMMA Overwritten ==
  ASSUME TypeOK, NEW m \in Rows, NEW st \in Statuses \ {"none", "sent"}, status[m] # "none",
         status' = [status EXCEPT ![m] = st], status[m] = "sent" => m \in retried,
         UNCHANGED <<origin, faults>>, Unnoticed
  PROVE  [Promise!PromiseNext]_(Promise!promiseVars)
<1>1. Stored' = Stored /\ Direct' = Direct /\ Sent' = Sent \ {m}
  BY WrittenStatus
<1>2. CASE m \in Sent
  <2>1. m \in Sent \cap retried
    BY <1>2 DEF Sent
  <2>2. Promise!Unshow(m)
    BY <1>1, <2>1 DEF Unnoticed, Promise!Unshow
  <2> QED
    BY <2>2 DEF Promise!PromiseNext
<1>3. CASE m \notin Sent
  BY <1>1, <1>3 DEF Unnoticed, Promise!promiseVars
<1> QED
  BY <1>2, <1>3

(* A message that enters the table.                                        *)
LEMMA Inserted ==
  ASSUME TypeOK, NEW m \in Rows, status[m] = "none", Spare(m), NEW st \in {"pending", "failed"},
         NEW from \in {"scheduled", "immediate"},
         status' = [status EXCEPT ![m] = st], origin' = [origin EXCEPT ![m] = from],
         UNCHANGED faults, Unnoticed
  PROVE  [Promise!PromiseNext]_(Promise!promiseVars)
<1>1. Stored' = Stored \cup {m} /\ m \notin Stored /\ Sent' = Sent
  BY DEF TypeOK, Stored, Sent
<1>2. Direct' \in {Direct, Direct \cup {m}}
  <2>1. CASE from = "scheduled"
    <3>1. Direct' = Direct
      BY <1>1, <2>1 DEF TypeOK, Direct
    <3> QED
      BY <3>1
  <2>2. CASE from = "immediate"
    <3>1. Direct' = Direct \cup {m}
      BY <1>1, <2>2 DEF TypeOK, Direct
    <3> QED
      BY <3>1
  <2> QED
    BY <2>1, <2>2
<1>3. Promise!Keep(m)
  BY <1>1, <1>2 DEF Unnoticed, Spare, Promise!Keep, Promise!Owed
<1> QED
  BY <1>3 DEF Promise!PromiseNext

(* The relay takes a copy of a message, at once or from the queue.         *)
LEMMA Transmitted ==
  ASSUME NEW m \in Rows, Spare(m) \/ m \in retried \ Direct, m \in cancelled => m \in retried,
         UNCHANGED <<status, origin, cancelled, retried>>, faults' \in {faults, faults + 1},
         submitted' = [submitted EXCEPT ![m] = @ + 1]
  PROVE  [Promise!PromiseNext]_(Promise!promiseVars)
<1>1. Stored' = Stored /\ Direct' = Direct /\ Sent' = Sent
  BY DEF Stored, Direct, Sent
<1>2. Promise!Transmit(m)
  BY <1>1 DEF Spare, Promise!Transmit, Promise!Owed
<1> QED
  BY <1>2 DEF Promise!PromiseNext

(* Every step of the queue is one of the promise, or none.                 *)
LEMMA StepsKeepPromise ==
  ASSUME TypeOK, Ownership, Hands, OnePastClaim, Paid, Unsettled, AcceptedBeforeSent, WorkerInv,
         [Next]_vars
  PROVE  [Promise!PromiseNext]_(Promise!promiseVars)
<1> USE ProcsFacts
<1>1. ASSUME NEW m \in Rows, Schedule(m)
      PROVE  [Promise!PromiseNext]_(Promise!promiseVars)
  <2>1. status[m] = "none" /\ Spare(m)
    BY <1>1 DEF Schedule, Unused, Spare, TypeOK
  <2> QED
    BY <1>1, <2>1, Inserted DEF Schedule, Insert, Unnoticed
<1>2. ASSUME NEW r \in Requests, NEW m \in Rows, Cancel(r, m)
      PROVE  [Promise!PromiseNext]_(Promise!promiseVars)
  <2>1. /\ status[m] = "pending" /\ status' = [status EXCEPT ![m] = "cancelled"]
        /\ cancelled' = cancelled \cup {m} /\ UNCHANGED <<origin, faults, submitted, retried>>
    BY <1>2 DEF Cancel, Cancellable
  <2>2. m \in Stored \ (Sent \cup Direct)
    BY <2>1 DEF Stored, Sent, Direct, Hands
  <2>3. Stored' = Stored /\ Direct' = Direct /\ Sent' = Sent
    <3>1. "cancelled" \in Statuses \ {"none"} /\ status[m] # "none"
      BY <2>1 DEF Statuses
    <3>2. Stored' = Stored /\ Direct' = Direct /\ Sent' = Sent \ {m}
      BY <2>1, <3>1, WrittenStatus
    <3> QED
      BY <2>2, <3>2
  <2>4. Promise!Withdraw(m)
    BY <2>1, <2>2, <2>3 DEF Promise!Withdraw
  <2> QED
    BY <2>4 DEF Promise!PromiseNext
<1>3. ASSUME NEW s \in Senders, NEW m \in Rows, StartImmediate(s, m)
      PROVE  [Promise!PromiseNext]_(Promise!promiseVars)
  BY <1>3, LostOrStutter DEF StartImmediate, rowVars, Unnoticed
<1>4. ASSUME NEW r \in Requests, NEW m \in Rows, StartRetry(r, m)
      PROVE  [Promise!PromiseNext]_(Promise!promiseVars)
  <2>1. /\ UNCHANGED <<status, origin, submitted, cancelled>> /\ faults' \in {faults, faults + 1}
        /\ retried' = IF status[m] = "failed" THEN retried \cup {m} ELSE retried
    BY <1>4 DEF StartRetry, ReadRow, Fails, Works, rowVars
  <2>2. CASE status[m] = "failed"
    <3>1. Stored' = Stored /\ Direct' = Direct /\ Sent' = Sent /\ m \in Stored \ Sent
      BY <2>1, <2>2 DEF Stored, Direct, Sent
    <3>2. Promise!Repeat(m)
      BY <2>1, <2>2, <3>1 DEF Promise!Repeat
    <3> QED
      BY <3>2 DEF Promise!PromiseNext
  <2>3. CASE status[m] # "failed"
    BY <2>1, <2>3, LostOrStutter DEF Unnoticed
  <2> QED
    BY <2>2, <2>3
<1>5. ASSUME NEW s \in Senders, ImmediateSmtp(s)
      PROVE  [Promise!PromiseNext]_(Promise!promiseVars)
  <2>1. PICK m \in Rows : m = cur[s]
    BY DEF TypeOK
  <2>2. status[m] = "none" /\ submitted[m] = 0 /\ pc[s] = "immediate"
    BY <1>5, <2>1 DEF ImmediateSmtp, Ownership, Composing, Paid
  <2>3. Spare(m) /\ m \notin cancelled
    BY <2>2 DEF Spare, TypeOK, Ownership
  <2>4. /\ UNCHANGED <<status, origin, cancelled, retried>> /\ faults' \in {faults, faults + 1}
        /\ submitted' = [submitted EXCEPT ![m] = @ + 1] \/ submitted' = submitted
    BY <1>5, <2>1 DEF ImmediateSmtp, SmtpOutcome, Fails, Works, rowVars, TypeOK
  <2> QED
    BY <2>3, <2>4, Transmitted, LostOrStutter DEF Unnoticed
<1>6. ASSUME NEW s \in Senders, QueueFailed(s)
      PROVE  [Promise!PromiseNext]_(Promise!promiseVars)
  <2>1. PICK m \in Rows : m = cur[s]
    BY DEF TypeOK
  <2>2. status[m] = "none" /\ Spare(m)
    BY <1>6, <2>1 DEF QueueFailed, Ownership, Composing, Paid
  <2>3. UNCHANGED faults /\ Unnoticed
    BY <1>6 DEF QueueFailed, Unnoticed
  <2>4. CASE Insert(m, "failed", now, "immediate")
    BY <2>2, <2>3, <2>4, Inserted DEF Insert
  <2>5. CASE UNCHANGED rowVars
    BY <2>3, <2>5, LostOrStutter DEF rowVars
  <2> QED
    BY <1>6, <2>1, <2>4, <2>5 DEF QueueFailed
<1>7. ASSUME NEW p \in Requests \cup {Worker}, Claim(p)
      PROVE  [Promise!PromiseNext]_(Promise!promiseVars)
  <2>1. PICK m \in Rows : m = cur[p]
    BY DEF TypeOK
  <2>2. status[m] # "none" /\ seen[p] \in {"failed", "pending"}
    BY <1>7, <2>1 DEF Claim, Ownership, Delivering, Hands
  <2>3. UNCHANGED origin /\ Unnoticed
    BY <1>7 DEF Claim, Unnoticed
  <2>4. CASE ClaimMatches(p) /\ status' = [status EXCEPT ![m] = "sending"] /\ Works
    BY <2>1, <2>2, <2>3, <2>4, Overwritten DEF ClaimMatches, Works, Statuses
  <2>5. CASE UNCHANGED status /\ (Works \/ Fails("db"))
    BY <2>3, <2>5, LostOrStutter DEF Works, Fails
  <2> QED
    BY <1>7, <2>1, <2>4, <2>5 DEF Claim
<1>8. ASSUME NEW p \in Requests \cup {Worker}, Send(p)
      PROVE  [Promise!PromiseNext]_(Promise!promiseVars)
  <2>1. PICK m \in Rows : m = cur[p]
    BY DEF TypeOK
  <2>2. /\ UNCHANGED <<status, origin, cancelled, retried>> /\ faults' \in {faults, faults + 1}
        /\ \/ submitted' = submitted
           \/ pass[p] /\ submitted' = [submitted EXCEPT ![m] = @ + 1]
        /\ pc[p] = "send"
    BY <1>8, <2>1 DEF Send, SmtpOutcome, Fails, Works, rowVars, TypeOK
  <2>3. CASE submitted' = submitted
    BY <2>2, <2>3, LostOrStutter DEF Unnoticed
  <2>4. CASE pass[p] /\ submitted' = [submitted EXCEPT ![m] = @ + 1]
    <3>1. m \in cancelled => m \in retried
      BY <2>1, <2>2, <2>4 DEF WorkerInv, Hands, PastClaim
    <3>2. CASE Eligible(m)
      <4>1. Spare(m)
        BY <2>1, <2>2, <3>2 DEF Paid, Open, InHand
      <4> QED
        BY <2>2, <2>4, <3>1, <4>1, Transmitted
    <3>3. CASE ~Eligible(m)
      <4>1. m \in retried \ Direct
        BY <3>3 DEF Eligible, Direct
      <4> QED
        BY <2>2, <2>4, <3>1, <4>1, Transmitted
    <3> QED
      BY <3>2, <3>3
  <2> QED
    BY <2>2, <2>3, <2>4
<1>9. ASSUME NEW p \in Requests \cup {Worker}, MarkFailed(p)
      PROVE  [Promise!PromiseNext]_(Promise!promiseVars)
  <2>1. PICK m \in Rows : m = cur[p]
    BY DEF TypeOK
  <2>2. UNCHANGED origin /\ Unnoticed /\ pc[p] = "markfailed"
    BY <1>9 DEF MarkFailed, Unnoticed
  <2>3. status[m] # "none" /\ (status[m] = "sent" => m \in retried)
    BY <2>1, <2>2 DEF Ownership, Delivering, OnePastClaim, Eligible, PastClaim
  <2>4. CASE Works /\ status' = [status EXCEPT ![m] = "failed"]
    BY <2>2, <2>3, <2>4, Overwritten DEF Works, Statuses
  <2>5. CASE Fails("db") /\ UNCHANGED status
    BY <2>2, <2>5, LostOrStutter DEF Fails
  <2> QED
    BY <1>9, <2>1, <2>4, <2>5 DEF MarkFailed
<1>10. ASSUME NEW p \in Requests \cup {Worker}, MarkSent(p)
       PROVE  [Promise!PromiseNext]_(Promise!promiseVars)
  <2>1. PICK m \in Rows : m = cur[p]
    BY DEF TypeOK
  <2>2. UNCHANGED origin /\ Unnoticed /\ pc[p] = "marksent"
    BY <1>10 DEF MarkSent, Unnoticed
  <2>3. status[m] # "none" /\ submitted[m] > 0
    BY <2>1, <2>2 DEF Ownership, Delivering, AcceptedBeforeSent
  <2>4. CASE Works /\ status' = [status EXCEPT ![m] = "sent"]
    <3>1. Stored' = Stored /\ Direct' = Direct /\ Sent' = Sent \cup {m} /\ m \in Stored
      BY <2>2, <2>3, <2>4, WrittenStatus DEF Statuses
    <3>2. Promise!Show(m)
      BY <2>2, <2>3, <2>4, <3>1 DEF Promise!Show, Unnoticed, Works
    <3> QED
      BY <3>2 DEF Promise!PromiseNext
  <2>5. CASE Fails("db") /\ UNCHANGED status
    BY <2>2, <2>5, LostOrStutter DEF Fails
  <2> QED
    BY <1>10, <2>1, <2>4, <2>5 DEF MarkSent
<1>11. CASE SelectDue
  BY <1>11, LostOrStutter DEF SelectDue, rowVars, Unnoticed
<1>12. CASE Visit
  <2>1. UNCHANGED <<status, origin>> /\ Unnoticed /\ faults' \in {faults, faults + 1}
    BY <1>12 DEF Visit, ReadRow, Fails, Works, rowVars, Unnoticed
  <2> QED
    BY <2>1, LostOrStutter
<1>13. CASE Requeue
  <2>1. PICK m \in Rows : m = cur[Worker]
    BY DEF TypeOK
  <2>2. UNCHANGED origin /\ Unnoticed /\ pc[Worker] = "requeue"
    BY <1>13 DEF Requeue, Unnoticed
  <2>3. status[m] # "none" /\ (status[m] = "sent" => m \in retried)
    BY <2>1, <2>2 DEF Ownership, Delivering, Unsettled
  <2>4. PICK st : st = RequeueStatus(m)
    OBVIOUS
  <2>5. st \in Statuses \ {"none", "sent"}
    BY <2>4 DEF RequeueStatus, Statuses
  <2>6. CASE status' = [status EXCEPT ![m] = RequeueStatus(m)] /\ Works
    <3>1. status' = [status EXCEPT ![m] = st] /\ UNCHANGED faults
      BY <2>4, <2>6 DEF Works
    <3> QED
      BY <2>2, <2>3, <2>5, <3>1, Overwritten
  <2>7. CASE Fails("db") /\ UNCHANGED status
    BY <2>2, <2>7, LostOrStutter DEF Fails
  <2> QED
    BY <1>13, <2>1, <2>6, <2>7 DEF Requeue
<1>14. CASE Tick \/ Crash \/ Finished \/ UNCHANGED vars
  <2>1. UNCHANGED <<status, origin, faults>> /\ Unnoticed
    BY <1>14 DEF Tick, Crash, Finished, vars, rowVars, Unnoticed
  <2> QED
    BY <2>1, LostOrStutter
<1> QED
  BY <1>1, <1>2, <1>3, <1>4, <1>5, <1>6, <1>7, <1>8, <1>9, <1>10, <1>11,
     <1>12, <1>13, <1>14
     DEF Next, WorkerStep, SendStep, Deliver

(* The queue keeps the promise of delivery: no copy that is not owed or    *)
(* asked for, no copy of a message that was cancelled and not retried, by  *)
(* whichever thread, and a status "sent" that stays unless the user        *)
(* retried the message.                                                    *)
THEOREM PromiseIsKept == Spec => KeepsPromise
<1>1. Init => Promise!PromiseInit
  BY DEF Init, Promise!PromiseInit, Stored, Direct, Sent
<1>2. Init => Unsettled
  BY ProcsFacts DEF Init, Unsettled
<1>3. TypeOK /\ Ownership /\ Hands /\ OnePastClaim /\ Unsettled /\ [Next]_vars => Unsettled'
  BY UnsettledInductive
<1>4. TypeOK /\ Ownership /\ Hands /\ OnePastClaim /\ Paid /\ Unsettled /\ AcceptedBeforeSent
        /\ WorkerInv /\ [Next]_vars => [Promise!PromiseNext]_(Promise!promiseVars)
  BY StepsKeepPromise
<1> QED
  BY <1>1, <1>2, <1>3, <1>4, TypeCorrect, OwnershipHolds, PaidHolds, AcceptedHolds,
     WorkerInvHolds, PTL DEF Spec, KeepsPromise, Promise!PromiseSpec
=============================================================================
