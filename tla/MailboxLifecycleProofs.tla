----------------------- MODULE MailboxLifecycleProofs -----------------------
(***************************************************************************)
(* What holds of suspension and restoration for every number of requests,  *)
(* operations, passwords, faults and crashes.                              *)
(*                                                                         *)
(* The argument: a thread past the lock owns the only open operation       *)
(* (Custody).  Where the row and the password disagree, that operation is  *)
(* still open and of the kind that will make them agree again (Blocking,   *)
(* Usability); and a thread about to close it as completed has made them   *)
(* agree.                                                                  *)
(***************************************************************************)
EXTENDS MailboxLifecycle, TLAPS

Holding(t) == pc[t] \in {"check", "recovery", "start", "reset", "mark",
                         "undo", "finish"}

Working(t) == pc[t] \in {"reset", "mark", "undo", "finish"}

(* The lock and the operations.  Whoever works on an operation holds the   *)
(* lock, and the operation is the open one; the worker, once it has made a *)
(* claim, knows the action of the operation it claimed.                    *)
Custody ==
  /\ \A t \in Threads : Holding(t) => lock = t
  /\ \A o1, o2 \in Ops :
       opStatus[o1] \in Open /\ opStatus[o2] \in Open => o1 = o2
  /\ \A t \in Threads : Working(t) =>
       opStatus[op[t]] \in Open /\ opAction[op[t]] = act[t]
  /\ pc[Worker] = "waiting" =>
       opStatus[op[Worker]] # "unused" /\ opAction[op[Worker]] = act[Worker]
  /\ pc[Worker] \notin {"check", "recovery", "start", "locking"}
  /\ \A o \in Ops : opAction[o] = "suspend" => opPass[o] = Blocked

(* What a handler has checked stays true while it holds the lock. *)
CheckStands ==
  \A r \in Requests :
    pc[r] \in {"recovery", "start", "reset", "mark", "undo"}
      /\ act[r] = "restore" => state = "suspended"

CheckStandsSuspend ==
  \A r \in Requests :
    pc[r] \in {"recovery", "start", "reset", "mark", "undo"}
      /\ act[r] = "suspend" => state = "active"

(* A suspended mailbox that accepts a password is about to be restored. *)
Unusable == live \in {Blocked, Absent}

Blocking ==
  /\ state = "suspended" /\ ~Unusable =>
       \E o \in Ops : opStatus[o] \in Open /\ opAction[o] = "restore"
  /\ \A t \in Threads :
       /\ state = "suspended" /\ pc[t] = "finish" /\ verdict[t] = "completed"
            => Unusable
       /\ pc[t] = "mark" /\ act[t] = "suspend" => Unusable
  /\ CheckStandsSuspend
  /\ \A r \in Requests : pc[r] # "change"

(* An active mailbox that does not accept its user's password is about to  *)
(* be suspended.                                                           *)
Usability ==
  /\ state = "active" /\ live # stored =>
       \E o \in Ops : opStatus[o] \in Open /\ opAction[o] = "suspend"
  /\ \A t \in Threads :
       /\ state = "active" /\ pc[t] = "finish" /\ verdict[t] = "completed"
            => live = stored
       /\ pc[t] = "mark" /\ act[t] = "restore" => live = stored
  /\ CheckStands
  /\ \A r \in Requests : pc[r] # "purge"

-----------------------------------------------------------------------------
(* The worker, the requests and the free lock are all different. *)
LEMMA ThreadFacts ==
  /\ Worker \in Threads /\ Requests \subseteq Threads
  /\ Worker \notin Requests
  /\ Nobody \notin Threads
  BY ConstantsAssumption DEF Threads

(* Operation rows: a suspension carries the blocking password. *)
OpRows == \A o \in Ops : opAction[o] = "suspend" <=> opPass[o] = Blocked

(* Every variable keeps its type; in particular the blocking password is   *)
(* never kept as the credential for recovery.                              *)
THEOREM TypeCorrect == Spec => []TypeOK
<1> DEFINE Inv == /\ TypeOK
                  /\ OpRows
                  /\ \A t \in Threads : pc[t] \in {"reset", "waiting"} =>
                       /\ opStatus[op[t]] # "unused"
                       /\ act[t] = opAction[op[t]]
<1>1. Init => Inv
  BY ConstantsAssumption DEF Init, TypeOK, OpRows, Open, Labels, Actions
<1>2. Inv /\ [Next]_vars => Inv'
  <2> SUFFICES ASSUME Inv, [Next]_vars PROVE Inv'
    OBVIOUS
  <2> USE ThreadFacts, ConstantsAssumption
      DEF TypeOK, OpRows, Labels, Actions, Open, control, opVars, local
  <2>1. ASSUME NEW r \in Requests, NEW a \in Actions, Arrive(r, a) PROVE Inv'
    BY <2>1 DEF Arrive, Goto
  <2>2. ASSUME NEW r \in Requests, Acquire(r) PROVE Inv'
    BY <2>2 DEF Acquire, Goto
  <2>3. ASSUME NEW r \in Requests, Check(r) PROVE Inv'
    BY <2>3 DEF Check, Goto
  <2>4. ASSUME NEW r \in Requests, Recover(r) PROVE Inv'
    BY <2>4 DEF Recover, Goto
  <2>5. ASSUME NEW r \in Requests, StartOp(r) PROVE Inv'
    BY <2>5 DEF StartOp, Goto
  <2>6. ASSUME NEW r \in Requests, Reject(r) PROVE Inv'
    BY <2>6 DEF Reject, Answer, Release, Goto
  <2>7. ASSUME NEW t \in Threads, Reset(t) PROVE Inv'
    <3>1. /\ live' \in Passwords \cup {Blocked, Absent}
          /\ stored' \in Passwords \cup {Absent}
          /\ faults' \in Nat
      BY <2>7 DEF Reset, ResetPassword, SetPassword, Fault
    <3>2. /\ pc' \in [Threads -> Labels] /\ pc'[t] \in {"mark", "undo", "finish"}
          /\ \A u \in Threads \ {t} : pc'[u] = pc[u]
          /\ verdict' \in [Threads -> {"pending", "completed"}]
      <4>1. (Goto(t, "mark") /\ UNCHANGED verdict) \/ OnResetError(t)
        BY <2>7 DEF Reset
      <4>2. QED
        BY <4>1 DEF OnResetError, Decide, Goto
    <3>3. QED
      BY <2>7, <3>1, <3>2 DEF Reset
  <2>8. ASSUME NEW t \in Threads, Mark(t) PROVE Inv'
    BY <2>8 DEF Mark, WriteState, OnMarkError, Decide, Goto, Fault
  <2>9. ASSUME NEW r \in Requests, Undo(r) PROVE Inv'
    <3>1. /\ live' \in Passwords \cup {Blocked, Absent}
          /\ stored' \in Passwords \cup {Absent}
          /\ faults' \in Nat
      BY <2>9 DEF Undo, ResetPassword, SetPassword, Fault
    <3>2. QED
      BY <2>9, <3>1 DEF Undo, Compensated, Decide, Goto
  <2>10. ASSUME NEW t \in Threads, Finish(t) PROVE Inv'
    BY <2>10 DEF Finish, Answer, Release, Decide, Goto, Fault
  <2>11. CASE ClaimStale
    BY <2>11 DEF ClaimStale, Claimable, Goto
  <2>12. CASE WorkerLock
    BY <2>12 DEF WorkerLock, Goto
  <2>13. ASSUME NEW r \in Requests, BeginChange(r) PROVE Inv'
    BY <2>13 DEF BeginChange, Goto
  <2>14. ASSUME NEW r \in Requests, Change(r) PROVE Inv'
    <3>1. /\ live' \in Passwords \cup {Blocked, Absent}
          /\ stored' \in Passwords \cup {Absent}
          /\ faults' \in Nat
      BY <2>14 DEF Change, ResetPassword, SetPassword, Fault
    <3>2. QED
      BY <2>14, <3>1 DEF Change, Answer, Goto
  <2>15. ASSUME NEW r \in Requests, Delete(r) \/ Purge(r) \/ Create(r)
         PROVE Inv'
    BY <2>15 DEF Delete, Purge, Create, Answer, Goto, Fault
  <2>16. CASE Crash
    BY <2>16 DEF Crash
  <2>17. CASE Finished \/ Hung \/ UNCHANGED vars
    BY <2>17 DEF Finished, Hung, vars
  <2>18. QED
    BY <2>1, <2>2, <2>3, <2>4, <2>5, <2>6, <2>7, <2>8, <2>9, <2>10, <2>11,
       <2>12, <2>13, <2>14, <2>15, <2>16, <2>17
       DEF Next, Handler, WorkerStep
<1>3. QED
  BY <1>1, <1>2, PTL DEF Spec

-----------------------------------------------------------------------------
(* What a step of the reset does to the control of its thread. *)
LEMMA ResetControl ==
  ASSUME TypeOK, NEW t \in Threads, Reset(t)
  PROVE  /\ pc[t] = "reset"
         /\ pc' = [pc EXCEPT ![t] = pc'[t]]
         /\ pc'[t] \in {"mark", "undo", "finish"}
         /\ pc'[t] = "undo" => t # Worker /\ act[t] = "suspend"
         /\ pc'[t] = "finish" => verdict'[t] = "pending"
         /\ \A u \in Threads \ {t} : verdict'[u] = verdict[u]
         /\ UNCHANGED <<state, opVars, lock, act, op, got>>
<1>1. (Goto(t, "mark") /\ UNCHANGED verdict) \/ OnResetError(t)
  BY DEF Reset
<1>2. QED
  BY <1>1 DEF Reset, OnResetError, Decide, Goto, TypeOK

(* The lock keeps handlers and worker apart, and whoever works on an       *)
(* operation works on the only open one.                                   *)
LEMMA CustodyHolds == Spec => []Custody
<1>1. Init => Custody
  BY ThreadFacts DEF Init, Custody, Holding, Working, Open
<1>2. TypeOK /\ Custody /\ [Next]_vars => Custody'
  <2> SUFFICES ASSUME TypeOK, Custody, [Next]_vars PROVE Custody'
    OBVIOUS
  <2> USE ThreadFacts
      DEF TypeOK, Custody, Holding, Working, Open, control, opVars, local
  <2>1. ASSUME NEW r \in Requests, NEW a \in Actions, Arrive(r, a)
        PROVE Custody'
    BY <2>1 DEF Arrive, Goto
  <2>2. ASSUME NEW r \in Requests, Acquire(r) PROVE Custody'
    BY <2>2 DEF Acquire, Goto
  <2>3. ASSUME NEW r \in Requests, Check(r) PROVE Custody'
    BY <2>3 DEF Check, Goto
  <2>4. ASSUME NEW r \in Requests, Recover(r) PROVE Custody'
    BY <2>4 DEF Recover, Goto
  <2>5. ASSUME NEW r \in Requests, StartOp(r) PROVE Custody'
    BY <2>5 DEF StartOp, Goto
  <2>6. ASSUME NEW r \in Requests, Reject(r) PROVE Custody'
    BY <2>6 DEF Reject, Answer, Release, Goto
  <2>7. ASSUME NEW t \in Threads, Reset(t) PROVE Custody'
    BY <2>7, ResetControl
  <2>8. ASSUME NEW t \in Threads, Mark(t) PROVE Custody'
    BY <2>8 DEF Mark, OnMarkError, Decide, Goto
  <2>9. ASSUME NEW r \in Requests, Undo(r) PROVE Custody'
    BY <2>9 DEF Undo, Decide, Goto
  <2>10. ASSUME NEW t \in Threads, Finish(t) PROVE Custody'
    BY <2>10 DEF Finish, Answer, Release, Decide, Goto
  <2>11. CASE ClaimStale
    BY <2>11 DEF ClaimStale, Claimable, Goto
  <2>12. CASE WorkerLock
    BY <2>12 DEF WorkerLock, StillReconciling, Goto
  <2>13. ASSUME NEW r \in Requests,
                BeginChange(r) \/ Change(r) \/ Delete(r) \/ Purge(r) \/ Create(r)
         PROVE Custody'
    <3>1. /\ UNCHANGED <<lock, opVars, act, op>>
          /\ pc[r] \in {"idle", "change", "purge"}
          /\ \E l \in {"change", "purge", "done"} : Goto(r, l)
      BY <2>13 DEF BeginChange, Change, Delete, Purge, Create, Answer
    <3>2. QED
      BY <3>1 DEF Goto
  <2>14. CASE Crash
    BY <2>14 DEF Crash
  <2>15. CASE Finished \/ Hung \/ UNCHANGED vars
    BY <2>15 DEF Finished, Hung, vars
  <2>16. QED
    BY <2>1, <2>2, <2>3, <2>4, <2>5, <2>6, <2>7, <2>8, <2>9, <2>10, <2>11,
       <2>12, <2>13, <2>14, <2>15
       DEF Next, Handler, WorkerStep
<1>3. QED
  BY <1>1, <1>2, TypeCorrect, PTL DEF Spec

(* A completed operation is never reopened: an update by id comes from the *)
(* thread that holds the lock, and what that thread works on is open.      *)
THEOREM CompletedForGood == Spec => CompletedStaysCompleted
<1> DEFINE Step == \A o \in Ops :
      opStatus[o] = "completed" => opStatus'[o] = "completed"
<1>1. TypeOK /\ Custody /\ [Next]_vars => [Step]_vars
  <2> SUFFICES ASSUME TypeOK, Custody, Next PROVE Step
    OBVIOUS
  <2> USE ThreadFacts DEF TypeOK, Custody, Working, Open, opVars
  <2>1. ASSUME NEW r \in Requests, StartOp(r) PROVE Step
    BY <2>1 DEF StartOp
  <2>2. ASSUME NEW t \in Threads, Finish(t) PROVE Step
    BY <2>2 DEF Finish
  <2>3. CASE ClaimStale
    BY <2>3 DEF ClaimStale, Claimable
  <2>4. ASSUME UNCHANGED opStatus PROVE Step
    BY <2>4
  <2>5. QED
    BY <2>1, <2>2, <2>3, <2>4
       DEF Next, Handler, WorkerStep, Arrive, Acquire, Check, Recover, Reject,
           Reset, Mark, Undo, WorkerLock, BeginChange, Change, Delete, Purge,
           Create, Crash, Finished, Hung, vars
<1>2. QED
  BY <1>1, TypeCorrect, CustodyHolds, PTL DEF Spec, CompletedStaysCompleted

(* A mailbox becomes suspended only while a suspension is open.            *)
THEOREM SuspensionHasAnOperation == Spec => SuspendedOnlyByOpenOperation
<1> DEFINE Step == state = "active" /\ state' = "suspended" =>
      \E o \in Ops : opStatus[o] \in Open /\ opAction[o] = "suspend"
<1>1. TypeOK /\ Custody /\ [Next]_vars => [Step]_vars
  <2> SUFFICES ASSUME TypeOK, Custody, Next PROVE Step
    OBVIOUS
  <2> USE ThreadFacts DEF TypeOK, Custody, Working, Actions
  <2>1. ASSUME NEW t \in Threads, Mark(t) PROVE Step
    BY <2>1 DEF Mark, WriteState
  <2>2. ASSUME NEW r \in Requests, Purge(r) PROVE Step
    BY <2>2 DEF Purge
  <2>3. ASSUME UNCHANGED state PROVE Step
    BY <2>3
  <2>4. QED
    BY <2>1, <2>2, <2>3
       DEF Next, Handler, WorkerStep, Arrive, Acquire, Check, Recover, Reject,
           StartOp, Reset, Undo, Finish, ClaimStale, WorkerLock, BeginChange,
           Change, Delete, Create, Crash, Finished, Hung, vars
<1>2. QED
  BY <1>1, TypeCorrect, CustodyHolds, PTL DEF Spec, SuspendedOnlyByOpenOperation

-----------------------------------------------------------------------------
(* What a step of the reset does to the password: a suspension leaves it   *)
(* alone or blocks it, and goes on to the row only if it is blocked; a     *)
(* restoration leaves it alone or makes it the stored one.                 *)
LEMMA ResetEffect ==
  ASSUME TypeOK, Custody, NEW t \in Threads, Reset(t)
  PROVE  /\ opStatus[op[t]] \in Open /\ opAction[op[t]] = act[t]
         /\ act[t] = "suspend" =>
              /\ live' = live \/ live' = Blocked
              /\ pc'[t] = "mark" => live' = Blocked
         /\ act[t] = "restore" =>
              /\ live' = stored' \/ UNCHANGED control
              /\ pc'[t] = "mark" => live' = stored'
<1> USE DEF TypeOK, Custody, Working, control
<1>1. opStatus[op[t]] \in Open /\ opAction[op[t]] = act[t]
  BY DEF Reset
<1>2. act[t] = "suspend" => opPass[op[t]] = Blocked
  BY <1>1
<1>3. \/ /\ ResetPassword(opPass[op[t]], act[t] = "restore", FALSE)
         /\ Goto(t, "mark")
      \/ /\ ResetPassword(opPass[op[t]], act[t] = "restore", TRUE)
         /\ OnResetError(t)
  BY DEF Reset
<1>4. CASE ResetPassword(opPass[op[t]], act[t] = "restore", FALSE)
  BY <1>1, <1>2, <1>4 DEF ResetPassword, SetPassword
<1>5. CASE /\ ResetPassword(opPass[op[t]], act[t] = "restore", TRUE)
           /\ OnResetError(t)
  <2>1. pc'[t] # "mark"
    BY <1>5 DEF OnResetError, Decide, Goto
  <2>2. QED
    BY <1>1, <1>2, <1>5, <2>1 DEF ResetPassword, SetPassword
<1>6. QED
  BY <1>3, <1>4, <1>5

(* Unless the row can be written and the answer to that lost, and as long  *)
(* as nobody changes a password or creates the account anew meanwhile, a   *)
(* mailbox shown as suspended with no operation open accepts no password.  *)
THEOREM SuspensionBlocks ==
  ASSUME "read" \notin Faults, Kinds \cap {"password", "create"} = {}
  PROVE  Spec => []SuspendedMeansBlocked
<1>1. Init => Blocking
  BY ThreadFacts
     DEF Init, Blocking, CheckStandsSuspend, Unusable, Threads
<1>2. TypeOK /\ Custody /\ Blocking /\ [Next]_vars => Blocking'
  <2> SUFFICES ASSUME TypeOK, Custody, Blocking, [Next]_vars PROVE Blocking'
    OBVIOUS
  <2> USE ThreadFacts
      DEF TypeOK, Custody, Blocking, CheckStandsSuspend, Unusable, Holding,
          Working, Open, Actions, control, opVars, local
  <2>1. ASSUME NEW r \in Requests, NEW a \in Actions, Arrive(r, a)
        PROVE Blocking'
    BY <2>1 DEF Arrive, Goto
  <2>2. ASSUME NEW r \in Requests, Acquire(r) PROVE Blocking'
    BY <2>2 DEF Acquire, Goto
  <2>3. ASSUME NEW r \in Requests, Check(r) PROVE Blocking'
    BY <2>3 DEF Check, Goto
  <2>4. ASSUME NEW r \in Requests, Recover(r) PROVE Blocking'
    BY <2>4 DEF Recover, Goto
  <2>5. ASSUME NEW r \in Requests, StartOp(r) PROVE Blocking'
    BY <2>5 DEF StartOp, Goto
  <2>6. ASSUME NEW r \in Requests, Reject(r) PROVE Blocking'
    BY <2>6 DEF Reject, Answer, Release, Goto
  <2>7. ASSUME NEW t \in Threads, Reset(t) PROVE Blocking'
    BY <2>7, ResetControl, ResetEffect
  <2>8. ASSUME NEW t \in Threads, Mark(t) PROVE Blocking'
    BY <2>8 DEF Mark, OnMarkError, WriteState, Fault, Decide, Goto
  <2>9. ASSUME NEW r \in Requests, Undo(r) PROVE Blocking'
    BY <2>9 DEF Undo, Compensated, ResetPassword, SetPassword, Decide, Goto
  <2>10. ASSUME NEW t \in Threads, Finish(t) PROVE Blocking'
    BY <2>10 DEF Finish, Answer, Release, Decide, Goto
  <2>11. CASE ClaimStale
    BY <2>11 DEF ClaimStale, Claimable, Goto
  <2>12. CASE WorkerLock
    BY <2>12 DEF WorkerLock, Goto
  <2>13. ASSUME NEW r \in Requests, Delete(r) \/ Purge(r) PROVE Blocking'
    BY <2>13 DEF Delete, Purge, Answer, Goto
  <2>14. ASSUME NEW r \in Requests, BeginChange(r) \/ Change(r) \/ Create(r)
         PROVE FALSE
    BY <2>14 DEF BeginChange, Change, Create
  <2>15. CASE Crash
    BY <2>15 DEF Crash
  <2>16. CASE Finished \/ Hung \/ UNCHANGED vars
    BY <2>16 DEF Finished, Hung, vars
  <2>17. QED
    BY <2>1, <2>2, <2>3, <2>4, <2>5, <2>6, <2>7, <2>8, <2>9, <2>10, <2>11,
       <2>12, <2>13, <2>14, <2>15, <2>16
       DEF Next, Handler, WorkerStep
<1>3. Blocking => SuspendedMeansBlocked
  BY DEF Blocking, Unusable, SuspendedMeansBlocked, Settled
<1>4. QED
  BY <1>1, <1>2, <1>3, TypeCorrect, CustodyHolds, PTL DEF Spec

(* Under the same proviso on the database, and as long as nobody deletes   *)
(* the account meanwhile, a mailbox shown as active with no operation open *)
(* accepts the credential kept for it, password changes included.          *)
THEOREM ActivityIsUsable ==
  ASSUME "read" \notin Faults, "delete" \notin Kinds
  PROVE  Spec => []ActiveMeansUsable
<1>1. Init => Usability
  BY ThreadFacts DEF Init, Usability, CheckStands, Threads
<1>2. TypeOK /\ Custody /\ Usability /\ [Next]_vars => Usability'
  <2> SUFFICES ASSUME TypeOK, Custody, Usability, [Next]_vars PROVE Usability'
    OBVIOUS
  <2> USE ThreadFacts
      DEF TypeOK, Custody, Usability, CheckStands, Holding, Working, Open,
          Actions, control, opVars, local
  <2>1. ASSUME NEW r \in Requests, NEW a \in Actions, Arrive(r, a)
        PROVE Usability'
    BY <2>1 DEF Arrive, Goto
  <2>2. ASSUME NEW r \in Requests, Acquire(r) PROVE Usability'
    BY <2>2 DEF Acquire, Goto
  <2>3. ASSUME NEW r \in Requests, Check(r) PROVE Usability'
    BY <2>3 DEF Check, Goto
  <2>4. ASSUME NEW r \in Requests, Recover(r) PROVE Usability'
    BY <2>4 DEF Recover, Goto
  <2>5. ASSUME NEW r \in Requests, StartOp(r) PROVE Usability'
    BY <2>5 DEF StartOp, Goto
  <2>6. ASSUME NEW r \in Requests, Reject(r) PROVE Usability'
    BY <2>6 DEF Reject, Answer, Release, Goto
  <2>7. ASSUME NEW t \in Threads, Reset(t) PROVE Usability'
    BY <2>7, ResetControl, ResetEffect
  <2>8. ASSUME NEW t \in Threads, Mark(t) PROVE Usability'
    BY <2>8 DEF Mark, OnMarkError, WriteState, Fault, Decide, Goto
  <2>9. ASSUME NEW r \in Requests, Undo(r) PROVE Usability'
    BY <2>9 DEF Undo, Compensated, ResetPassword, SetPassword, Decide, Goto
  <2>10. ASSUME NEW t \in Threads, Finish(t) PROVE Usability'
    BY <2>10 DEF Finish, Answer, Release, Decide, Goto
  <2>11. CASE ClaimStale
    BY <2>11 DEF ClaimStale, Claimable, Goto
  <2>12. CASE WorkerLock
    BY <2>12 DEF WorkerLock, Goto
  <2>13. ASSUME NEW r \in Requests, BeginChange(r) PROVE Usability'
    BY <2>13 DEF BeginChange, Goto
  <2>14. ASSUME NEW r \in Requests, Change(r) PROVE Usability'
    BY <2>14 DEF Change, ResetPassword, SetPassword, Answer, Goto
  <2>15. ASSUME NEW r \in Requests, Create(r) PROVE Usability'
    BY <2>15 DEF Create, Answer, Goto
  <2>16. ASSUME NEW r \in Requests, Delete(r) \/ Purge(r) PROVE FALSE
    BY <2>16 DEF Delete, Purge
  <2>17. CASE Crash
    BY <2>17 DEF Crash
  <2>18. CASE Finished \/ Hung \/ UNCHANGED vars
    BY <2>18 DEF Finished, Hung, vars
  <2>19. QED
    BY <2>1, <2>2, <2>3, <2>4, <2>5, <2>6, <2>7, <2>8, <2>9, <2>10, <2>11,
       <2>12, <2>13, <2>14, <2>15, <2>16, <2>17, <2>18
       DEF Next, Handler, WorkerStep
<1>3. Usability => ActiveMeansUsable
  BY DEF Usability, ActiveMeansUsable, Settled
<1>4. QED
  BY <1>1, <1>2, <1>3, TypeCorrect, CustodyHolds, PTL DEF Spec
=============================================================================
