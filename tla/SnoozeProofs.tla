---------------------------- MODULE SnoozeProofs ----------------------------
(***************************************************************************)
(* What holds of snoozed messages for every number of messages, requests,  *)
(* folders and crashes: no message is destroyed by the moves of the code,  *)
(* whatever they overtake, as long as the server never answers NO to a     *)
(* CREATE, COPY or STORE and no folder a message may go to is removed.     *)
(*                                                                         *)
(* The argument: UIDs only grow.  A thread flags a copy \Deleted only      *)
(* after it made another one, which then has a greater UID; that copy may  *)
(* itself be flagged by a thread that copied it on, but never the copy     *)
(* with the greatest UID (Guarded).                                        *)
(*                                                                         *)
(* Then rows: who works on a row found it in the table, and a row gets     *)
(* there by the insert of its own snooze only (RowsBegin).  With commands  *)
(* that are not refused there is one copy of every message (Single), and   *)
(* while nothing fails the copy that lies in Snoozed has a row that nobody *)
(* is about to give up without having moved this very copy (Covered).      *)
(***************************************************************************)
EXTENDS Snooze, FiniteSetTheorems, TLAPS

(* The worker and the requests are distinct threads. *)
LEMMA ProcsFacts == /\ Worker \in Procs
                    /\ Requests \subseteq Procs
                    /\ \A r \in Requests : r # Worker
  BY SnoozeAssumption DEF Procs

(* Control after a move, and after an exception. *)
LEMMA Continues ==
  ASSUME TypeOK, NEW p \in Procs, AfterMove(p) \/ Raise(p)
  PROVE  \E l \in {"insert", "cancelled", "woken", "failed", "done"} :
           pc' = [pc EXCEPT ![p] = l]
<1>1. CASE Raise(p)
  BY <1>1 DEF Raise, Goto
<1>2. CASE AfterMove(p)
  <2>1. job[p] \in Jobs
    BY DEF TypeOK
  <2>2. QED
    BY <1>2, <2>1 DEF AfterMove, Goto, Jobs
<1>3. QED
  BY <1>1, <1>2

(* A claim leaves the worker where it is, or gives it a row to look for.   *)
LEMMA ClaimTakes ==
  ASSUME TypeOK, Claim
  PROVE  \/ UNCHANGED <<pc, row, src, dst>>
         \/ \E r \in Requests :
              /\ pc' = [pc EXCEPT ![Worker] = "find"]
              /\ row' = [row EXCEPT ![Worker] = r]
              /\ src' = [src EXCEPT ![Worker] = Snoozed]
              /\ dst' = [dst EXCEPT ![Worker] = home[r]]
<1>1. batch \subseteq Requests
  BY DEF TypeOK
<1>2. QED
  BY <1>1, Zenon DEF Claim, Goto

(* Copies stay well formed under the commands of a move. *)
LEMMA CopiesTyped ==
  ASSUME TypeOK, NEW p \in Procs
  PROVE  /\ At(p) \subseteq Copy /\ Arrivals(p) \subseteq Copy
         /\ Flagged(p) \subseteq Copy /\ Expunged(p) \subseteq Copy
<1>1. At(p) \subseteq Copy
  BY DEF TypeOK, At
<1>2. \A c \in Copy : /\ [c EXCEPT !.uid = nextUid, !.folder = dst[p]] \in Copy
                      /\ [c EXCEPT !.deleted = TRUE] \in Copy
  <2>1. nextUid \in Nat /\ dst[p] \in Folders
    BY DEF TypeOK
  <2>2. QED
    BY <2>1 DEF Copy
<1>3. Arrivals(p) \subseteq Copy /\ Flagged(p) \subseteq Copy
  BY <1>1, <1>2 DEF Arrivals, Flagged
<1>4. QED
  BY <1>1, <1>3 DEF Expunged, TypeOK

(* Every variable keeps its type under every step of the threads, the      *)
(* users and the environment.                                              *)
THEOREM TypeCorrect == Spec => []TypeOK
<1>1. Init => TypeOK
  <2> SUFFICES ASSUME Init PROVE TypeOK
    OBVIOUS
  <2>1. Cardinality(Messages) \in Nat
    BY SnoozeAssumption, FS_CardinalityType
  <2>2. 0 .. Cardinality(Messages) - 1 \subseteq Nat
    BY <2>1
  <2>3. box \subseteq Copy
    BY <2>2 DEF Init, Copy
  <2>4. QED
    BY <2>1, <2>3, SnoozeAssumption
       DEF Init, TypeOK, Statuses, Labels, Jobs
<1>2. TypeOK /\ [Next]_vars => TypeOK'
  <2> SUFFICES ASSUME TypeOK, [Next]_vars PROVE TypeOK'
    OBVIOUS
  <2> USE ProcsFacts, SnoozeAssumption
      DEF mailVars, rowVars, procVars, envVars
  <2>0. \A c \in box : c.uid \in Nat /\ c.msg \in Messages /\ c.folder \in Folders
    BY DEF TypeOK, Copy
  <2>1. ASSUME NEW r \in Requests, NEW c \in box, StartSnooze(r, c) PROVE TypeOK'
    BY <2>0, <2>1 DEF StartSnooze, Goto, TypeOK, Labels, Jobs
  <2>2. ASSUME NEW r \in Requests, NEW c \in box, NEW f \in Folders,
               StartMove(r, c, f)
        PROVE TypeOK'
    BY <2>0, <2>2 DEF StartMove, Goto, TypeOK, Labels, Jobs
  <2>3. ASSUME NEW r \in Requests, NEW q \in Requests, StartCancel(r, q)
        PROVE TypeOK'
    BY <2>3 DEF StartCancel, Goto, TypeOK, Labels, Jobs
  <2>4. ASSUME NEW r \in Requests, Select(r) PROVE TypeOK'
    BY <2>4 DEF Select, Drop, Raise, Goto, TypeOK, Labels
  <2>5. ASSUME NEW p \in Procs, Find(p) PROVE TypeOK'
    <3>1. \A c \in Matches(p) : c.uid \in Nat
      BY <2>0 DEF Matches
    <3>2. target' \in [Procs -> Nat] /\ pc' \in [Procs -> Labels]
      BY <2>5, <3>1 DEF Find, Drop, Raise, Goto, TypeOK, Labels
    <3>3. QED
      BY <2>5, <3>2 DEF Find, TypeOK
  <2>6. ASSUME NEW p \in Procs, MoveUids(p) PROVE TypeOK'
    <3>1. box' \subseteq Copy
      <4>1. box \subseteq Copy
        BY DEF TypeOK
      <4>2. QED
        BY <2>6, <4>1, CopiesTyped
           DEF MoveUids, Move, CopyCommand, Store, Expunge, AfterMoveCommand,
               AfterCopyCommand
    <3>2. pc' \in [Procs -> Labels]
      BY <2>6, Continues
         DEF MoveUids, Move, CopyCommand, Store, Expunge, Drop, Goto, TypeOK, Labels
    <3>3. nextUid' \in Nat
      BY <2>6 DEF MoveUids, Move, CopyCommand, Store, Expunge, TypeOK
    <3>4. UNCHANGED <<exists, rowVars, job, row, target, src, dst, batch, envVars>>
      BY <2>6 DEF MoveUids, Move, CopyCommand, Store, Expunge
    <3>5. QED
      BY <3>1, <3>2, <3>3, <3>4 DEF TypeOK
  <2>7. ASSUME NEW r \in Requests, Insert(r) \/ MarkCancelled(r) PROVE TypeOK'
    BY <2>7 DEF Insert, MarkCancelled, Goto, TypeOK, Labels, Statuses
  <2>8. CASE SelectDue
    BY <2>8 DEF SelectDue, DueRows, TypeOK
  <2>9. CASE Claim
    <3>1. status' \in [Requests -> Statuses] /\ batch' \subseteq Requests
      BY <2>9 DEF Claim, TypeOK, Statuses
    <3>2. /\ pc' \in [Procs -> Labels] /\ row' \in [Procs -> Requests]
          /\ src' \in [Procs -> Folders] /\ dst' \in [Procs -> Folders]
      <4>1. CASE UNCHANGED <<pc, row, src, dst>>
        BY <4>1 DEF TypeOK
      <4>2. ASSUME NEW r \in Requests,
                   pc' = [pc EXCEPT ![Worker] = "find"],
                   row' = [row EXCEPT ![Worker] = r],
                   src' = [src EXCEPT ![Worker] = Snoozed],
                   dst' = [dst EXCEPT ![Worker] = home[r]]
            PROVE  /\ pc' \in [Procs -> Labels] /\ row' \in [Procs -> Requests]
                   /\ src' \in [Procs -> Folders] /\ dst' \in [Procs -> Folders]
        BY <4>2 DEF TypeOK, Labels
      <4>3. QED
        BY <2>9, <4>1, <4>2, ClaimTakes
    <3>3. UNCHANGED <<mailVars, cred, mid, home, wakeAt, job, target, envVars>>
      BY <2>9 DEF Claim
    <3>4. QED
      BY <3>1, <3>2, <3>3 DEF TypeOK
  <2>10. CASE MarkWoken \/ MarkFailed
    BY <2>10 DEF MarkWoken, MarkFailed, Goto, TypeOK, Labels, Statuses
  <2>11. ASSUME NEW f \in Folders, RemoveFolder(f) PROVE TypeOK'
    BY <2>11 DEF RemoveFolder, TypeOK
  <2>12. CASE Tick
    BY <2>12 DEF Tick, TypeOK
  <2>13. CASE Crash
    BY <2>13 DEF Crash, TypeOK, Labels
  <2>14. CASE Finished \/ UNCHANGED vars
    BY <2>14 DEF Finished, vars, TypeOK
  <2>15. QED
    BY <2>1, <2>2, <2>3, <2>4, <2>5, <2>6, <2>7, <2>8, <2>9, <2>10, <2>11,
       <2>12, <2>13, <2>14
       DEF Next, WorkerStep, RequestStep
<1>3. QED
  BY <1>1, <1>2, PTL DEF Spec

-----------------------------------------------------------------------------
(* No message is destroyed. *)

(* The folders a message may be sent to stay.                              *)
TargetsStay ==
  Removable \cap (SnoozeSources \cup MoveTargets \cup {Inbox, Snoozed}) = {}

Lasting == exists \ Removable

(* A thread that has a move in hand. *)
Moving == {"select", "move", "copy", "store", "expunge"}

(* Messages lie in folders that exist, and every move goes to one that     *)
(* exists and will not be removed.                                         *)
Reachable ==
  /\ Inbox \in exists
  /\ \A c \in box : c.folder \in exists
  /\ \A r \in Requests : home[r] \in Lasting
  /\ \A p \in Procs : pc[p] \in {"find", "move", "copy"} => dst[p] \in Lasting
  /\ \A p \in Procs : pc[p] = "select" =>
       dst[p] \in Lasting \/ (job[p] = "snooze" /\ dst[p] = Snoozed)

(* UIDs name copies, and every UID in hand has been given out before.      *)
UidsGrow ==
  /\ \A c, d \in box : c.uid = d.uid => c = d
  /\ \A c \in box : c.uid < nextUid
  /\ \A p \in Procs : pc[p] \in Moving => target[p] < nextUid

(* A later copy of the same message that nobody has flagged. *)
Guards(d, c) == d.msg = c.msg /\ ~d.deleted /\ d.uid > c.uid

(* The copy a thread is about to flag has such a guard.                    *)
Guarded ==
  \A p \in Procs : pc[p] = "store" =>
    \A c \in At(p) : c.deleted \/ \E d \in box : Guards(d, c)

(* Every thread moves a copy to a folder that exists.                      *)
LEMMA ReachableHolds ==
  ASSUME TargetsStay, "refuse" \notin Faults
  PROVE  Spec => []Reachable
<1>1. Init => Reachable
  <2> SUFFICES ASSUME Init PROVE Reachable
    OBVIOUS
  <2>1. /\ Inbox \in Lasting
        /\ \A c \in box : c.folder \in exists
    BY SnoozeAssumption DEF Init, Lasting
  <2>2. \A p \in Procs : pc[p] \in {"next", "idle"}
    BY DEF Init
  <2>3. \A r \in Requests : home[r] = Inbox
    BY DEF Init
  <2>4. QED
    BY <2>1, <2>2, <2>3 DEF Reachable, Lasting
<1>2. TypeOK /\ Reachable /\ [Next]_vars => Reachable'
  <2> SUFFICES ASSUME TypeOK, Reachable, [Next]_vars PROVE Reachable'
    OBVIOUS
  <2> USE ProcsFacts, SnoozeAssumption
      DEF mailVars, rowVars, procVars, envVars, Reachable, Lasting
  <2>1. ASSUME NEW r \in Requests, NEW c \in box, StartSnooze(r, c)
        PROVE Reachable'
    BY <2>1 DEF StartSnooze, Goto, TypeOK, TargetsStay
  <2>2. ASSUME NEW r \in Requests, NEW c \in box, NEW f \in Folders,
               StartMove(r, c, f)
        PROVE Reachable'
    BY <2>2 DEF StartMove, Goto, TypeOK, TargetsStay
  <2>3. ASSUME NEW r \in Requests, NEW q \in Requests, StartCancel(r, q)
        PROVE Reachable'
    BY <2>3 DEF StartCancel, Goto, TypeOK
  <2>4. ASSUME NEW r \in Requests, Select(r) PROVE Reachable'
    BY <2>4 DEF Select, Drop, Raise, Goto, TypeOK, TargetsStay
  <2>5. ASSUME NEW p \in Procs, Find(p) PROVE Reachable'
    BY <2>5 DEF Find, Drop, Raise, Goto, TypeOK
  <2>6. ASSUME NEW p \in Procs, MoveUids(p) PROVE Reachable'
    <3>1. \A c \in box' : c.folder \in exists
      <4>1. ASSUME NEW c \in At(p)
            PROVE  /\ [c EXCEPT !.uid = nextUid, !.folder = dst[p]].folder = dst[p]
                   /\ [c EXCEPT !.deleted = TRUE].folder = c.folder
        BY <4>1 DEF At, TypeOK, Copy
      <4>2. \A c \in Arrivals(p) : c.folder = dst[p]
        BY <4>1 DEF Arrivals
      <4>3. \A c \in Flagged(p) : c.folder \in exists
        BY <4>1 DEF Flagged, At, TypeOK, Copy
      <4>4. QED
        BY <2>6, <4>2, <4>3
           DEF MoveUids, Move, CopyCommand, Store, Expunge, AfterMoveCommand,
               AfterCopyCommand, Expunged
    <3>2. \A q \in Procs : /\ pc'[q] \in {"find", "move", "copy"} => dst[q] \in Lasting
                           /\ pc'[q] = "select" => pc[q] = "select"
      BY <2>6, Continues
         DEF MoveUids, Move, CopyCommand, Store, Expunge, Drop, Goto, TypeOK
    <3>3. UNCHANGED <<exists, home, job, dst>>
      BY <2>6 DEF MoveUids, Move, CopyCommand, Store, Expunge
    <3>4. QED
      BY <3>1, <3>2, <3>3, SMTT(30)
  <2>7. ASSUME NEW r \in Requests, Insert(r) \/ MarkCancelled(r)
        PROVE Reachable'
    BY <2>7 DEF Insert, MarkCancelled, Goto, TypeOK
  <2>8. CASE SelectDue
    BY <2>8 DEF SelectDue
  <2>9. CASE Claim
    <3>1. UNCHANGED <<box, exists, home, job>>
      BY <2>9 DEF Claim
    <3>2. \A p \in Procs : \/ pc'[p] = pc[p] /\ dst'[p] = dst[p]
                           \/ pc'[p] = "find" /\ \E r \in Requests : dst'[p] = home[r]
      <4>1. pc \in [Procs -> Labels] /\ dst \in [Procs -> Folders]
        BY DEF TypeOK
      <4>2. QED
        <5>1. CASE UNCHANGED <<pc, row, src, dst>>
          BY <5>1
        <5>2. ASSUME NEW r \in Requests,
                     pc' = [pc EXCEPT ![Worker] = "find"],
                     dst' = [dst EXCEPT ![Worker] = home[r]]
              PROVE  \A p \in Procs : \/ pc'[p] = pc[p] /\ dst'[p] = dst[p]
                                      \/ pc'[p] = "find" /\ dst'[p] = home[r]
          BY <4>1, <5>2
        <5>3. QED
          BY <2>9, <5>1, <5>2, ClaimTakes
    <3>3. QED
      BY <3>1, <3>2
  <2>10. CASE MarkWoken \/ MarkFailed
    BY <2>10 DEF MarkWoken, MarkFailed, Goto, TypeOK
  <2>11. ASSUME NEW f \in Folders, RemoveFolder(f) PROVE Reachable'
    BY <2>11 DEF RemoveFolder
  <2>12. CASE Tick
    BY <2>12 DEF Tick
  <2>13. CASE Crash
    BY <2>13 DEF Crash
  <2>14. CASE Finished \/ UNCHANGED vars
    BY <2>14 DEF Finished, vars
  <2>15. QED
    BY <2>1, <2>2, <2>3, <2>4, <2>5, <2>6, <2>7, <2>8, <2>9, <2>10, <2>11,
       <2>12, <2>13, <2>14
       DEF Next, WorkerStep, RequestStep
<1>3. QED
  BY <1>1, <1>2, TypeCorrect, PTL DEF Spec

(* What a command of a move does to the copies, in terms of one copy.      *)
LEMMA Effects ==
  ASSUME TypeOK, NEW p \in Procs
  PROVE  /\ \A c \in Arrivals(p) :
              /\ c.uid = nextUid
              /\ \E d \in At(p) : c.msg = d.msg /\ c.deleted = d.deleted
         /\ \A d \in At(p) : \E c \in Arrivals(p) :
              c.uid = nextUid /\ c.msg = d.msg /\ c.deleted = d.deleted
         /\ \A c \in Flagged(p) : c.deleted /\ c.uid = target[p]
<1>1. ASSUME NEW c \in At(p)
      PROVE  LET a == [c EXCEPT !.uid = nextUid, !.folder = dst[p]]
                 f == [c EXCEPT !.deleted = TRUE]
             IN  /\ a.uid = nextUid /\ a.msg = c.msg /\ a.deleted = c.deleted
                 /\ f.deleted /\ f.uid = target[p]
  BY <1>1 DEF At, TypeOK, Copy
<1>2. ASSUME NEW c \in Arrivals(p)
      PROVE  c.uid = nextUid /\ \E d \in At(p) : c.msg = d.msg /\ c.deleted = d.deleted
  <2>1. PICK d \in At(p) : c = [d EXCEPT !.uid = nextUid, !.folder = dst[p]]
    BY <1>2 DEF Arrivals
  <2>2. QED
    BY <1>1, <2>1
<1>3. ASSUME NEW d \in At(p)
      PROVE  \E c \in Arrivals(p) :
                c.uid = nextUid /\ c.msg = d.msg /\ c.deleted = d.deleted
  <2>1. [d EXCEPT !.uid = nextUid, !.folder = dst[p]] \in Arrivals(p)
    BY DEF Arrivals
  <2>2. QED
    BY <1>1, <2>1
<1>4. ASSUME NEW c \in Flagged(p) PROVE c.deleted /\ c.uid = target[p]
  <2>1. PICK d \in At(p) : c = [d EXCEPT !.deleted = TRUE]
    BY <1>4 DEF Flagged
  <2>2. QED
    BY <1>1, <2>1
<1>5. QED
  BY <1>2, <1>3, <1>4

(* The three commands that change the mailbox, and who may be flagging.    *)
LEMMA MoveSteps ==
  ASSUME TypeOK, NEW p \in Procs, MoveUids(p), "refuse" \notin Faults, Reachable
  PROVE  /\ \A q \in Procs : /\ pc'[q] \in Moving => pc[q] \in Moving
                             /\ pc'[q] = "store" /\ q # p => pc[q] = "store"
         /\ \/ box' = AfterMoveCommand(p) /\ nextUid' = nextUid + 1 /\ pc'[p] # "store"
            \/ box' = AfterCopyCommand(p) /\ nextUid' = nextUid + 1
            \/ /\ pc[p] = "store" /\ pc'[p] # "store"
               /\ box' = (box \ At(p)) \cup Flagged(p) /\ nextUid' = nextUid
            \/ box' = Expunged(p) /\ nextUid' = nextUid /\ pc'[p] # "store"
            \/ box' = box /\ nextUid' = nextUid /\ pc'[p] # "store"
<1>1. pc \in [Procs -> Labels]
  BY DEF TypeOK
<1>2. /\ \A q \in Procs : q # p => pc'[q] = pc[q]
      /\ pc'[p] \in Moving => pc[p] \in Moving
  BY <1>1, Continues
     DEF MoveUids, Move, CopyCommand, Store, Expunge, Drop, Goto, Moving
<1>3. CASE Move(p)
  BY <1>1, <1>2, <1>3, Continues DEF Move, Drop, Goto
<1>4. CASE CopyCommand(p)
  <2>1. dst[p] \in exists
    BY <1>4 DEF CopyCommand, Reachable, Lasting
  <2>2. CASE /\ box' = AfterCopyCommand(p) /\ nextUid' = nextUid + 1
    BY <1>2, <2>2
  <2>3. CASE UNCHANGED <<box, nextUid>> /\ Drop(p)
    BY <1>1, <1>2, <2>3, Continues DEF Drop
  <2>4. QED
    BY <1>4, <2>1, <2>2, <2>3 DEF CopyCommand
<1>5. CASE Store(p)
  <2>1. pc[p] = "store" /\ nextUid' = nextUid
    BY <1>5 DEF Store
  <2>2. pc'[p] # "store"
    BY <1>1, <1>5, Continues DEF Store, Drop, Goto
  <2>3. QED
    BY <1>2, <1>5, <2>1, <2>2 DEF Store
<1>6. CASE Expunge(p)
  BY <1>1, <1>2, <1>6, Continues DEF Expunge
<1>7. QED
  BY <1>3, <1>4, <1>5, <1>6 DEF MoveUids

(* No copy has a UID the mailbox has not yet handed out, and no two copies *)
(* share one.                                                              *)
LEMMA UidsHold ==
  ASSUME TargetsStay, "refuse" \notin Faults
  PROVE  Spec => []UidsGrow
<1>1. Init => UidsGrow
  <2> SUFFICES ASSUME Init PROVE UidsGrow
    OBVIOUS
  <2>1. Cardinality(Messages) \in Nat
    BY SnoozeAssumption, FS_CardinalityType
  <2>2. \A c \in box : c.uid \in 0 .. Cardinality(Messages) - 1
    BY DEF Init
  <2>3. \A c, d \in box : c.uid = d.uid => c = d
    BY DEF Init
  <2>4. \A p \in Procs : pc[p] \in {"next", "idle"}
    BY DEF Init
  <2>5. nextUid = Cardinality(Messages)
    BY DEF Init
  <2>6. QED
    BY <2>1, <2>2, <2>3, <2>4, <2>5 DEF UidsGrow, Moving
<1>2. TypeOK /\ Reachable /\ UidsGrow /\ [Next]_vars => UidsGrow'
  <2> SUFFICES ASSUME TypeOK, Reachable, UidsGrow, [Next]_vars PROVE UidsGrow'
    OBVIOUS
  <2> USE ProcsFacts, SnoozeAssumption
      DEF mailVars, rowVars, procVars, envVars, UidsGrow, Moving
  <2>1. ASSUME NEW r \in Requests, NEW c \in box, StartSnooze(r, c)
        PROVE UidsGrow'
    BY <2>1 DEF StartSnooze, Goto, TypeOK
  <2>2. ASSUME NEW r \in Requests, NEW c \in box, NEW f \in Folders,
               StartMove(r, c, f)
        PROVE UidsGrow'
    BY <2>2 DEF StartMove, Goto, TypeOK
  <2>3. ASSUME NEW r \in Requests, NEW q \in Requests, StartCancel(r, q)
        PROVE UidsGrow'
    BY <2>3 DEF StartCancel, Goto, TypeOK
  <2>4. ASSUME NEW r \in Requests, Select(r) PROVE UidsGrow'
    BY <2>4 DEF Select, Drop, Raise, Goto, TypeOK
  <2>5. ASSUME NEW p \in Procs, Find(p) PROVE UidsGrow'
    <3>1. \A c \in Matches(p) : c.uid < nextUid
      BY DEF Matches
    <3>2. \A q \in Procs : pc'[q] \in Moving => target'[q] < nextUid
      BY <2>5, <3>1 DEF Find, Drop, Raise, Goto, TypeOK
    <3>3. QED
      BY <2>5, <3>2 DEF Find
  <2>6. ASSUME NEW p \in Procs, MoveUids(p) PROVE UidsGrow'
    <3>1. nextUid \in Nat /\ target \in [Procs -> Nat] /\ target' = target
      BY <2>6 DEF MoveUids, Move, CopyCommand, Store, Expunge, TypeOK
    <3>2. \A c \in box : c.uid \in Nat
      BY DEF TypeOK, Copy
    <3>3. \A c, d \in At(p) : c = d
      BY DEF At
    <3>4. /\ \A c, d \in Arrivals(p) : c = d
          /\ \A c, d \in Flagged(p) : c = d
      BY <3>3 DEF Arrivals, Flagged
    <3>5. /\ \A c \in Arrivals(p) : c.uid = nextUid
          /\ \A c \in Flagged(p) : c.uid = target[p]
          /\ \A c \in box \ At(p) : c.uid # target[p]
      BY Effects DEF At
    <3>6. target[p] < nextUid
      BY <2>6 DEF MoveUids, Move, CopyCommand, Store, Expunge
    <3>7. /\ \A c, d \in box' : c.uid = d.uid => c = d
          /\ \A c \in box' : c.uid < nextUid'
          /\ nextUid <= nextUid' /\ nextUid' \in Nat
      BY <2>6, <3>1, <3>2, <3>4, <3>5, <3>6, MoveSteps
         DEF AfterMoveCommand, AfterCopyCommand, Expunged
    <3>8. \A q \in Procs : pc'[q] \in Moving => target[q] < nextUid
      BY <2>6, MoveSteps
    <3>9. QED
      BY <3>1, <3>7, <3>8
  <2>7. ASSUME NEW r \in Requests, Insert(r) \/ MarkCancelled(r)
        PROVE UidsGrow'
    BY <2>7 DEF Insert, MarkCancelled, Goto, TypeOK
  <2>8. CASE SelectDue
    BY <2>8 DEF SelectDue
  <2>9. CASE Claim
    <3>1. UNCHANGED <<box, nextUid, target>>
      BY <2>9 DEF Claim
    <3>2. \A p \in Procs : pc'[p] = pc[p] \/ pc'[p] = "find"
      BY <2>9, ClaimTakes DEF TypeOK
    <3>3. QED
      BY <3>1, <3>2
  <2>10. CASE MarkWoken \/ MarkFailed
    BY <2>10 DEF MarkWoken, MarkFailed, Goto, TypeOK
  <2>11. ASSUME NEW f \in Folders, RemoveFolder(f) PROVE UidsGrow'
    BY <2>11 DEF RemoveFolder
  <2>12. CASE Tick
    BY <2>12 DEF Tick
  <2>13. CASE Crash
    BY <2>13 DEF Crash
  <2>14. CASE Finished \/ UNCHANGED vars
    BY <2>14 DEF Finished, vars
  <2>15. QED
    BY <2>1, <2>2, <2>3, <2>4, <2>5, <2>6, <2>7, <2>8, <2>9, <2>10, <2>11,
       <2>12, <2>13, <2>14
       DEF Next, WorkerStep, RequestStep
<1>3. QED
  BY <1>1, <1>2, TypeCorrect, ReachableHolds, PTL DEF Spec

(* _move_uids never destroys the last copy of a message: not when threads  *)
(* overtake each other between COPY, STORE and EXPUNGE, not when a         *)
(* connection breaks or the server is killed in between.                   *)
THEOREM MessagesAreKept ==
  ASSUME TargetsStay, "refuse" \notin Faults
  PROVE  Spec => []NoMessageLost
<1> DEFINE Inv == NoMessageLost /\ Guarded
<1>1. Init => Inv
  <2> SUFFICES ASSUME Init PROVE Inv
    OBVIOUS
  <2>1. \A c \in box : ~c.deleted
    BY DEF Init
  <2>2. \A m \in Messages : \E c \in box : c.msg = m
    BY DEF Init
  <2>3. \A p \in Procs : pc[p] \in {"next", "idle"}
    BY DEF Init
  <2>4. QED
    BY <2>1, <2>2, <2>3 DEF NoMessageLost, Live, Guarded
<1>2. TypeOK /\ Reachable /\ UidsGrow /\ Inv /\ [Next]_vars => Inv'
  <2> SUFFICES ASSUME TypeOK, Reachable, UidsGrow, Inv, [Next]_vars PROVE Inv'
    OBVIOUS
  <2> USE ProcsFacts DEF mailVars, rowVars, procVars, envVars
  <2>1. ASSUME NEW p \in Procs, MoveUids(p) PROVE Inv'
    <3>1. UNCHANGED target
      BY <2>1 DEF MoveUids, Move, CopyCommand, Store, Expunge
    <3>2. /\ nextUid \in Nat
          /\ \A c \in box : c.uid \in Nat /\ c.uid < nextUid
          /\ \A q \in Procs : target[q] \in Nat
      BY DEF TypeOK, Copy, UidsGrow
    <3>3. \A q \in Procs : pc'[q] = "store" => target[q] < nextUid
      BY <2>1, MoveSteps DEF UidsGrow, Moving
    (* A live copy survives, or a later live copy of its message does. *)
    <3>4. ASSUME NEW c \in box, ~c.deleted
          PROVE  \E d \in box' : d = c \/ Guards(d, c)
      <4>1. \A d \in At(p) : d.uid = target[p]
        BY DEF At
      <4>2. CASE box' = AfterMoveCommand(p)
        BY <3>2, <3>4, <4>2, Effects DEF AfterMoveCommand, Guards
      <4>3. CASE box' = AfterCopyCommand(p)
        BY <4>3 DEF AfterCopyCommand
      <4>4. CASE pc[p] = "store" /\ box' = (box \ At(p)) \cup Flagged(p)
        <5>1. CASE c \in At(p)
          <6>1. PICK d \in box : Guards(d, c)
            BY <3>4, <4>4, <5>1 DEF Guarded
          <6>2. d \notin At(p)
            BY <3>2, <4>1, <5>1, <6>1 DEF Guards
          <6>3. QED
            BY <4>4, <6>1, <6>2
        <5>2. CASE c \notin At(p)
          BY <4>4, <5>2
        <5>3. QED
          BY <5>1, <5>2
      <4>5. CASE box' = Expunged(p) \/ box' = box
        BY <3>4, <4>5 DEF Expunged
      <4>6. QED
        BY <2>1, <4>2, <4>3, <4>4, <4>5, MoveSteps
    <3>5. NoMessageLost'
      BY <3>4 DEF NoMessageLost, Live, Guards
    (* Whoever is about to flag a live copy: the copy was there before.    *)
    <3>6. ASSUME NEW q \in Procs, pc'[q] = "store",
                 NEW c \in box', c.uid = target[q], ~c.deleted
          PROVE  c \in box
      BY <3>2, <3>3, <3>6, <2>1, MoveSteps, Effects
         DEF AfterMoveCommand, AfterCopyCommand, Expunged
    <3>7. ASSUME NEW q \in Procs, pc'[q] = "store",
                 NEW c \in box', c.uid = target[q], ~c.deleted
          PROVE  \E d \in box' : Guards(d, c)
      <4>1. c \in box
        BY <3>6, <3>7
      <4>2. CASE pc[q] = "store"
        <5>1. PICK d \in box : Guards(d, c)
          BY <3>7, <4>1, <4>2 DEF Guarded, At
        <5>2. PICK e \in box' : e = d \/ Guards(e, d)
          BY <3>4, <5>1 DEF Guards
        <5>3. c.uid \in Nat /\ d.uid \in Nat
          BY <3>2, <4>1
        <5>4. e.uid \in Nat
          BY <2>1, <3>2, <5>2, Effects, MoveSteps
             DEF AfterMoveCommand, AfterCopyCommand, Expunged, At
        <5>5. QED
          BY <5>1, <5>2, <5>3, <5>4 DEF Guards
      <4>3. CASE pc[q] # "store"
        <5>1. q = p /\ box' = AfterCopyCommand(p)
          BY <2>1, <3>7, <4>3, MoveSteps
        <5>2. c \in At(p)
          BY <3>7, <4>1, <5>1 DEF At
        <5>3. QED
          BY <3>2, <3>7, <4>1, <5>1, <5>2, Effects DEF AfterCopyCommand, Guards
      <4>4. QED
        BY <4>2, <4>3
    <3>8. Guarded'
      BY <3>1, <3>7 DEF Guarded, At
    <3>9. QED
      BY <3>5, <3>8
  <2>2. ASSUME UNCHANGED box,
               \A p \in Procs : pc'[p] = "store" => pc[p] = "store" /\ target'[p] = target[p]
        PROVE  Inv'
    BY <2>2 DEF NoMessageLost, Live, Guarded, At
  <2>3. ASSUME NEW r \in Requests, NEW c \in box,
               StartSnooze(r, c) \/ \E f \in Folders : StartMove(r, c, f)
        PROVE  Inv'
    BY <2>2, <2>3 DEF StartSnooze, StartMove, Goto, TypeOK
  <2>4. ASSUME NEW r \in Requests, NEW q \in Requests, StartCancel(r, q) PROVE Inv'
    BY <2>2, <2>4 DEF StartCancel, Goto, TypeOK
  <2>5. ASSUME NEW r \in Requests, Select(r) \/ Insert(r) \/ MarkCancelled(r)
        PROVE  Inv'
    BY <2>2, <2>5 DEF Select, Insert, MarkCancelled, Drop, Raise, Goto, TypeOK
  <2>6. ASSUME NEW p \in Procs, Find(p) PROVE Inv'
    BY <2>2, <2>6 DEF Find, Drop, Raise, Goto, TypeOK
  <2>7. CASE Claim
    <3>1. UNCHANGED <<box, target>>
      BY <2>7 DEF Claim
    <3>2. \A p \in Procs : pc'[p] = pc[p] \/ pc'[p] = "find"
      BY <2>7, ClaimTakes DEF TypeOK
    <3>3. QED
      BY <2>2, <3>1, <3>2
  <2>8. CASE MarkWoken \/ MarkFailed
    BY <2>2, <2>8 DEF MarkWoken, MarkFailed, Goto, TypeOK
  <2>9. CASE SelectDue \/ Tick \/ Finished \/ UNCHANGED vars
    BY <2>2, <2>9 DEF SelectDue, Tick, Finished, vars
  <2>10. ASSUME NEW f \in Folders, RemoveFolder(f) PROVE Inv'
    BY <2>2, <2>10 DEF RemoveFolder
  <2>11. CASE Crash
    BY <2>2, <2>11 DEF Crash
  <2>12. QED
    <3> HIDE DEF Inv
    <3> QED
      BY <2>1, <2>3, <2>4, <2>5, <2>6, <2>7, <2>8, <2>9, <2>10, <2>11
         DEF Next, WorkerStep, RequestStep
<1>3. QED
  BY <1>1, <1>2, TypeCorrect, ReachableHolds, UidsHold, PTL DEF Spec

-----------------------------------------------------------------------------
(* Rows of snoozed messages.                                               *)

(* At work on a row: a cancellation, or the worker.                        *)
WorksOn(p, r) ==
  job[p] \in {"cancel", "wake"} /\ row[p] = r /\ pc[p] \notin {"idle", "next", "done"}

(* The row of a snooze is not there before its insert; who works on a row  *)
(* found it there.                                                         *)
RowsBegin ==
  /\ job[Worker] = "wake"
  /\ \A r \in Requests :
       /\ pc[r] = "idle" \/ (job[r] = "snooze" /\ pc[r] # "done") => status[r] = "none"
       /\ pc[r] = "insert" => job[r] = "snooze"
       /\ pc[r] = "cancelled" => job[r] = "cancel"
       /\ pc[r] = "select" => job[r] \in {"snooze", "move"}
  /\ \A p \in Procs : pc[p] = "find" => job[p] \in {"cancel", "wake"}
  /\ \A p \in Procs, r \in Requests : WorksOn(p, r) => status[r] # "none"

(* A command of a move changes the mailbox, and where its thread is.       *)
LEMMA MoveFrame ==
  ASSUME TypeOK, NEW p \in Procs, MoveUids(p)
  PROVE  /\ UNCHANGED <<exists, rowVars, job, row, target, src, dst, batch, envVars>>
         /\ \A q \in Procs \ {p} : pc'[q] = pc[q]
         /\ pc[p] \in {"move", "copy", "store", "expunge"}
         /\ pc'[p] \in {"copy", "store", "expunge", "insert", "cancelled", "woken",
                        "failed", "done"}
         /\ pc'[p] = "insert" => job[p] = "snooze"
         /\ pc'[p] = "cancelled" => job[p] = "cancel"
<1>1. UNCHANGED <<exists, rowVars, job, row, target, src, dst, batch, envVars>>
  BY DEF MoveUids, Move, CopyCommand, Store, Expunge
<1>2. \A q \in Procs \ {p} : pc'[q] = pc[q]
  BY Continues DEF MoveUids, Move, CopyCommand, Store, Expunge, Drop, Goto, TypeOK
<1>3. pc[p] \in {"move", "copy", "store", "expunge"}
  BY DEF MoveUids, Move, CopyCommand, Store, Expunge
<1>4. AfterMove(p) \/ Drop(p) \/ Goto(p, "copy") \/ Goto(p, "store") \/ Goto(p, "expunge")
  BY DEF MoveUids, Move, CopyCommand, Store, Expunge
<1>5. CASE AfterMove(p)
  <2>1. job[p] \in Jobs
    BY DEF TypeOK
  <2> QED
    BY <1>1, <1>2, <1>3, <1>5, <2>1 DEF AfterMove, Goto, Jobs, TypeOK
<1> QED
  BY <1>1, <1>2, <1>3, <1>4, <1>5 DEF Drop, Raise, Goto, TypeOK

(* The worker's claim, row by row: a pending row is taken, or none is.     *)
LEMMA ClaimRow ==
  ASSUME TypeOK, Claim
  PROVE  \/ UNCHANGED <<status, pc, row, src, dst>>
         \/ \E r \in Requests :
              /\ status[r] = "pending" /\ status' = [status EXCEPT ![r] = "waking"]
              /\ pc' = [pc EXCEPT ![Worker] = "find"]
              /\ row' = [row EXCEPT ![Worker] = r]
              /\ src' = [src EXCEPT ![Worker] = Snoozed]
              /\ dst' = [dst EXCEPT ![Worker] = home[r]]
<1>1. batch \subseteq Requests
  BY DEF TypeOK
<1> QED
  BY <1>1, Zenon DEF Claim, Claimable, Goto

(* Every step of the threads keeps the beginning of the rows in order.     *)
LEMMA RowsInductive ==
  ASSUME TypeOK, TypeOK', RowsBegin, [Next]_vars
  PROVE  RowsBegin'
<1> USE ProcsFacts DEF RowsBegin, WorksOn, mailVars, rowVars, procVars, envVars
<1>1. ASSUME NEW r \in Requests, NEW c \in box, StartSnooze(r, c) PROVE RowsBegin'
  BY <1>1 DEF StartSnooze, Goto, TypeOK
<1>2. ASSUME NEW r \in Requests, NEW c \in box, NEW f \in Folders, StartMove(r, c, f)
      PROVE  RowsBegin'
  BY <1>2 DEF StartMove, Goto, TypeOK
<1>3. ASSUME NEW r \in Requests, NEW q \in Requests, StartCancel(r, q)
      PROVE  RowsBegin'
  BY <1>3 DEF StartCancel, Goto, TypeOK
<1>4. ASSUME NEW r \in Requests, Select(r) PROVE RowsBegin'
  BY <1>4 DEF Select, Drop, Raise, Goto, TypeOK
<1>5. ASSUME NEW p \in Procs, Find(p) PROVE RowsBegin'
  <2>1. /\ UNCHANGED <<status, job, row>> /\ pc[p] = "find"
        /\ \A q \in Procs \ {p} : pc'[q] = pc[q]
        /\ pc'[p] \in {"move", "done", "failed"}
    BY <1>5 DEF Find, Drop, Raise, Goto, TypeOK
  <2> QED
    BY <2>1
<1>6. ASSUME NEW p \in Procs, MoveUids(p) PROVE RowsBegin'
  <2>1. UNCHANGED <<status, job, row>>
    BY <1>6, MoveFrame
  <2>2. /\ \A q \in Procs \ {p} : pc'[q] = pc[q]
        /\ pc[p] \notin {"idle", "next", "done"} /\ pc'[p] \notin {"idle", "next", "select", "find"}
        /\ pc'[p] = "insert" => job[p] = "snooze"
        /\ pc'[p] = "cancelled" => job[p] = "cancel"
    BY <1>6, MoveFrame
  <2> QED
    BY <2>1, <2>2
<1>7. ASSUME NEW r \in Requests, Insert(r) PROVE RowsBegin'
  BY <1>7 DEF Insert, Goto, TypeOK
<1>8. ASSUME NEW r \in Requests, MarkCancelled(r) PROVE RowsBegin'
  <2>1. row[r] \in Requests /\ status[row[r]] # "none"
    BY <1>8 DEF MarkCancelled, TypeOK
  <2> QED
    BY <1>8, <2>1 DEF MarkCancelled, Goto, TypeOK
<1>9. CASE Claim
  <2>1. CASE UNCHANGED <<status, pc, row, src, dst>>
    BY <1>9, <2>1 DEF Claim
  <2>2. ASSUME NEW r \in Requests, status[r] = "pending",
               status' = [status EXCEPT ![r] = "waking"],
               pc' = [pc EXCEPT ![Worker] = "find"],
               row' = [row EXCEPT ![Worker] = r]
        PROVE  RowsBegin'
    <3>1. job' = job
      BY <1>9 DEF Claim
    <3> QED
      BY <2>2, <3>1 DEF TypeOK
  <2> QED
    BY <1>9, <2>1, <2>2, ClaimRow
<1>10. CASE MarkWoken \/ MarkFailed
  <2>1. row[Worker] \in Requests /\ status[row[Worker]] # "none"
    BY <1>10 DEF MarkWoken, MarkFailed, TypeOK
  <2> QED
    BY <1>10, <2>1 DEF MarkWoken, MarkFailed, Goto, TypeOK
<1>11. CASE Crash
  BY <1>11 DEF Crash, TypeOK
<1>12. ASSUME NEW f \in Folders, RemoveFolder(f) PROVE RowsBegin'
  BY <1>12 DEF RemoveFolder
<1>13. CASE SelectDue \/ Tick \/ Finished \/ UNCHANGED vars
  BY <1>13 DEF SelectDue, Tick, Finished, vars
<1> QED
  <2> HIDE DEF RowsBegin
  <2> QED
    BY <1>1, <1>2, <1>3, <1>4, <1>5, <1>6, <1>7, <1>8, <1>9, <1>10, <1>11, <1>12, <1>13
       DEF Next, WorkerStep, RequestStep

(* Rows begin with the insert of their snooze, in every reachable state.   *)
LEMMA RowsHold == Spec => []RowsBegin
<1>1. Init => RowsBegin
  BY ProcsFacts DEF Init, RowsBegin, WorksOn
<1>2. TypeOK /\ TypeOK' /\ RowsBegin /\ [Next]_vars => RowsBegin'
  BY RowsInductive
<1> QED
  BY <1>1, <1>2, TypeCorrect, PTL DEF Spec

(* A cancelled row stays out of the worker's hands, whatever overtakes     *)
(* what, breaks or is restarted: only a pending row is claimed, and a row  *)
(* becomes pending once, by the insert of its own snooze.                  *)
THEOREM CancelledStaysCancelled == Spec => CancelledIsNotWoken
<1>1. ASSUME TypeOK, RowsBegin, [Next]_vars, NEW r \in Requests, status[r] = "cancelled"
      PROVE  status'[r] \notin {"pending", "waking"}
  <2> USE <1>1, ProcsFacts DEF rowVars
  <2>1. ASSUME NEW q \in Requests, Insert(q) PROVE status'[r] \notin {"pending", "waking"}
    <3>1. status[q] = "none"
      BY <2>1 DEF Insert, RowsBegin
    <3> QED
      BY <2>1, <3>1 DEF Insert, TypeOK
  <2>2. CASE Claim
    BY <2>2, ClaimRow DEF TypeOK
  <2>3. ASSUME NEW q \in Requests, MarkCancelled(q)
        PROVE  status'[r] \notin {"pending", "waking"}
    BY <2>3 DEF MarkCancelled, TypeOK
  <2>4. CASE MarkWoken \/ MarkFailed
    BY <2>4 DEF MarkWoken, MarkFailed, TypeOK
  <2>5. ASSUME NEW p \in Procs, Find(p) \/ MoveUids(p) PROVE status' = status
    BY <2>5, MoveFrame DEF Find
  <2>6. ASSUME NEW q \in Requests, Select(q) PROVE status' = status
    BY <2>6 DEF Select
  <2>7. ASSUME NEW q \in Requests,
               \/ \E c \in box : StartSnooze(q, c)
               \/ \E c \in box, f \in Folders : StartMove(q, c, f)
               \/ \E s \in Requests : StartCancel(q, s)
        PROVE  status' = status
    BY <2>7 DEF StartSnooze, StartMove, StartCancel
  <2>8. CASE \/ SelectDue \/ Tick \/ Crash \/ Finished \/ UNCHANGED vars
             \/ \E f \in Folders : RemoveFolder(f)
    BY <2>8 DEF SelectDue, Tick, Crash, Finished, RemoveFolder, vars
  <2> QED
    BY <2>1, <2>2, <2>3, <2>4, <2>5, <2>6, <2>7, <2>8 DEF Next, WorkerStep, RequestStep
<1>2. TypeOK /\ RowsBegin /\ [Next]_vars =>
        [\A r \in Requests :
           status[r] = "cancelled" => status'[r] \notin {"pending", "waking"}]_vars
  BY <1>1
<1> QED
  BY <1>2, RowsHold, TypeCorrect, PTL DEF Spec, CancelledIsNotWoken

(* One copy of every message, none flagged, and no move done by halves.    *)
Single ==
  /\ \A p \in Procs : pc[p] \notin {"copy", "store", "expunge"}
  /\ \A c \in box : ~c.deleted
  /\ \A c, d \in box : c.msg = d.msg => c = d
  /\ \A m \in Messages : \E c \in box : c.msg = m

(* One command moves the one copy at hand, if it is still there.           *)
LEMMA MoveSingle ==
  ASSUME TypeOK, NEW p \in Procs, pc[p] = "move", dst[p] \in exists,
         Faults \cap {"nomove", "refuse"} = {}, UidsGrow, Single, MoveUids(p)
  PROVE  /\ Single'
         /\ \/ box' = box
            \/ \E c \in box, d \in box' :
                 /\ c.uid = target[p] /\ c.msg = d.msg /\ d.uid = nextUid
                 /\ d.folder = dst[p] /\ box' = (box \ {c}) \cup {d}
<1>1. Move(p)
  BY DEF MoveUids, CopyCommand, Store, Expunge
<1>2. AfterMove(p) \/ Drop(p)
  BY <1>1 DEF Move
<1>3. pc'[p] \notin {"copy", "store", "expunge"} /\ \A q \in Procs \ {p} : pc'[q] = pc[q]
  BY <1>2, Continues DEF Drop, TypeOK
<1>4. CASE box' = box
  BY <1>3, <1>4 DEF Single
<1>5. CASE box' = AfterMoveCommand(p)
  <2>1. CASE At(p) = {}
    <3>1. box' = box
      BY <1>5, <2>1 DEF AfterMoveCommand, Arrivals
    <3> QED
      BY <1>4, <3>1
  <2>2. CASE At(p) # {}
    <3>1. PICK c \in box : c \in At(p)
      BY <2>2 DEF At
    <3>2. At(p) = {c} /\ c.uid = target[p]
      BY <3>1 DEF At, UidsGrow
    <3> DEFINE d == [c EXCEPT !.uid = nextUid, !.folder = dst[p]]
    <3>3. /\ d.uid = nextUid /\ d.msg = c.msg /\ d.deleted = c.deleted
          /\ d.folder = dst[p]
      BY DEF TypeOK, Copy
    <3>4. Arrivals(p) = {d}
      BY <3>2 DEF Arrivals
    <3> HIDE DEF d
    <3>5. box' = (box \ {c}) \cup {d}
      BY <1>5, <3>2, <3>4 DEF AfterMoveCommand
    <3>6. Single'
      BY <1>3, <3>1, <3>3, <3>5 DEF Single
    <3> QED
      BY <3>2, <3>3, <3>5, <3>6
  <2> QED
    BY <2>1, <2>2
<1> QED
  BY <1>1, <1>4, <1>5 DEF Move

(* The steps of the threads keep a single copy of every message, while no  *)
(* command is refused: the code falls back on COPY only for a refused MOVE.*)
LEMMA SingleInductive ==
  ASSUME TypeOK, Faults \cap {"nomove", "refuse"} = {}, Reachable, UidsGrow, Single,
         [Next]_vars
  PROVE  Single'
<1> USE ProcsFacts DEF mailVars, rowVars, procVars, envVars
<1>1. ASSUME NEW p \in Procs, MoveUids(p) PROVE Single'
  <2>1. pc[p] = "move"
    BY <1>1, MoveFrame DEF Single
  <2>2. dst[p] \in exists
    BY <2>1 DEF Reachable, Lasting
  <2> QED
    BY <1>1, <2>1, <2>2, MoveSingle
<1>2. ASSUME UNCHANGED box,
             \A p \in Procs : pc'[p] \in {"copy", "store", "expunge"} => pc'[p] = pc[p]
      PROVE  Single'
  BY <1>2 DEF Single
<1>3. ASSUME NEW r \in Requests,
             \/ \E c \in box : StartSnooze(r, c)
             \/ \E c \in box, f \in Folders : StartMove(r, c, f)
             \/ \E q \in Requests : StartCancel(r, q)
      PROVE  Single'
  BY <1>2, <1>3 DEF StartSnooze, StartMove, StartCancel, Goto, TypeOK
<1>4. ASSUME NEW r \in Requests, Select(r) \/ Insert(r) \/ MarkCancelled(r)
      PROVE  Single'
  BY <1>2, <1>4 DEF Select, Insert, MarkCancelled, Drop, Raise, Goto, TypeOK
<1>5. ASSUME NEW p \in Procs, Find(p) PROVE Single'
  BY <1>2, <1>5 DEF Find, Drop, Raise, Goto, TypeOK
<1>6. CASE Claim
  <2>1. UNCHANGED box
    BY <1>6 DEF Claim
  <2>2. \A p \in Procs : pc'[p] = pc[p] \/ pc'[p] = "find"
    BY <1>6, ClaimTakes DEF TypeOK
  <2> QED
    BY <1>2, <2>1, <2>2
<1>7. CASE MarkWoken \/ MarkFailed \/ SelectDue \/ Tick \/ Finished \/ UNCHANGED vars
  BY <1>2, <1>7 DEF MarkWoken, MarkFailed, SelectDue, Tick, Finished, vars, Goto, TypeOK
<1>8. ASSUME NEW f \in Folders, RemoveFolder(f) PROVE Single'
  BY <1>2, <1>8 DEF RemoveFolder
<1>9. CASE Crash
  BY <1>2, <1>9 DEF Crash
<1> QED
  BY <1>1, <1>3, <1>4, <1>5, <1>6, <1>7, <1>8, <1>9 DEF Next, WorkerStep, RequestStep

(* There is a single copy of every message in every reachable state.       *)
LEMMA SingleHolds ==
  ASSUME TargetsStay, Faults \cap {"nomove", "refuse"} = {}
  PROVE  Spec => []Single
<1>1. Init => Single
  BY DEF Init, Single
<1>2. TypeOK /\ Reachable /\ UidsGrow /\ Single /\ [Next]_vars => Single'
  BY SingleInductive
<1>3. "refuse" \notin Faults
  OBVIOUS
<1> QED
  BY <1>1, <1>2, <1>3, TypeCorrect, ReachableHolds, UidsHold, PTL DEF Spec

(* Only a snooze moves to Snoozed, and it moves the message of its row.    *)
Aimed ==
  /\ \A r \in Requests : home[r] # Snoozed
  /\ \A p \in Procs : pc[p] \in {"find", "select", "move"} /\ job[p] # "snooze"
       => dst[p] # Snoozed
  /\ \A r \in Requests, c \in box :
       job[r] = "snooze" /\ pc[r] \in {"select", "move"} /\ c.uid = target[r]
         => c.msg = mid[r]

(* What the theorem on Snoozed rests on: nothing fails, nobody else moves  *)
(* messages into Snoozed or snoozes them again, no folder in use goes.     *)
Undisturbed ==
  /\ TargetsStay /\ Faults = {} /\ MaxCrashes = 0
  /\ Snoozed \notin MoveTargets \cup SnoozeSources

(* A move goes to Snoozed for the row of a snooze, and back for the others.*)
LEMMA AimedInductive ==
  ASSUME TypeOK, Undisturbed, Reachable, UidsGrow, Single, RowsBegin, Aimed, [Next]_vars
  PROVE  Aimed'
<1> USE ProcsFacts DEF mailVars, rowVars, procVars, envVars
<1>0. /\ Faults = {} /\ Snoozed \notin MoveTargets \cup SnoozeSources
  BY DEF Undisturbed
<1>1. ASSUME NEW r \in Requests, NEW c \in box, StartSnooze(r, c) PROVE Aimed'
  <2>1. /\ home' = [home EXCEPT ![r] = c.folder] /\ c.folder # Snoozed
        /\ job' = [job EXCEPT ![r] = "snooze"] /\ mid' = [mid EXCEPT ![r] = c.msg]
        /\ target' = [target EXCEPT ![r] = c.uid] /\ pc' = [pc EXCEPT ![r] = "select"]
        /\ dst' = [dst EXCEPT ![r] = Snoozed] /\ box' = box
    BY <1>0, <1>1 DEF StartSnooze, Goto
  <2>2. \A d \in box : d.uid = c.uid => d.msg = c.msg
    BY DEF UidsGrow
  <2> QED
    BY <2>1, <2>2 DEF Aimed, TypeOK
<1>2. ASSUME NEW r \in Requests, NEW c \in box, NEW f \in Folders, StartMove(r, c, f)
      PROVE  Aimed'
  BY <1>0, <1>2 DEF StartMove, Goto, TypeOK, Aimed
<1>3. ASSUME NEW r \in Requests, NEW q \in Requests, StartCancel(r, q)
      PROVE  Aimed'
  BY <1>0, <1>3 DEF StartCancel, Goto, TypeOK, Aimed
<1>4. ASSUME NEW r \in Requests, Select(r) PROVE Aimed'
  BY <1>0, <1>4 DEF Select, Drop, Raise, Goto, TypeOK, Aimed
<1>5. ASSUME NEW p \in Procs, Find(p) PROVE Aimed'
  <2>1. /\ UNCHANGED <<box, home, dst, job, mid>> /\ pc[p] = "find"
        /\ \A q \in Procs \ {p} : pc'[q] = pc[q] /\ target'[q] = target[q]
        /\ pc'[p] \in {"move", "done", "failed"}
    BY <1>5 DEF Find, Drop, Raise, Goto, TypeOK
  <2>2. job[p] # "snooze"
    BY <2>1 DEF RowsBegin
  <2> QED
    BY <2>1, <2>2 DEF Aimed
<1>6. ASSUME NEW p \in Procs, MoveUids(p) PROVE Aimed'
  <2>1. pc[p] = "move"
    BY <1>6, MoveFrame DEF Single
  <2>2. dst[p] \in exists
    BY <2>1 DEF Reachable, Lasting
  <2>3. \A d \in box' : d \in box \/ d.uid = nextUid
    BY <1>0, <1>6, <2>1, <2>2, MoveSingle
  <2>4. /\ UNCHANGED <<home, dst, job, mid, target>>
        /\ \A q \in Procs : pc'[q] \in {"find", "select", "move"} => pc'[q] = pc[q]
    BY <1>6, MoveFrame
  <2>5. \A q \in Procs : pc[q] \in {"select", "move"} => target[q] < nextUid
    BY DEF UidsGrow, Moving
  <2>6. nextUid \in Nat /\ \A q \in Procs : target[q] \in Nat
    BY DEF TypeOK
  <2> QED
    BY <2>3, <2>4, <2>5, <2>6 DEF Aimed
<1>7. ASSUME NEW r \in Requests, Insert(r) \/ MarkCancelled(r) PROVE Aimed'
  BY <1>7 DEF Insert, MarkCancelled, Goto, TypeOK, Aimed
<1>8. CASE Claim
  <2>1. UNCHANGED <<box, home, mid, job, target>>
    BY <1>8 DEF Claim
  <2>2. \A p \in Procs : \/ pc'[p] = pc[p] /\ dst'[p] = dst[p]
                         \/ pc'[p] = "find" /\ \E r \in Requests : dst'[p] = home[r]
    BY <1>8, ClaimTakes DEF TypeOK
  <2> QED
    BY <2>1, <2>2 DEF Aimed
<1>9. CASE MarkWoken \/ MarkFailed \/ SelectDue \/ Tick \/ Finished \/ UNCHANGED vars
  BY <1>9 DEF MarkWoken, MarkFailed, SelectDue, Tick, Finished, vars, Goto, TypeOK, Aimed
<1>10. ASSUME NEW f \in Folders, RemoveFolder(f) PROVE Aimed'
  BY <1>10 DEF RemoveFolder, Aimed
<1>11. CASE Crash
  BY <1>11 DEF Crash, Aimed
<1> QED
  BY <1>1, <1>2, <1>3, <1>4, <1>5, <1>6, <1>7, <1>8, <1>9, <1>10, <1>11
     DEF Next, WorkerStep, RequestStep

(* The row r will bring the copy c back: whoever works on the row has yet  *)
(* to look the copy up, or has it in hand.                                 *)
Brings(r, c) ==
  /\ mid[r] = c.msg
  /\ status[r] \in {"pending", "waking"} \/ Inserting(r)
  /\ \A p \in Procs : WorksOn(p, r) =>
       pc[p] = "find" \/ (pc[p] = "move" /\ target[p] = c.uid)

Covered == \A c \in box : c.folder = Snoozed => \E r \in Requests : Brings(r, c)

(* A row that has a copy to bring back still has it after steps that move  *)
(* no copy, bring nobody to a row but to look its copy up, and end no row. *)
LEMMA BringsStill ==
  ASSUME NEW r \in Requests, NEW c \in box, Brings(r, c),
         mid'[r] = mid[r],
         status[r] \in {"pending", "waking"} => status'[r] \in {"pending", "waking"},
         Inserting(r) => Inserting(r)' \/ status'[r] = "pending",
         \A p \in Procs : WorksOn(p, r)' =>
           \/ WorksOn(p, r) /\ pc'[p] = pc[p] /\ target'[p] = target[p]
           \/ pc'[p] = "find"
           \/ pc'[p] = "move" /\ target'[p] = c.uid
  PROVE  Brings(r, c)'
  BY DEF Brings

(* The row that will bring a copy back still does after a request began:   *)
(* an idle request owns no row.                                            *)
LEMMA BringsPastStarts ==
  ASSUME TypeOK, RowsBegin, NEW q \in Requests,
         \/ \E d \in box : StartSnooze(q, d)
         \/ \E d \in box, f \in Folders : StartMove(q, d, f)
         \/ \E s \in Requests : StartCancel(q, s),
         NEW r \in Requests, NEW c \in box, Brings(r, c)
  PROVE  Brings(r, c)'
<1> USE ProcsFacts
<1>1. /\ pc[q] = "idle" /\ status' = status /\ \A p \in Procs \ {q} :
           pc'[p] = pc[p] /\ job'[p] = job[p] /\ row'[p] = row[p] /\ target'[p] = target[p]
      /\ \A s \in Requests \ {q} : mid'[s] = mid[s]
      /\ job'[q] \in {"snooze", "move"} \/ pc'[q] = "find"
  BY DEF StartSnooze, StartMove, StartCancel, Goto, rowVars, TypeOK
<1>2. r # q
  BY <1>1 DEF RowsBegin, Brings, Inserting
<1>3. Inserting(r) => Inserting(r)'
  BY <1>1, <1>2 DEF Inserting
<1> QED
  BY <1>1, <1>2, <1>3, BringsStill DEF WorksOn

(* Every copy in Snoozed is covered after every step.                      *)
LEMMA CoveredInductive ==
  ASSUME TypeOK, TypeOK', Undisturbed, Reachable, UidsGrow, Single, RowsBegin, Aimed,
         Covered, [Next]_vars
  PROVE  Covered'
<1> USE ProcsFacts DEF mailVars, rowVars, procVars, envVars
<1>0. Faults = {} /\ MaxCrashes = 0
  BY DEF Undisturbed
<1>1. ASSUME box' = box,
             \A r \in Requests, c \in box :
               Brings(r, c) /\ c.folder = Snoozed => Brings(r, c)'
      PROVE  Covered'
  BY <1>1 DEF Covered
<1>2. ASSUME NEW r \in Requests,
             \/ \E c \in box : StartSnooze(r, c)
             \/ \E c \in box, f \in Folders : StartMove(r, c, f)
             \/ \E q \in Requests : StartCancel(r, q)
      PROVE  Covered'
  BY <1>1, <1>2, BringsPastStarts DEF StartSnooze, StartMove, StartCancel
<1>3. ASSUME NEW q \in Requests, Select(q) PROVE Covered'
  <2>1. /\ UNCHANGED <<box, status, mid, job, row, target>>
        /\ pc[q] = "select" /\ \A p \in Procs \ {q} : pc'[p] = pc[p]
    BY <1>3 DEF Select, Drop, Raise, Goto, TypeOK
  <2>2. \A r \in Requests : ~WorksOn(q, r)
    BY <2>1 DEF RowsBegin, WorksOn
  <2>3. \A r \in Requests : ~WorksOn(q, r)'
    BY <2>1 DEF RowsBegin, WorksOn
  <2>4. \A r \in Requests : Inserting(r) => Inserting(r)'
    BY <2>1 DEF Inserting
  <2> QED
    BY <1>1, <2>1, <2>3, <2>4, BringsStill DEF WorksOn
<1>4. ASSUME NEW q \in Procs, Find(q) PROVE Covered'
  <2>1. /\ UNCHANGED <<box, status, mid, job, row>>
        /\ pc[q] = "find"
        /\ \A p \in Procs \ {q} : pc'[p] = pc[p] /\ target'[p] = target[p]
    BY <1>4 DEF Find, Drop, Raise, Goto, TypeOK
  <2>2. ASSUME NEW r \in Requests, NEW c \in box, Brings(r, c), c.folder = Snoozed, WorksOn(q, r)
        PROVE  pc'[q] = "move" /\ target'[q] = c.uid
    <3>1. c \in Matches(q)
      BY <2>2 DEF Matches, Brings, WorksOn
    <3>2. \A d \in Matches(q) : d = c
      BY <3>1 DEF Matches, Single
    <3> QED
      BY <1>0, <1>4, <3>1, <3>2 DEF Find, Goto, TypeOK
  <2>3. \A r \in Requests : Inserting(r) => Inserting(r)'
    BY <2>1 DEF Inserting
  <2> QED
    BY <1>1, <2>1, <2>2, <2>3, BringsStill DEF WorksOn
<1>5. ASSUME NEW q \in Procs, MoveUids(q) PROVE Covered'
  <2>1. pc[q] = "move"
    BY <1>5, MoveFrame DEF Single
  <2>2. dst[q] \in exists
    BY <2>1 DEF Reachable, Lasting
  <2>3. /\ UNCHANGED <<status, mid, job, row, target, dst>>
        /\ \A p \in Procs \ {q} : pc'[p] = pc[p]
    BY <1>5, MoveFrame
  <2>4. box' = AfterMoveCommand(q) /\ AfterMove(q)
    BY <1>0, <1>5, <2>1, <2>2 DEF MoveUids, Move, CopyCommand, Store, Expunge, Drop
  <2>5. job[q] = "snooze" <=> pc'[q] = "insert"
    <3>1. job[q] \in Jobs
      BY DEF TypeOK
    <3> QED
      BY <2>4, <3>1 DEF AfterMove, Goto, Jobs, TypeOK
  <2>6. \A r \in Requests : Inserting(r) => Inserting(r)'
    BY <2>1, <2>3, <2>5 DEF Inserting
  <2>7. ASSUME NEW c \in box', c \in box, c.folder = Snoozed
        PROVE  \E r \in Requests : Brings(r, c)'
    <3>1. PICK r \in Requests : Brings(r, c)
      BY <2>7 DEF Covered
    <3>2. ASSUME WorksOn(q, r) PROVE FALSE
      <4>1. target[q] = c.uid
        BY <2>1, <3>1, <3>2 DEF Brings
      <4>2. c \in At(q)
        BY <2>7, <4>1 DEF At
      <4>3. c \in Arrivals(q)
        BY <2>4, <2>7, <4>2 DEF AfterMoveCommand
      <4>4. c.uid = nextUid
        BY <4>3, Effects
      <4>5. c.uid < nextUid /\ nextUid \in Nat
        BY <2>7 DEF UidsGrow, TypeOK
      <4> QED
        BY <4>4, <4>5
    <3>3. \A p \in Procs : WorksOn(p, r)' => WorksOn(p, r)
      BY <2>1, <2>3 DEF WorksOn
    <3>4. \A p \in Procs : WorksOn(p, r)' => p # q
      BY <3>2, <3>3
    <3> QED
      BY <2>3, <2>6, <2>7, <3>1, <3>3, <3>4, BringsStill
  <2>8. ASSUME NEW d \in box', d \notin box, d.folder = Snoozed
        PROVE  \E r \in Requests : Brings(r, d)'
    <3>1. PICK c \in box : c.uid = target[q] /\ c.msg = d.msg /\ d.folder = dst[q]
      BY <1>0, <1>5, <2>1, <2>2, <2>8, MoveSingle
    <3>2. job[q] = "snooze" /\ q \in Requests
      BY <2>1, <2>8, <3>1 DEF Aimed, RowsBegin, Procs
    <3>3. mid[q] = d.msg
      BY <2>1, <3>1, <3>2 DEF Aimed
    <3>4. Inserting(q)'
      BY <2>3, <2>5, <3>2 DEF Inserting
    <3>5. status[q] = "none"
      BY <2>1, <3>2 DEF RowsBegin
    <3>6. \A p \in Procs : ~WorksOn(p, q)
      BY <3>5, <3>2 DEF RowsBegin
    <3>7. \A p \in Procs : ~WorksOn(p, q)'
      BY <2>1, <2>3, <3>6 DEF WorksOn
    <3> QED
      BY <2>3, <3>2, <3>3, <3>4, <3>7 DEF Brings
  <2> QED
    BY <2>7, <2>8 DEF Covered
<1>6. ASSUME NEW q \in Requests, Insert(q) PROVE Covered'
  <2>1. /\ UNCHANGED <<box, mid, job, row, target>>
        /\ status' = [status EXCEPT ![q] = "pending"] /\ pc' = [pc EXCEPT ![q] = "done"]
        /\ pc[q] = "insert"
    BY <1>0, <1>6 DEF Insert, Goto
  <2>2. \A r \in Requests : Inserting(r) => Inserting(r)' \/ status'[r] = "pending"
    BY <2>1 DEF Inserting, TypeOK
  <2>3. \A p \in Procs, r \in Requests : WorksOn(p, r)' => WorksOn(p, r) /\ pc'[p] = pc[p]
    BY <2>1 DEF WorksOn, TypeOK
  <2>4. \A r \in Requests :
          status[r] \in {"pending", "waking"} => status'[r] \in {"pending", "waking"}
    BY <2>1 DEF TypeOK
  <2> QED
    BY <1>1, <2>1, <2>2, <2>3, <2>4, BringsStill
<1>7. ASSUME NEW q \in Procs, NEW s \in {"cancelled", "woken", "failed"},
             pc[q] \in {"cancelled", "woken", "failed"}, job[q] \in {"cancel", "wake"},
             status' = [status EXCEPT ![row[q]] = s],
             pc' = [pc EXCEPT ![q] = IF q = Worker THEN "next" ELSE "done"],
             UNCHANGED <<box, mid, job, row, target>>
      PROVE  Covered'
  <2>1. row[q] \in Requests
    BY DEF TypeOK
  <2>2. ASSUME NEW r \in Requests, NEW c \in box, Brings(r, c) PROVE r # row[q]
    BY <1>7, <2>1, <2>2 DEF Brings, WorksOn
  <2>3. \A r \in Requests : Inserting(r) => Inserting(r)'
    BY <1>7 DEF Inserting, TypeOK
  <2>4. \A p \in Procs, r \in Requests : WorksOn(p, r)' => WorksOn(p, r) /\ pc'[p] = pc[p]
    BY <1>7 DEF WorksOn, TypeOK
  <2>5. \A r \in Requests : r # row[q] => status'[r] = status[r]
    BY <1>7 DEF TypeOK
  <2> QED
    BY <1>1, <1>7, <2>2, <2>3, <2>4, <2>5, BringsStill
<1>8. ASSUME NEW q \in Requests, MarkCancelled(q) PROVE Covered'
  <2>1. job[q] = "cancel" /\ q # Worker
    BY <1>8 DEF MarkCancelled, RowsBegin
  <2> QED
    BY <1>0, <1>7, <1>8, <2>1 DEF MarkCancelled, Goto
<1>9. CASE MarkWoken \/ MarkFailed
  <2>1. job[Worker] = "wake"
    BY DEF RowsBegin
  <2> QED
    BY <1>0, <1>7, <1>9, <2>1 DEF MarkWoken, MarkFailed, Goto
<1>10. CASE Claim
  <2>1. UNCHANGED <<box, mid, job, target>>
    BY <1>10 DEF Claim
  <2>2. \A r \in Requests :
          status[r] \in {"pending", "waking"} => status'[r] \in {"pending", "waking"}
    BY <1>10, ClaimRow DEF TypeOK
  <2>3. \A p \in Procs : \/ pc'[p] = pc[p] /\ row'[p] = row[p]
                         \/ p = Worker /\ pc'[p] = "find"
    BY <1>10, ClaimTakes DEF TypeOK
  <2>4. \A r \in Requests : Inserting(r) => Inserting(r)'
    BY <2>1, <2>3 DEF Inserting
  <2>5. \A p \in Procs, r \in Requests : WorksOn(p, r)' =>
          (WorksOn(p, r) /\ pc'[p] = pc[p]) \/ pc'[p] = "find"
    BY <2>1, <2>3 DEF WorksOn
  <2> QED
    BY <1>1, <2>1, <2>2, <2>4, <2>5, BringsStill
<1>11. CASE \/ SelectDue \/ Tick \/ Finished \/ UNCHANGED vars
            \/ \E f \in Folders : RemoveFolder(f)
  <2>1. UNCHANGED <<box, status, mid, pc, job, row, target>>
    BY <1>11 DEF SelectDue, Tick, Finished, RemoveFolder, vars
  <2> QED
    BY <2>1 DEF Covered, Brings, Inserting, WorksOn
<1>12. CASE Crash
  BY <1>0, <1>12 DEF Crash, TypeOK
<1> QED
  BY <1>2, <1>3, <1>4, <1>5, <1>6, <1>8, <1>9, <1>10, <1>11, <1>12
     DEF Next, WorkerStep, RequestStep

(* No message is left in Snoozed: while nothing fails and nobody files     *)
(* messages there by hand, every copy in Snoozed has a row that is to be   *)
(* woken or is about to be written, whoever races whom; a row is given up  *)
(* only by whoever has just moved its copy out.                            *)
THEOREM SnoozedAreScheduled ==
  ASSUME Undisturbed
  PROVE  Spec => []SnoozedIsScheduled
<1>1. Init => Aimed /\ Covered
  <2> SUFFICES ASSUME Init PROVE Aimed /\ Covered
    OBVIOUS
  <2>1. \A p \in Procs : pc[p] \in {"next", "idle"}
    BY DEF Init
  <2>2. (\A r \in Requests : home[r] = Inbox) /\ Inbox # Snoozed
    BY SnoozeAssumption DEF Init
  <2>3. \A c \in box : c.folder # Snoozed
    BY DEF Init
  <2> QED
    BY <2>1, <2>2, <2>3, ProcsFacts DEF Aimed, Covered
<1>2. TypeOK /\ TypeOK' /\ Reachable /\ UidsGrow /\ Single /\ RowsBegin /\ Aimed /\ Covered
        /\ [Next]_vars => Aimed' /\ Covered'
  BY AimedInductive, CoveredInductive
<1>3. Covered => SnoozedIsScheduled
  BY DEF Covered, Brings, SnoozedIsScheduled
<1>4. TargetsStay /\ "refuse" \notin Faults /\ Faults \cap {"nomove", "refuse"} = {}
  BY DEF Undisturbed
<1> QED
  BY <1>1, <1>2, <1>3, <1>4, TypeCorrect, ReachableHolds, UidsHold, SingleHolds, RowsHold,
     PTL DEF Spec
=============================================================================
