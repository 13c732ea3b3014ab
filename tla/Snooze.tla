------------------------------- MODULE Snooze -------------------------------
(***************************************************************************)
(* Snoozed messages: a message leaves its folder for the IMAP folder       *)
(* Snoozed, a row of snoozed_messages remembers where it came from, and    *)
(* the background worker brings it back when the row is due.               *)
(*                                                                         *)
(* Three parties touch the same mailbox over connections of their own: the *)
(* HTTP handlers (snooze, cancel, and the ordinary move of a message), the *)
(* worker, and the user's other mail clients.  Every IMAP command is one   *)
(* atomic step of the server, and so is every block on the table; whatever *)
(* the code does between two commands can be overtaken.  All of them move  *)
(* messages with _move_uids: MOVE, or COPY + STORE \Deleted + EXPUNGE      *)
(* when that fails.                                                        *)
(*                                                                         *)
(* A request handles one message: the messages of one call share its IMAP  *)
(* commands and its transaction.  The \Seen flag is left out.              *)
(***************************************************************************)
EXTENDS Integers, FiniteSets

CONSTANTS
  Messages,       \* messages, named by their Message-ID
  Requests,       \* HTTP requests, one shot each; a snooze owns the row it adds
  Worker,         \* the thread of background_worker_loop
  Folders, Inbox, Snoozed,
  SnoozeSources,  \* bound: folders a user snoozes from
  MoveTargets,    \* bound: folders a user moves messages to
  Removable,      \* bound: folders the user may remove when they are empty
  BatchLimit,     \* rows one poll takes (LIMIT 20 in the code)
  Faults,         \* what may go wrong, see Fault
  MaxTime,        \* bound: last instant of the clock
  MaxCrashes      \* bound: how often the server is killed and restarted

(* drop: a connection breaks before or after the command took effect;      *)
(* nomove: the server refuses MOVE; refuse: it refuses CREATE, COPY or     *)
(* STORE; db: a statement on the table raises.                             *)
Fault == {"drop", "nomove", "refuse", "db"}

ASSUME SnoozeAssumption ==
  /\ IsFiniteSet(Messages)
  /\ Worker \notin Requests
  /\ {Inbox, Snoozed} \subseteq Folders /\ Inbox # Snoozed
  /\ SnoozeSources \subseteq Folders /\ MoveTargets \subseteq Folders
  /\ Removable \subseteq Folders \ {Inbox}
  /\ BatchLimit \in Nat \ {0}
  /\ Faults \subseteq Fault
  /\ MaxTime \in Nat /\ MaxCrashes \in Nat

VARIABLES
  (* the IMAP account *)
  box,        \* the copies it holds
  exists,     \* its folders
  nextUid,    \* the next UID (unique over all folders here)
  (* one row of snoozed_messages per snooze request *)
  status,     \* "none" before the insert, then the column `status`
  cred,       \* is `imap_pass_enc` non-empty?
  mid,        \* column `message_id` (known to the request from its fetch on)
  home,       \* column `original_folder`
  wakeAt,     \* column `wake_at`
  (* the threads *)
  pc, job,    \* where the thread is; which of the four operations it runs
  row,        \* the row it works on
  target,     \* the UID it moves
  src, dst,   \* from this folder to that
  batch,      \* rows the current poll of the worker has still to visit
  (* the environment *)
  now, crashes

mailVars == <<box, exists, nextUid>>
rowVars  == <<status, cred, mid, home, wakeAt>>
procVars == <<pc, job, row, target, src, dst>>
envVars  == <<now, crashes>>
vars == <<mailVars, rowVars, procVars, batch, envVars>>

Procs == Requests \cup {Worker}
Copy == [uid : Nat, msg : Messages, folder : Folders, deleted : BOOLEAN]
Statuses == {"none", "pending", "waking", "woken", "failed", "cancelled"}
Jobs == {"snooze", "move", "cancel", "wake"}
Labels == {"idle", "select", "find", "move", "copy", "store", "expunge",
           "insert", "cancelled", "woken", "failed", "next", "done"}

(* Every row and every worker has the shape its table and its code give it. *)
TypeOK ==
  /\ box \subseteq Copy /\ exists \subseteq Folders /\ nextUid \in Nat
  /\ status \in [Requests -> Statuses]
  /\ cred \in [Requests -> BOOLEAN]
  /\ mid \in [Requests -> Messages]
  /\ home \in [Requests -> Folders]
  /\ wakeAt \in [Requests -> Nat]
  /\ pc \in [Procs -> Labels] /\ job \in [Procs -> Jobs]
  /\ row \in [Procs -> Requests]
  /\ target \in [Procs -> Nat]
  /\ src \in [Procs -> Folders] /\ dst \in [Procs -> Folders]
  /\ batch \subseteq Requests
  /\ now \in Nat /\ crashes \in Nat

(* One live copy of every message, outside Snoozed. *)
Init ==
  /\ box \in SUBSET [uid : 0 .. Cardinality(Messages) - 1, msg : Messages,
                     folder : Folders \ {Snoozed}, deleted : {FALSE}]
  /\ \A m \in Messages : \E c \in box : c.msg = m
  /\ \A c, d \in box : c.msg = d.msg \/ c.uid = d.uid => c = d
  /\ exists \in {Folders, Folders \ {Snoozed}}
  /\ nextUid = Cardinality(Messages)
  /\ status = [r \in Requests |-> "none"]
  /\ cred = [r \in Requests |-> FALSE]
  /\ \E m \in Messages : mid = [r \in Requests |-> m]
  /\ home = [r \in Requests |-> Inbox]
  /\ wakeAt = [r \in Requests |-> 0]
  /\ pc = [p \in Procs |-> IF p = Worker THEN "next" ELSE "idle"]
  /\ job = [p \in Procs |-> IF p = Worker THEN "wake" ELSE "move"]
  /\ \E r \in Requests : row = [p \in Procs |-> r]
  /\ target = [p \in Procs |-> 0]
  /\ src = [p \in Procs |-> Inbox] /\ dst = [p \in Procs |-> Inbox]
  /\ batch = {}
  /\ now = 0 /\ crashes = 0

-----------------------------------------------------------------------------
(* Control of a thread. *)

Goto(p, l) == pc' = [pc EXCEPT ![p] = l]

(* Where an exception of the IMAP part ends: a 502, or the except branch.  *)
Raise(p) == Goto(p, IF p = Worker THEN "failed" ELSE "done")

Drop(p) == "drop" \in Faults /\ Raise(p)

(* What follows a move that returned. *)
AfterMove(p) ==
  Goto(p, CASE job[p] = "snooze" -> "insert"
            [] job[p] = "cancel" -> "cancelled"
            [] job[p] = "wake"   -> "woken"
            [] job[p] = "move"   -> "done")

-----------------------------------------------------------------------------
(* The requests up to their IMAP session. *)

(* POST /api/snooze: a wake time in the future, then one FETCH per UID.    *)
StartSnooze(r, c) ==
  /\ pc[r] = "idle"
  /\ c.folder \in SnoozeSources
  /\ \E at \in (now + 1) .. MaxTime : wakeAt' = [wakeAt EXCEPT ![r] = at]
  /\ mid' = [mid EXCEPT ![r] = c.msg]
  /\ home' = [home EXCEPT ![r] = c.folder]
  /\ Goto(r, "select")
  /\ job' = [job EXCEPT ![r] = "snooze"]
  /\ target' = [target EXCEPT ![r] = c.uid]
  /\ src' = [src EXCEPT ![r] = c.folder]
  /\ dst' = [dst EXCEPT ![r] = Snoozed]
  /\ UNCHANGED <<mailVars, status, cred, row, batch, envVars>>

(* The ordinary move of a message: imap_move_message, imap_bulk_action.    *)
StartMove(r, c, f) ==
  /\ pc[r] = "idle"
  /\ f \in exists \cap MoveTargets /\ f # c.folder
  /\ Goto(r, "select")
  /\ job' = [job EXCEPT ![r] = "move"]
  /\ target' = [target EXCEPT ![r] = c.uid]
  /\ src' = [src EXCEPT ![r] = c.folder]
  /\ dst' = [dst EXCEPT ![r] = f]
  /\ UNCHANGED <<mailVars, rowVars, row, batch, envVars>>

(* DELETE /api/snoozed/{id}: only a row that is still 'pending'.           *)
StartCancel(r, q) ==
  /\ pc[r] = "idle"
  /\ status[q] = "pending"
  /\ Goto(r, "find")
  /\ job' = [job EXCEPT ![r] = "cancel"]
  /\ row' = [row EXCEPT ![r] = q]
  /\ src' = [src EXCEPT ![r] = Snoozed]
  /\ dst' = [dst EXCEPT ![r] = home[q]]
  /\ UNCHANGED <<mailVars, rowVars, target, batch, envVars>>

(* Connect; _ensure_and_move first creates Snoozed, and does not look at   *)
(* the answer; SELECT the source.                                          *)
Select(r) ==
  /\ pc[r] = "select"
  /\ \/ /\ \/ exists' = exists \cup (IF job[r] = "snooze" THEN {Snoozed} ELSE {})
           \/ "refuse" \in Faults /\ UNCHANGED exists
        /\ IF src[r] \in exists' THEN Goto(r, "move") ELSE Raise(r)
     \/ Drop(r) /\ UNCHANGED exists
  /\ UNCHANGED <<box, nextUid, rowVars, job, row, target, src, dst, batch, envVars>>

MatchesAtHome(p) ==                 \* mutation: the folder of the row is selected
  {c \in box : c.folder = home[row[p]] /\ c.msg = mid[row[p]]}

(* SEARCH HEADER Message-ID in Snoozed: the last UID, deleted or not.      *)
Matches(p) == {c \in box : c.folder = Snoozed /\ c.msg = mid[row[p]]}

Find(p) ==
  /\ pc[p] = "find"
  /\ \/ \E c \in Matches(p) :
          /\ \A d \in Matches(p) : d.uid <= c.uid
          /\ target' = [target EXCEPT ![p] = c.uid]
          /\ Goto(p, "move")
     \/ /\ Matches(p) = {} \/ "drop" \in Faults
        /\ Raise(p)
        /\ UNCHANGED target
  /\ UNCHANGED <<mailVars, rowVars, job, row, src, dst, batch, envVars>>

-----------------------------------------------------------------------------
(* _move_uids, command by command. *)

(* The copy the UID still names; a command on a vanished UID does nothing. *)
At(p) == {c \in box : c.uid = target[p]}

Arrivals(p) == {[c EXCEPT !.uid = nextUid, !.folder = dst[p]] : c \in At(p)}

AfterMoveCommand(p) == (box \ At(p)) \cup Arrivals(p)

AfterCopyCommand(p) == box \cup Arrivals(p)

Move(p) ==
  /\ pc[p] = "move"
  /\ \/ /\ dst[p] \in exists
        /\ box' = AfterMoveCommand(p) /\ nextUid' = nextUid + 1
        /\ AfterMove(p) \/ Drop(p)
     \/ /\ UNCHANGED <<box, nextUid>>
        /\ \/ (dst[p] \notin exists \/ "nomove" \in Faults) /\ Goto(p, "copy")
           \/ Drop(p)
  /\ UNCHANGED <<exists, rowVars, job, row, target, src, dst, batch, envVars>>

(* The reply of COPY is not looked at: after a NO the code goes on.        *)
CopyCommand(p) ==
  /\ pc[p] = "copy"
  /\ \/ /\ dst[p] \in exists
        /\ box' = AfterCopyCommand(p) /\ nextUid' = nextUid + 1
        /\ Goto(p, "store") \/ Drop(p)
     \/ /\ UNCHANGED <<box, nextUid>>
        /\ \/ (dst[p] \notin exists \/ "refuse" \in Faults) /\ Goto(p, "store")
           \/ Drop(p)
  /\ UNCHANGED <<exists, rowVars, job, row, target, src, dst, batch, envVars>>

Flagged(p) == {[c EXCEPT !.deleted = TRUE] : c \in At(p)}

Store(p) ==
  /\ pc[p] = "store"
  /\ \/ /\ box' = (box \ At(p)) \cup Flagged(p)
        /\ Goto(p, "expunge") \/ Drop(p)
     \/ /\ UNCHANGED box
        /\ \/ "refuse" \in Faults /\ Goto(p, "expunge")
           \/ Drop(p)
  /\ UNCHANGED <<exists, nextUid, rowVars, job, row, target, src, dst, batch,
                 envVars>>

ExpungedAll(p) == {c \in box : c.folder # src[p]}  \* mutation: flags ignored

Expunged(p) == {c \in box : ~(c.folder = src[p] /\ c.deleted)}

(* An exception of EXPUNGE is swallowed. *)
Expunge(p) ==
  /\ pc[p] = "expunge"
  /\ box' = Expunged(p) \/ ("drop" \in Faults /\ box' = box)
  /\ AfterMove(p)
  /\ UNCHANGED <<exists, nextUid, rowVars, job, row, target, src, dst, batch,
                 envVars>>

MoveUids(p) == Move(p) \/ CopyCommand(p) \/ Store(p) \/ Expunge(p)

-----------------------------------------------------------------------------
(* The last step of a snooze and of a cancellation. *)

Insert(r) ==
  /\ pc[r] = "insert"
  /\ \/ /\ status' = [status EXCEPT ![r] = "pending"]
        /\ cred' = [cred EXCEPT ![r] = TRUE]
     \/ "db" \in Faults /\ UNCHANGED <<status, cred>>
  /\ Goto(r, "done")
  /\ UNCHANGED <<mailVars, mid, home, wakeAt, job, row, target, src, dst, batch,
                 envVars>>

(* An UPDATE by id alone. *)
MarkCancelled(r) ==
  /\ pc[r] = "cancelled"
  /\ \/ /\ status' = [status EXCEPT ![row[r]] = "cancelled"]
        /\ cred' = [cred EXCEPT ![row[r]] = FALSE]
     \/ "db" \in Faults /\ UNCHANGED <<status, cred>>
  /\ Goto(r, "done")
  /\ UNCHANGED <<mailVars, mid, home, wakeAt, job, row, target, src, dst, batch,
                 envVars>>

-----------------------------------------------------------------------------
(* _worker_wake_snoozed. *)

DueRowsLate ==                      \* mutation: < for <=
  {r \in Requests : status[r] = "pending" /\ wakeAt[r] < now}

DueRows == {r \in Requests : status[r] = "pending" /\ wakeAt[r] <= now}

SelectDue ==
  /\ pc[Worker] = "next"
  /\ batch = {}
  /\ DueRows # {}
  /\ \E B \in SUBSET DueRows :
       /\ \/ Cardinality(B) = BatchLimit
          \/ B = DueRows /\ Cardinality(B) < BatchLimit
       /\ \A r \in B, q \in DueRows \ B : wakeAt[r] <= wakeAt[q]
       /\ batch' = B
  /\ UNCHANGED <<mailVars, rowVars, procVars, envVars>>

ClaimableAny(r) == TRUE             \* mutation: UPDATE ... WHERE id=?

Claimable(r) == status[r] = "pending"

(* The next row of the list: 'waking' if it is still 'pending', else skip. *)
Claim ==
  /\ pc[Worker] = "next"
  /\ \E r \in batch :
       /\ \A q \in batch : wakeAt[r] <= wakeAt[q]
       /\ \/ /\ Claimable(r)
             /\ status' = [status EXCEPT ![r] = "waking"]
             /\ batch' = batch \ {r}
             /\ row' = [row EXCEPT ![Worker] = r]
             /\ src' = [src EXCEPT ![Worker] = Snoozed]
             /\ dst' = [dst EXCEPT ![Worker] = home[r]]
             /\ Goto(Worker, "find")
          \/ /\ \/ ~Claimable(r) /\ batch' = batch \ {r}
                \/ "db" \in Faults /\ batch' = {}
             /\ UNCHANGED <<status, pc, row, src, dst>>
  /\ UNCHANGED <<mailVars, cred, mid, home, wakeAt, job, target, envVars>>

(* The UPDATE after the move, by id alone, outside the try: a fault ends   *)
(* the poll and leaves the row 'waking'.                                   *)
MarkWoken ==
  /\ pc[Worker] = "woken"
  /\ \/ /\ status' = [status EXCEPT ![row[Worker]] = "woken"]
        /\ cred' = [cred EXCEPT ![row[Worker]] = FALSE]
        /\ UNCHANGED batch
     \/ "db" \in Faults /\ batch' = {} /\ UNCHANGED <<status, cred>>
  /\ Goto(Worker, "next")
  /\ UNCHANGED <<mailVars, mid, home, wakeAt, job, row, target, src, dst, envVars>>

(* The except branch: the row is given up, with its password. *)
MarkFailed ==
  /\ pc[Worker] = "failed"
  /\ \/ status' = [status EXCEPT ![row[Worker]] = "failed"] /\ UNCHANGED batch
     \/ "db" \in Faults /\ batch' = {} /\ UNCHANGED status
  /\ Goto(Worker, "next")
  /\ UNCHANGED <<mailVars, cred, mid, home, wakeAt, job, row, target, src, dst,
                 envVars>>

-----------------------------------------------------------------------------
(* The environment. *)

(* DELETE /api/folders/{f}, or another client: an empty folder goes away.  *)
RemoveFolder(f) ==
  /\ f \in exists \cap Removable
  /\ \A c \in box : c.folder # f
  /\ exists' = exists \ {f}
  /\ UNCHANGED <<box, nextUid, rowVars, procVars, batch, envVars>>

Tick ==
  /\ now < MaxTime
  /\ now' = now + 1
  /\ UNCHANGED <<mailVars, rowVars, procVars, batch, crashes>>

(* The process is killed and started again; the table and the mailbox stay. *)
Crash ==
  /\ crashes < MaxCrashes
  /\ crashes' = crashes + 1
  /\ pc' = [p \in Procs |-> IF p = Worker THEN "next"
                            ELSE IF pc[p] = "idle" THEN "idle" ELSE "done"]
  /\ batch' = {}
  /\ UNCHANGED <<mailVars, rowVars, job, row, target, src, dst, now>>

(* Nothing left to do. *)
Finished ==
  /\ \A r \in Requests : pc[r] \in {"idle", "done"}
  /\ pc[Worker] = "next" /\ batch = {} /\ DueRows = {}
  /\ now = MaxTime
  /\ UNCHANGED vars

WorkerStep ==
  SelectDue \/ Claim \/ Find(Worker) \/ MoveUids(Worker) \/ MarkWoken \/ MarkFailed

RequestStep(r) ==
  Select(r) \/ Find(r) \/ MoveUids(r) \/ Insert(r) \/ MarkCancelled(r)

Next ==
  \/ \E r \in Requests, c \in box : StartSnooze(r, c)
  \/ \E r \in Requests, c \in box, f \in Folders : StartMove(r, c, f)
  \/ \E r, q \in Requests : StartCancel(r, q)
  \/ \E r \in Requests : RequestStep(r)
  \/ WorkerStep
  \/ \E f \in Folders : RemoveFolder(f)
  \/ Tick
  \/ Crash
  \/ Finished

Spec == Init /\ [][Next]_vars

(* The threads run and the clock advances; users and the killer owe nothing. *)
Fairness ==
  /\ WF_vars(WorkerStep)
  /\ \A r \in Requests : WF_vars(RequestStep(r))
  /\ WF_vars(Tick)

FairSpec == Spec /\ Fairness

-----------------------------------------------------------------------------
(* Safety. *)

Live(m) == {c \in box : c.msg = m /\ ~c.deleted}

(* A message nobody threw away is in some folder, whichever threads move   *)
(* it at the same time, wherever a connection breaks and whenever the      *)
(* server is killed: _move_uids destroys no copy that is the last one.     *)
NoMessageLost == \A m \in Messages : Live(m) # {}

(* The snooze r has brought its message to Snoozed, its row is to follow.  *)
Inserting(r) == job[r] = "snooze" /\ pc[r] \in {"store", "expunge", "insert"}

(* No message sits in Snoozed without a row that will bring it back.       *)
SnoozedIsScheduled ==
  \A c \in box : c.folder = Snoozed =>
    \E r \in Requests :
      mid[r] = c.msg /\ (status[r] \in {"pending", "waking"} \/ Inserting(r))

(* A row whose cancellation was confirmed stays out of the worker's hands. *)
CancelledIsNotWoken ==
  [][\A r \in Requests :
       status[r] = "cancelled" => status'[r] \notin {"pending", "waking"}]_vars

(* Liveness. *)

(* A message that sits in Snoozed comes out of it.                         *)
SnoozedComesBack ==
  \A m \in Messages :
    (\E c \in box : c.msg = m /\ c.folder = Snoozed)
      ~> (\A c \in box : c.msg = m => c.folder # Snoozed)
=============================================================================
