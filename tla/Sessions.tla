------------------------------ MODULE Sessions ------------------------------
(***************************************************************************)
(* Web sessions: a dictionary in memory under _sessions_lock, and a copy   *)
(* of every session in the table web_sessions so that a restart signs      *)
(* nobody out.                                                             *)
(*                                                                         *)
(* The event loop runs login, logout and ordinary requests one at a time,  *)
(* but not alone: the status poll runs session_get in a thread, a profile  *)
(* refresh writes the session back from a thread, and the cleanup thread   *)
(* drops what has expired.  The lock covers the dictionary; logout and     *)
(* cleanup touch the table after they released it.                         *)
(*                                                                         *)
(* A session in memory is known by the identity of its object, because     *)
(* _session_persist_if_active compares identities.  Its contents are left  *)
(* out, and so are rows that cannot be decoded.                            *)
(***************************************************************************)
EXTENDS Integers

CONSTANTS
  Tokens,       \* one per login
  Objects,      \* identities of session dictionaries, reused when free
  NoObject,     \* no session
  Loop,         \* the event loop
  Cleaner,      \* the thread of session_cleanup_loop
  Pollers,      \* threads that answer GET /api/auth/status
  Refreshers,   \* background refreshes of a profile card
  TTL,          \* CFG.SESSION_TTL
  MaxTime,      \* bound: last instant of the clock
  MaxCrashes,   \* bound: how often the server is killed and restarted
  DbFaults      \* may a statement on the table raise?

Threads == Pollers \cup Refreshers

ASSUME SessionsAssumption ==
  /\ Loop \notin Threads /\ Cleaner \notin Threads /\ Loop # Cleaner
  /\ "nobody" \notin Threads \cup {Loop, Cleaner}
  /\ Pollers \cap Refreshers = {}
  /\ NoObject \notin Objects
  /\ Tokens # {}
  /\ TTL \in Nat /\ MaxTime \in Nat /\ MaxCrashes \in Nat
  /\ DbFaults \in BOOLEAN

VARIABLES
  mem,        \* _sessions: the object of a token, or NoObject
  row,        \* is there a row of web_sessions?
  expires,    \* the time a session ends, fixed at login
  cookie,     \* "none", "login" (not sent yet), "open", "out" (logout answered)
  lock,       \* who holds _sessions_lock across a statement, or Nobody
  pc, tok,    \* where a thread is, and the token it works on
  obj,        \* the object a thread has in hand, or NoObject
  swept,      \* the time the cleanup thread read
  saving,     \* does the session_get of the event loop precede a save?
  now, crashes

stores == <<mem, row, expires>>
procs  == <<pc, tok, obj, saving, swept>>
vars == <<stores, cookie, lock, procs, now, crashes>>

Nobody == "nobody"
Procs == Threads \cup {Loop, Cleaner}
Labels == {"idle", "get", "install", "drop", "save", "write", "create",
           "pop", "delete", "sweep", "dead", "done"}
Locked == {"install", "drop", "write"}   \* between two statements, lock held

(* Every thread is at a label and holds an object, a token, a time; the    *)
(* lock belongs to the thread that is between its two halves.              *)
TypeOK ==
  /\ mem \in [Tokens -> Objects \cup {NoObject}]
  /\ row \in [Tokens -> BOOLEAN]
  /\ expires \in [Tokens -> Nat]
  /\ cookie \in [Tokens -> {"none", "login", "open", "out"}]
  /\ lock \in Procs \cup {Nobody}
  /\ pc \in [Procs -> Labels] /\ tok \in [Procs -> Tokens]
  /\ obj \in [Procs -> Objects \cup {NoObject}]
  /\ saving \in BOOLEAN /\ swept \in Nat
  /\ now \in Nat /\ crashes \in Nat
  /\ \A p \in Procs : lock = p <=> pc[p] \in Locked

SomeToken == CHOOSE t \in Tokens : TRUE

Init ==
  /\ mem = [t \in Tokens |-> NoObject]
  /\ row = [t \in Tokens |-> FALSE]
  /\ expires = [t \in Tokens |-> 0]
  /\ cookie = [t \in Tokens |-> "none"]
  /\ lock = Nobody
  /\ pc = [p \in Procs |-> "idle"]
  /\ tok = [p \in Procs |-> SomeToken]
  /\ obj = [p \in Procs |-> NoObject] /\ saving = FALSE /\ swept = 0
  /\ now = 0 /\ crashes = 0

Expired(t) == expires[t] < now

Held(t) == mem[t] # NoObject

(* Objects nobody refers to; any of them will do for a new dictionary.     *)
Free == {o \in Objects : /\ \A t \in Tokens : mem[t] # o
                         /\ \A p \in Procs : obj[p] # o}
Fresh == {o \in Free : o = CHOOSE f \in Free : TRUE}

Goto(p, l) == pc' = [pc EXCEPT ![p] = l]

Unlock == lock' = Nobody

(* A thread serves one request; the event loop goes on to the next, and    *)
(* what its last handler knew is gone.                                     *)
Return(p) ==
  /\ Goto(p, IF p = Loop THEN "idle" ELSE "done")
  /\ obj' = [obj EXCEPT ![p] = NoObject]
  /\ tok' = IF p = Loop THEN [tok EXCEPT ![p] = SomeToken] ELSE tok
  /\ UNCHANGED saving

Continue(p, l) == Goto(p, l) /\ UNCHANGED <<tok, saving>>

-----------------------------------------------------------------------------
(* session_create, on the event loop: the dictionary, then the table.      *)

CreatePut(t) ==
  /\ pc[Loop] = "idle" /\ lock = Nobody
  /\ cookie[t] = "none"
  /\ cookie' = [cookie EXCEPT ![t] = "login"]
  /\ expires' = [expires EXCEPT ![t] = now + TTL]
  /\ \E o \in Fresh : mem' = [mem EXCEPT ![t] = o]
  /\ tok' = [tok EXCEPT ![Loop] = t]
  /\ Goto(Loop, "create")
  /\ UNCHANGED <<row, lock, obj, saving, swept, now, crashes>>

(* After a fault the request ends in a 500 and the token is never sent.    *)
CreatePersist ==
  /\ pc[Loop] = "create"
  /\ \/ /\ row' = [row EXCEPT ![tok[Loop]] = TRUE]
        /\ cookie' = [cookie EXCEPT ![tok[Loop]] = "open"]
     \/ DbFaults /\ UNCHANGED <<row, cookie>>
  /\ Return(Loop)
  /\ UNCHANGED <<mem, expires, lock, swept, now, crashes>>

-----------------------------------------------------------------------------
(* session_get, by the event loop or by a status poll. *)

(* A browser that holds the cookie, or whose logout is not answered yet,   *)
(* polls; so may a second tab that still sends the old cookie.             *)
StartGet(p, t, save) ==
  /\ pc[p] = "idle"
  /\ cookie[t] = "open" \/ (p \in Pollers /\ cookie[t] = "out")
  /\ saving' = IF p = Loop THEN save ELSE saving
  /\ tok' = [tok EXCEPT ![p] = t]
  /\ Goto(p, "get")
  /\ UNCHANGED <<stores, cookie, lock, obj, swept, now, crashes>>

(* What the event loop does with the session it got.                       *)
Got(p, o) ==
  IF p = Loop /\ saving
    THEN Continue(p, "save") /\ obj' = [obj EXCEPT ![p] = o]
    ELSE Return(p)

(* Take the lock; the dictionary first, else SELECT from the table.        *)
Lookup(p) ==
  /\ pc[p] = "get" /\ lock = Nobody
  /\ LET t == tok[p] IN
     \/ /\ Held(t) /\ ~Expired(t)
        /\ Got(p, mem[t])
        /\ UNCHANGED <<mem, lock>>
     \/ /\ Held(t) /\ Expired(t)
        /\ mem' = [mem EXCEPT ![t] = NoObject]
        /\ lock' = p /\ Continue(p, "drop")
        /\ UNCHANGED obj
     \/ /\ ~Held(t) /\ row[t]
        /\ lock' = p /\ Continue(p, IF Expired(t) THEN "drop" ELSE "install")
        /\ UNCHANGED <<mem, obj>>
     \/ /\ ~Held(t) /\ (~row[t] \/ DbFaults)
        /\ Return(p)
        /\ UNCHANGED <<mem, lock>>
  /\ UNCHANGED <<row, expires, cookie, swept, now, crashes>>

(* The restored object enters the dictionary, whatever became of its row,  *)
(* and leaves it again when it has expired in the meantime.                *)
Install(p) ==
  /\ pc[p] = "install"
  /\ IF Expired(tok[p])
       THEN Continue(p, "drop") /\ UNCHANGED <<mem, lock, obj>>
       ELSE \E o \in Fresh :
              /\ mem' = [mem EXCEPT ![tok[p]] = o]
              /\ Unlock
              /\ Got(p, o)
  /\ UNCHANGED <<row, expires, cookie, swept, now, crashes>>

(* DELETE the row of an expired session. *)
DropRow(p) ==
  /\ pc[p] = "drop"
  /\ row' = [row EXCEPT ![tok[p]] = FALSE] \/ (DbFaults /\ UNCHANGED row)
  /\ Unlock
  /\ Return(p)
  /\ UNCHANGED <<mem, expires, cookie, swept, now, crashes>>

-----------------------------------------------------------------------------
(* _session_persist_if_active: a refresh in a thread, or a handler.        *)

(* A login or a bootstrap on the event loop hands its session to a task,   *)
(* which awaits the portal before it saves.                                *)
StartRefresh(r, t) ==
  /\ pc[r] = "idle" /\ pc[Loop] = "idle"
  /\ cookie[t] = "open" /\ Held(t) /\ ~Expired(t)
  /\ tok' = [tok EXCEPT ![r] = t]
  /\ obj' = [obj EXCEPT ![r] = mem[t]]
  /\ Goto(r, "save")
  /\ UNCHANGED <<stores, cookie, lock, saving, swept, now, crashes>>

ActiveAlways(p) == TRUE             \* mutation: _session_persist at once

Active(p) == mem[tok[p]] = obj[p] /\ ~Expired(tok[p])

(* Is it still the session in the dictionary?  The lock is kept if so.     *)
CheckActive(p) ==
  /\ pc[p] = "save" /\ lock = Nobody
  /\ IF Active(p) THEN lock' = p /\ Continue(p, "write") /\ UNCHANGED obj
                  ELSE Return(p) /\ UNCHANGED lock
  /\ UNCHANGED <<stores, cookie, swept, now, crashes>>

(* INSERT OR REPLACE; copying the object raises when a handler changes it  *)
(* at the same time, and then nothing is written.                          *)
Write(p) ==
  /\ pc[p] = "write"
  /\ row' = [row EXCEPT ![tok[p]] = TRUE] \/ UNCHANGED row
  /\ Unlock
  /\ Return(p)
  /\ UNCHANGED <<mem, expires, cookie, swept, now, crashes>>

-----------------------------------------------------------------------------
(* session_delete, on the event loop: the dictionary, then the table.      *)

StartLogout(t) ==
  /\ pc[Loop] = "idle"
  /\ cookie[t] = "open"
  /\ tok' = [tok EXCEPT ![Loop] = t]
  /\ Goto(Loop, "pop")
  /\ UNCHANGED <<stores, cookie, lock, obj, saving, swept, now, crashes>>

LogoutPop ==
  /\ pc[Loop] = "pop" /\ lock = Nobody
  /\ mem' = [mem EXCEPT ![tok[Loop]] = NoObject]
  /\ Goto(Loop, "delete")
  /\ UNCHANGED <<row, expires, cookie, lock, tok, obj, saving, swept, now, crashes>>

LogoutDelete ==
  /\ pc[Loop] = "delete"
  /\ \/ /\ row' = [row EXCEPT ![tok[Loop]] = FALSE]
        /\ cookie' = [cookie EXCEPT ![tok[Loop]] = "out"]
     \/ DbFaults /\ UNCHANGED <<row, cookie>>
  /\ Return(Loop)
  /\ UNCHANGED <<mem, expires, lock, swept, now, crashes>>

-----------------------------------------------------------------------------
(* session_cleanup_loop: the dictionary under the lock, then the table.    *)

DueInMemory == {t \in Tokens : Expired(t) /\ Held(t)}   \* mutation: no DELETE when memory is clean

Due == {t \in Tokens : Expired(t) /\ (Held(t) \/ row[t])}

SweepMemory ==
  /\ pc[Cleaner] = "idle" /\ lock = Nobody
  /\ Due # {}
  /\ mem' = [t \in Tokens |-> IF Expired(t) THEN NoObject ELSE mem[t]]
  /\ swept' = now
  /\ Goto(Cleaner, "sweep")
  /\ UNCHANGED <<row, expires, cookie, lock, tok, obj, saving, now, crashes>>

SweptLive(t, time) == row[t] /\ expires[t] <= time   \* mutation: <= for <

Swept(t, time) == row[t] /\ expires[t] < time

(* Nothing catches an exception of the loop: a fault ends the thread.      *)
SweepTable ==
  /\ pc[Cleaner] = "sweep"
  /\ \/ /\ row' = [t \in Tokens |-> row[t] /\ ~Swept(t, swept)]
        /\ Goto(Cleaner, "idle")
     \/ DbFaults /\ Goto(Cleaner, "dead") /\ UNCHANGED row
  /\ swept' = 0
  /\ UNCHANGED <<mem, expires, cookie, lock, tok, obj, saving, now, crashes>>

-----------------------------------------------------------------------------
(* The environment. *)

Tick ==
  /\ now < MaxTime
  /\ now' = now + 1
  /\ UNCHANGED <<stores, cookie, lock, procs, crashes>>

(* The process is killed and started again: the dictionary is empty.       *)
Crash ==
  /\ crashes < MaxCrashes
  /\ crashes' = crashes + 1
  /\ mem' = [t \in Tokens |-> NoObject]
  /\ lock' = Nobody
  /\ pc' = [p \in Procs |-> IF p \in {Loop, Cleaner} \/ pc[p] = "idle"
                            THEN "idle" ELSE "done"]
  /\ obj' = [p \in Procs |-> NoObject]
  /\ tok' = [tok EXCEPT ![Loop] = SomeToken] /\ swept' = 0
  /\ UNCHANGED <<row, expires, cookie, saving, now>>

Finished ==
  /\ pc[Loop] = "idle" /\ pc[Cleaner] \in {"idle", "dead"}
  /\ \A p \in Threads : pc[p] \in {"idle", "done"}
  /\ now = MaxTime
  /\ (Due = {} \/ pc[Cleaner] = "dead")
  /\ UNCHANGED vars

GetStep(p) == Lookup(p) \/ Install(p) \/ DropRow(p)
SaveStep(p) == CheckActive(p) \/ Write(p)

LoopStep ==
  CreatePersist \/ GetStep(Loop) \/ SaveStep(Loop) \/ LogoutPop \/ LogoutDelete

CleanerStep == SweepMemory \/ SweepTable

ThreadStep(p) == GetStep(p) \/ SaveStep(p)

Next ==
  \/ \E t \in Tokens : CreatePut(t) \/ StartLogout(t)
  \/ \E t \in Tokens, save \in BOOLEAN : StartGet(Loop, t, save)
  \/ \E p \in Pollers, t \in Tokens : StartGet(p, t, FALSE)
  \/ \E r \in Refreshers, t \in Tokens : StartRefresh(r, t)
  \/ LoopStep
  \/ CleanerStep
  \/ \E p \in Threads : ThreadStep(p)
  \/ Tick
  \/ Crash
  \/ Finished

Spec == Init /\ [][Next]_vars

(* The event loop and the threads run, and the clock advances.             *)
Fairness ==
  /\ WF_vars(LoopStep) /\ SF_vars(CleanerStep)
  /\ \A p \in Threads : WF_vars(ThreadStep(p))
  /\ WF_vars(Tick)

FairSpec == Spec /\ Fairness

-----------------------------------------------------------------------------
(* Safety. *)

(* Has a status poll asked for the session in a thread?                    *)
Polled(t) == \E p \in Pollers : pc[p] # "idle" /\ tok[p] = t

(* After the answer to a logout the session is gone from memory and from   *)
(* the table, for good: no refresh and no handler that still has the       *)
(* object in hand brings it back ("Explicit logout does not silently sign  *)
(* back in"); only a poll in a thread that overlapped the logout may.      *)
LogoutIsFinal ==
  \A t \in Tokens : cookie[t] = "out" /\ ~Polled(t) => ~Held(t) /\ ~row[t]

(* A restart signs nobody out: a session the browser holds the cookie of   *)
(* has its row for as long as it is in force, whatever runs beside it.     *)
OpenSessionsAreStored ==
  \A t \in Tokens : cookie[t] = "open" /\ ~Expired(t) => row[t]

(* Liveness. *)

(* An expired session leaves both the memory and the table, as long as the *)
(* table has not ended the cleanup thread.                                 *)
ExpiredAreForgotten ==
  \A t \in Tokens :
    (cookie[t] # "none" /\ Expired(t))
      ~> ((~Held(t) /\ ~row[t]) \/ pc[Cleaner] = "dead")
=============================================================================
