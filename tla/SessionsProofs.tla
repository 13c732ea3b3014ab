--------------------------- MODULE SessionsProofs ---------------------------
(***************************************************************************)
(* What holds of web sessions for every number of logins, polls, refreshes *)
(* and restarts: the row of an open session stays until the session has    *)
(* expired, and a logout is final, unless a status poll in a thread asked  *)
(* for the session.                                                        *)
(*                                                                         *)
(* The second argument needs to know what each thread has in hand: a       *)
(* refresh about to write still finds its object in memory, because it     *)
(* holds the lock since it looked (Writing), and nobody but the event loop *)
(* and the polls can put an object back (Deleting, Cookies).               *)
(***************************************************************************)
EXTENDS Sessions, TLAPS

(* Who the threads are. *)
LEMMA ProcsFacts ==
  /\ Loop \in Procs /\ Cleaner \in Procs /\ Loop # Cleaner
  /\ Pollers \subseteq Procs /\ Refreshers \subseteq Procs
  /\ Threads \subseteq Procs
  /\ Nobody \notin Procs
  /\ \A r \in Refreshers : r \notin Pollers /\ r # Loop /\ r # Cleaner
  /\ \A r \in Threads : r # Loop /\ r # Cleaner
  /\ \A r \in Pollers : r # Loop /\ r # Cleaner /\ r \notin Refreshers
  /\ SomeToken \in Tokens
<1>1. /\ Loop \in Procs /\ Cleaner \in Procs /\ Loop # Cleaner
      /\ Pollers \subseteq Procs /\ Refreshers \subseteq Procs
      /\ Threads \subseteq Procs
  BY SessionsAssumption DEF Procs, Threads
<1>2. Nobody \notin Procs
  BY SessionsAssumption DEF Procs, Nobody
<1>3. \A r \in Threads : r # Loop /\ r # Cleaner
  BY SessionsAssumption
<1>4. \A r \in Refreshers : r \notin Pollers
  BY SessionsAssumption
<1>5. SomeToken \in Tokens
  BY SessionsAssumption DEF SomeToken
<1>6. QED
  BY <1>1, <1>2, <1>3, <1>4, <1>5 DEF Threads

(* The initial state is well typed. *)
LEMMA InitTyped == Init => TypeOK
<1>1. SUFFICES ASSUME Init PROVE TypeOK
  OBVIOUS
<1>2. tok = [p \in Procs |-> SomeToken]
  BY <1>1 DEF Init
<1>3. tok \in [Procs -> Tokens]
  BY <1>2, ProcsFacts
<1>4. \A p \in Procs : lock # p /\ pc[p] \notin Locked
  BY <1>1, ProcsFacts DEF Init, Locked
<1>5. QED
  BY <1>1, <1>3, <1>4 DEF Init, TypeOK, Labels

(* Every variable keeps its type, and the lock its owner, under every step *)
(* of the event loop, the threads and the environment.                     *)
THEOREM TypeCorrect == Spec => []TypeOK
<1>1. Init => TypeOK
  BY InitTyped
<1>2. TypeOK /\ [Next]_vars => TypeOK'
  <2> SUFFICES ASSUME TypeOK, [Next]_vars PROVE TypeOK'
    OBVIOUS
  <2> USE ProcsFacts, SessionsAssumption DEF stores, Goto, TypeOK, Labels, Locked, Unlock
  <2>1. ASSUME NEW t \in Tokens, CreatePut(t) PROVE TypeOK'
    <3>1. mem' \in [Tokens -> Objects \cup {NoObject}]
      BY <2>1 DEF CreatePut, Fresh, Free
    <3>2. QED
      BY <2>1, <3>1 DEF CreatePut
  <2>2. ASSUME CreatePersist PROVE TypeOK'
    BY <2>2 DEF CreatePersist, Return, Continue
  <2>3. ASSUME NEW t \in Tokens, NEW s \in BOOLEAN, StartGet(Loop, t, s)
        PROVE TypeOK'
    BY <2>3 DEF StartGet
  <2>4. ASSUME NEW p \in Procs, Lookup(p) PROVE TypeOK'
    <3>1. /\ tok' \in [Procs -> Tokens] /\ saving' \in BOOLEAN
          /\ obj' \in [Procs -> Objects \cup {NoObject}]
          /\ mem' \in [Tokens -> Objects \cup {NoObject}]
      BY <2>4 DEF Lookup, Got, Return, Continue
    <3>2. /\ pc' \in [Procs -> Labels] /\ lock' \in Procs \cup {Nobody}
          /\ \A q \in Procs : lock' = q <=> pc'[q] \in Locked
      <4>1. PICK l \in Labels : pc' = [pc EXCEPT ![p] = l] /\ (lock' = p <=> l \in Locked)
                                   /\ lock' \in {p, Nobody}
        BY <2>4 DEF Lookup, Got, Return, Continue
      <4>2. \A q \in Procs : q # p => pc[q] \notin Locked
        BY <2>4 DEF Lookup
      <4>3. QED
        BY <4>1, <4>2
    <3>3. QED
      BY <2>4, <3>1, <3>2 DEF Lookup
  <2>5. ASSUME NEW p \in Procs, Install(p) PROVE TypeOK'
    <3>1. CASE Expired(tok[p])
      BY <2>5, <3>1 DEF Install, Continue
    <3>2. CASE ~Expired(tok[p])
      <4>1. PICK o \in Objects : /\ mem' = [mem EXCEPT ![tok[p]] = o]
                                 /\ lock' = Nobody
                                 /\ Got(p, o)
        BY <2>5, <3>2 DEF Install, Fresh, Free
      <4>2. QED
        BY <2>5, <4>1 DEF Install, Got, Return, Continue
    <3>3. QED
      BY <3>1, <3>2
  <2>6. ASSUME NEW p \in Procs, DropRow(p) PROVE TypeOK'
    BY <2>6 DEF DropRow, Return, Continue
  <2>7. ASSUME NEW r \in Refreshers, NEW t \in Tokens, StartRefresh(r, t)
        PROVE TypeOK'
    BY <2>7 DEF StartRefresh
  <2>8. ASSUME NEW p \in Procs, CheckActive(p) PROVE TypeOK'
    <3>1. /\ tok' \in [Procs -> Tokens] /\ saving' \in BOOLEAN
          /\ obj' \in [Procs -> Objects \cup {NoObject}]
      BY <2>8 DEF CheckActive, Return, Continue
    <3>2. /\ pc' \in [Procs -> Labels] /\ lock' \in Procs \cup {Nobody}
          /\ \A q \in Procs : lock' = q <=> pc'[q] \in Locked
      <4>1. PICK l \in Labels : pc' = [pc EXCEPT ![p] = l] /\ (lock' = p <=> l \in Locked)
                                   /\ lock' \in {p, Nobody}
        BY <2>8 DEF CheckActive, Return, Continue
      <4>2. \A q \in Procs : q # p => pc[q] \notin Locked
        BY <2>8 DEF CheckActive
      <4>3. QED
        BY <4>1, <4>2
    <3>3. QED
      BY <2>8, <3>1, <3>2 DEF CheckActive
  <2>9. ASSUME NEW p \in Procs, Write(p) PROVE TypeOK'
    BY <2>9 DEF Write, Return, Continue
  <2>10. ASSUME NEW t \in Tokens, StartLogout(t) PROVE TypeOK'
    BY <2>10 DEF StartLogout
  <2>11. ASSUME LogoutPop PROVE TypeOK'
    BY <2>11 DEF LogoutPop
  <2>12. ASSUME LogoutDelete PROVE TypeOK'
    BY <2>12 DEF LogoutDelete, Return, Continue
  <2>13. ASSUME SweepMemory PROVE TypeOK'
    BY <2>13 DEF SweepMemory
  <2>14. ASSUME SweepTable PROVE TypeOK'
    BY <2>14 DEF SweepTable
  <2>15. ASSUME Tick PROVE TypeOK'
    BY <2>15 DEF Tick, procs
  <2>16. ASSUME Crash PROVE TypeOK'
    <3>1. \A q \in Procs : lock' # q /\ pc'[q] \in {"idle", "done"}
      BY <2>16 DEF Crash
    <3>2. pc' \in [Procs -> Labels] /\ tok' \in [Procs -> Tokens]
      BY <2>16 DEF Crash
    <3>3. \A q \in Procs : lock' = q <=> pc'[q] \in Locked
      BY <3>1
    <3>4. /\ obj' \in [Procs -> Objects \cup {NoObject}] /\ lock' = Nobody
          /\ mem' \in [Tokens -> Objects \cup {NoObject}]
      BY <2>16 DEF Crash
    <3>5. /\ row' \in [Tokens -> BOOLEAN] /\ expires' \in [Tokens -> Nat]
          /\ cookie' \in [Tokens -> {"none", "login", "open", "out"}]
          /\ saving' \in BOOLEAN /\ swept' \in Nat /\ now' \in Nat /\ crashes' \in Nat
      BY <2>16 DEF Crash
    <3>6. QED
      BY <3>2, <3>3, <3>4, <3>5
  <2>17. CASE UNCHANGED vars
    BY <2>17 DEF vars, procs
  <2>18. ASSUME NEW p \in Procs, ThreadStep(p) PROVE TypeOK'
    BY <2>4, <2>5, <2>6, <2>8, <2>9, <2>18 DEF ThreadStep, GetStep, SaveStep
  <2>19. ASSUME LoopStep PROVE TypeOK'
    BY <2>2, <2>4, <2>5, <2>6, <2>8, <2>9, <2>11, <2>12, <2>19
       DEF LoopStep, GetStep, SaveStep
  <2>20. ASSUME NEW p \in Pollers, NEW t \in Tokens, StartGet(p, t, FALSE)
        PROVE TypeOK'
    BY <2>20 DEF StartGet
  <2>21. QED
    BY <2>1, <2>3, <2>7, <2>10, <2>13, <2>14, <2>15, <2>16, <2>17, <2>18, <2>19, <2>20
       DEF Next, CleanerStep, Finished
<1>3. QED
  BY <1>1, <1>2, PTL DEF Spec

-----------------------------------------------------------------------------
(* A row is only dropped by a thread that saw the session expired, and only *)
(* swept against a time that has passed.                                   *)
Dropping == \A p \in Procs : pc[p] = "drop" => Expired(tok[p])

StoredInv ==
  /\ TypeOK
  /\ Dropping
  /\ swept <= now
  /\ OpenSessionsAreStored

(* A restart signs nobody out: the row of an open session in force is      *)
(* there, whatever the event loop, polls, refreshes and cleanup do.        *)
THEOREM SessionsAreStored == Spec => []OpenSessionsAreStored
<1>1. Init => StoredInv
  <2> SUFFICES ASSUME Init PROVE StoredInv
    OBVIOUS
  <2>1. TypeOK
    BY InitTyped
  <2>2. QED
    BY <2>1 DEF Init, StoredInv, Dropping, OpenSessionsAreStored
<1>2. StoredInv /\ TypeOK' /\ [Next]_vars => StoredInv'
  <2> SUFFICES ASSUME StoredInv, TypeOK', [Next]_vars PROVE StoredInv'
    OBVIOUS
  <2> USE ProcsFacts, SessionsAssumption
      DEF stores, Goto, TypeOK, Labels, Locked, Unlock, StoredInv, Dropping,
          OpenSessionsAreStored, Expired
  <2>1. ASSUME NEW t \in Tokens, CreatePut(t) PROVE StoredInv'
    <3>1. \A p \in Procs : pc[p] # "drop"
      BY <2>1 DEF CreatePut
    <3>2. QED
      BY <2>1, <3>1 DEF CreatePut
  <2>2. ASSUME CreatePersist PROVE StoredInv'
    BY <2>2 DEF CreatePersist, Return, Continue
  <2>3. ASSUME NEW p \in Pollers \cup {Loop}, NEW t \in Tokens, NEW s \in BOOLEAN,
               StartGet(p, t, s)
        PROVE StoredInv'
    BY <2>3 DEF StartGet
  <2>4. ASSUME NEW p \in Procs, Lookup(p) PROVE StoredInv'
    BY <2>4 DEF Lookup, Got, Return, Continue
  <2>5. ASSUME NEW p \in Procs, Install(p) PROVE StoredInv'
    <3>1. CASE Expired(tok[p])
      BY <2>5, <3>1 DEF Install, Continue
    <3>2. CASE ~Expired(tok[p])
      <4>1. PICK o \in Objects : Got(p, o)
        BY <2>5, <3>2 DEF Install, Fresh, Free
      <4>2. QED
        BY <2>5, <4>1 DEF Install, Got, Return, Continue
    <3>3. QED
      BY <3>1, <3>2
  <2>6. ASSUME NEW p \in Procs, DropRow(p) PROVE StoredInv'
    BY <2>6 DEF DropRow, Return, Continue
  <2>7. ASSUME NEW r \in Refreshers, NEW t \in Tokens, StartRefresh(r, t)
        PROVE StoredInv'
    BY <2>7 DEF StartRefresh
  <2>8. ASSUME NEW p \in Procs, CheckActive(p) PROVE StoredInv'
    BY <2>8 DEF CheckActive, Return, Continue
  <2>9. ASSUME NEW p \in Procs, Write(p) PROVE StoredInv'
    BY <2>9 DEF Write, Return, Continue
  <2>10. ASSUME NEW t \in Tokens, StartLogout(t) PROVE StoredInv'
    BY <2>10 DEF StartLogout
  <2>11. ASSUME LogoutPop PROVE StoredInv'
    BY <2>11 DEF LogoutPop
  <2>12. ASSUME LogoutDelete PROVE StoredInv'
    BY <2>12 DEF LogoutDelete, Return, Continue
  <2>13. ASSUME SweepMemory PROVE StoredInv'
    BY <2>13 DEF SweepMemory
  <2>14. ASSUME SweepTable PROVE StoredInv'
    <3>1. \A t \in Tokens : Swept(t, swept) => Expired(t)
      BY DEF Swept
    <3>2. QED
      BY <2>14, <3>1 DEF SweepTable
  <2>15. ASSUME Tick PROVE StoredInv'
    BY <2>15 DEF Tick, procs
  <2>16. ASSUME Crash PROVE StoredInv'
    BY <2>16 DEF Crash
  <2>17. CASE UNCHANGED vars
    BY <2>17 DEF vars, procs
  <2> HIDE DEF StoredInv
  <2>18. ASSUME NEW p \in Procs, ThreadStep(p) PROVE StoredInv'
    BY <2>4, <2>5, <2>6, <2>8, <2>9, <2>18 DEF ThreadStep, GetStep, SaveStep
  <2>19. ASSUME LoopStep PROVE StoredInv'
    BY <2>2, <2>4, <2>5, <2>6, <2>8, <2>9, <2>11, <2>12, <2>19
       DEF LoopStep, GetStep, SaveStep
  <2>20. ASSUME NEW p \in Pollers \cup {Loop}, NEW t \in Tokens,
                \E s \in BOOLEAN : StartGet(p, t, s)
         PROVE  StoredInv'
    BY <2>3, <2>20
  <2> HIDE DEF stores, Goto, TypeOK, Labels, Locked, Unlock, Dropping,
               OpenSessionsAreStored, Expired
  <2>21. QED
    BY <2>1, <2>7, <2>10, <2>13, <2>14, <2>15, <2>16, <2>17, <2>18, <2>19, <2>20
       DEF Next, CleanerStep, Finished
<1>3. StoredInv => OpenSessionsAreStored
  BY DEF StoredInv
<1>4. QED
  BY <1>1, <1>2, <1>3, TypeCorrect, PTL DEF Spec

-----------------------------------------------------------------------------
(* The cookie the event loop is at work on. *)
Cookies ==
  /\ pc[Loop] = "create" => cookie[tok[Loop]] = "login"
  /\ pc[Loop] \notin {"idle", "create"} => cookie[tok[Loop]] = "open"

(* Between the two halves of a logout the session is not in memory. *)
Deleting == pc[Loop] = "delete" /\ ~Polled(tok[Loop]) => ~Held(tok[Loop])

(* A refresh saves an object, and writes the one that is in memory. *)
Writing ==
  \A p \in Procs : /\ pc[p] \in {"save", "write"} => obj[p] # NoObject
                   /\ pc[p] = "write" => mem[tok[p]] = obj[p]

(* Only the event loop and the polls run session_get. *)
Getters ==
  \A p \in Procs : pc[p] \in {"get", "install", "drop"} => p \in Pollers \cup {Loop}

LogoutInv ==
  /\ TypeOK
  /\ Cookies /\ Deleting /\ Writing /\ Getters
  /\ LogoutIsFinal

(* A poll is never forgotten: its thread serves nothing else. *)
LEMMA PolledStays ==
  ASSUME TypeOK, Next, NEW t \in Tokens, Polled(t)
  PROVE  Polled(t)'
<1>1. PICK p \in Pollers : pc[p] # "idle" /\ tok[p] = t
  BY DEF Polled
<1> USE ProcsFacts DEF Goto, TypeOK
<1>2. ASSUME NEW q \in Procs, Lookup(q) \/ Install(q) \/ DropRow(q) \/ CheckActive(q) \/ Write(q)
      PROVE  pc'[p] # "idle" /\ tok'[p] = t
  BY <1>1, <1>2 DEF Lookup, Install, DropRow, CheckActive, Write, Got, Return, Continue
<1>3. ASSUME CreatePersist \/ LogoutPop \/ LogoutDelete
      PROVE  pc'[p] # "idle" /\ tok'[p] = t
  BY <1>1, <1>3 DEF CreatePersist, LogoutPop, LogoutDelete, Return
<1>4. ASSUME NEW u \in Tokens, CreatePut(u) \/ StartLogout(u)
      PROVE  pc'[p] # "idle" /\ tok'[p] = t
  BY <1>1, <1>4 DEF CreatePut, StartLogout
<1>5. ASSUME NEW q \in Procs, NEW u \in Tokens, NEW s \in BOOLEAN,
             StartGet(q, u, s) \/ StartRefresh(q, u)
      PROVE  pc'[p] # "idle" /\ tok'[p] = t
  BY <1>1, <1>5 DEF StartGet, StartRefresh
<1>6. ASSUME SweepMemory \/ SweepTable \/ Tick \/ Crash \/ Finished
      PROVE  pc'[p] # "idle" /\ tok'[p] = t
  BY <1>1, <1>6 DEF SweepMemory, SweepTable, Tick, Crash, Finished, vars, procs
<1>7. pc'[p] # "idle" /\ tok'[p] = t
  <2> HIDE DEF Goto, TypeOK
  <2> QED BY <1>2, <1>3, <1>4, <1>5, <1>6
     DEF Next, LoopStep, CleanerStep, ThreadStep, GetStep, SaveStep
<1>8. QED
  BY <1>7 DEF Polled

(* An answered logout is final unless a poll in a thread asked for the     *)
(* session: no refresh, no crash, no failed statement brings it back.      *)
THEOREM LogoutHolds == Spec => []LogoutIsFinal
<1>1. Init => LogoutInv
  <2> SUFFICES ASSUME Init PROVE LogoutInv
    OBVIOUS
  <2>1. TypeOK
    BY InitTyped
  <2>2. QED
    BY <2>1, ProcsFacts
       DEF Init, LogoutInv, Cookies, Deleting, Writing, Getters, LogoutIsFinal
<1>2. LogoutInv /\ TypeOK' /\ [Next]_vars => LogoutInv'
  <2> SUFFICES ASSUME LogoutInv, TypeOK', [Next]_vars PROVE LogoutInv'
    OBVIOUS
  <2> USE ProcsFacts, SessionsAssumption
      DEF stores, Goto, TypeOK, Labels, Locked, Unlock, LogoutInv, Cookies, Deleting,
          Writing, Getters, LogoutIsFinal, Held
  <2>20. \A t \in Tokens : Polled(t) => Polled(t)'
    BY PolledStays DEF vars, procs, Polled
  <2>21. \A p \in Procs : /\ pc[p] \in {"get", "install", "drop"} => p = Loop \/ Polled(tok[p])
                          /\ pc[p] \in {"save", "write"} => obj[p] # NoObject
    BY DEF Polled
  <2>1. ASSUME NEW t \in Tokens, CreatePut(t) PROVE LogoutInv'
    <3>1. PICK o \in Objects : mem' = [mem EXCEPT ![t] = o]
      BY <2>1, <2>20, <2>21 DEF CreatePut, Fresh, Free
    <3>2. \A p \in Procs : pc[p] # "write"
      BY <2>1, <2>20, <2>21 DEF CreatePut
    <3>3. QED
      BY <2>1, <2>20, <2>21, <3>1, <3>2 DEF CreatePut
  <2>2. ASSUME CreatePersist PROVE LogoutInv'
    BY <2>2, <2>20, <2>21 DEF CreatePersist, Return, Continue
  <2>3. ASSUME NEW t \in Tokens, NEW s \in BOOLEAN, StartGet(Loop, t, s)
        PROVE LogoutInv'
    BY <2>3, <2>20, <2>21 DEF StartGet
  <2>4. ASSUME NEW p \in Procs, Lookup(p) PROVE LogoutInv'
    BY <2>4, <2>20, <2>21 DEF Lookup, Got, Return, Continue
  <2>5. ASSUME NEW p \in Procs, Install(p) PROVE LogoutInv'
    <3>1. (p = Loop \/ Polled(tok[p])) /\ \A q \in Procs : pc[q] # "write"
      BY <2>5, <2>20, <2>21 DEF Install, Continue
    <3>2. CASE Expired(tok[p])
      BY <2>5, <2>20, <2>21, <3>1, <3>2 DEF Install, Continue
    <3>3. CASE ~Expired(tok[p])
      <4>1. PICK o \in Objects : /\ mem' = [mem EXCEPT ![tok[p]] = o]
                                 /\ lock' = Nobody
                                 /\ Got(p, o)
        BY <2>5, <2>20, <2>21, <3>3 DEF Install, Fresh, Free
      <4>2. QED
        BY <2>5, <2>20, <2>21, <3>1, <4>1 DEF Install, Got, Return, Continue
    <3>4. QED
      BY <3>2, <3>3
  <2>6. ASSUME NEW p \in Procs, DropRow(p) PROVE LogoutInv'
    BY <2>6, <2>20, <2>21 DEF DropRow, Return, Continue
  <2>7. ASSUME NEW r \in Refreshers, NEW t \in Tokens, StartRefresh(r, t)
        PROVE LogoutInv'
    BY <2>7, <2>20, <2>21 DEF StartRefresh
  <2>8. ASSUME NEW p \in Procs, CheckActive(p) PROVE LogoutInv'
    BY <2>8, <2>20, <2>21 DEF CheckActive, Active, Return, Continue
  <2>9. ASSUME NEW p \in Procs, Write(p) PROVE LogoutInv'
    <3>1. Held(tok[p]) /\ (cookie[tok[p]] # "out" \/ Polled(tok[p]))
      BY <2>9, <2>20, <2>21 DEF Write
    <3>2. QED
      BY <2>9, <2>20, <2>21, <3>1 DEF Write, Return, Continue
  <2>10. ASSUME NEW t \in Tokens, StartLogout(t) PROVE LogoutInv'
    BY <2>10, <2>20, <2>21 DEF StartLogout
  <2>11. ASSUME LogoutPop PROVE LogoutInv'
    <3>1. \A p \in Procs : pc[p] # "write"
      BY <2>11, <2>20, <2>21 DEF LogoutPop
    <3>2. QED
      BY <2>11, <2>20, <2>21, <3>1 DEF LogoutPop
  <2>12. ASSUME LogoutDelete PROVE LogoutInv'
    BY <2>12, <2>20, <2>21 DEF LogoutDelete, Return, Continue
  <2>13. ASSUME SweepMemory PROVE LogoutInv'
    <3>1. \A p \in Procs : pc[p] # "write"
      BY <2>13, <2>20, <2>21 DEF SweepMemory
    <3>2. QED
      BY <2>13, <2>20, <2>21, <3>1 DEF SweepMemory
  <2>14. ASSUME SweepTable PROVE LogoutInv'
    BY <2>14, <2>20, <2>21 DEF SweepTable
  <2>15. ASSUME Tick PROVE LogoutInv'
    BY <2>15, <2>20, <2>21 DEF Tick, procs
  <2>16. ASSUME Crash PROVE LogoutInv'
    BY <2>16, <2>20, <2>21 DEF Crash
  <2>17. CASE UNCHANGED vars
    BY <2>17, <2>20, <2>21 DEF vars, procs
  <2>22. ASSUME NEW p \in Pollers, NEW t \in Tokens, StartGet(p, t, FALSE) PROVE LogoutInv'
    <3>1. /\ p \in Procs /\ p # Loop /\ UNCHANGED <<mem, row, cookie, obj>>
          /\ pc' = [pc EXCEPT ![p] = "get"] /\ tok' = [tok EXCEPT ![p] = t]
      BY <2>22 DEF StartGet
    <3>2. \A q \in Procs : q # p => pc'[q] = pc[q] /\ tok'[q] = tok[q]
      BY <3>1
    <3>3. pc'[p] = "get" /\ tok'[p] = t /\ Polled(t)'
      BY <3>1 DEF Polled
    <3>4. Cookies' /\ LogoutIsFinal'
      BY <2>20, <3>1
    <3>5. Deleting' /\ Writing'
      BY <2>20, <3>1, <3>2, <3>3
    <3>6. Getters'
      BY <2>20, <3>1, <3>2, <3>3
    <3>7. QED
      BY <3>4, <3>5, <3>6
  <2> HIDE DEF stores, Goto, TypeOK, Labels, Locked, Unlock, LogoutInv, Cookies,
               Deleting, Writing, Getters, LogoutIsFinal, Held
  <2>18. QED
    BY <2>22, <2>1, <2>2, <2>3, <2>4, <2>5, <2>6, <2>7, <2>8, <2>9, <2>10, <2>11, <2>12,
       <2>13, <2>14, <2>15, <2>16, <2>17
       DEF Next, LoopStep, CleanerStep, ThreadStep, GetStep, SaveStep, Finished
<1>3. LogoutInv => LogoutIsFinal
  BY DEF LogoutInv
<1>4. QED
  BY <1>1, <1>2, <1>3, TypeCorrect, PTL DEF Spec
=============================================================================
