-------------------------- MODULE SieveSyncProofs --------------------------
(***************************************************************************)
(* Proofs about the lock table (UserLocks), and that the synchronisation   *)
(* of the filters (SieveSync) uses it as the table allows: its steps are   *)
(* steps of the table or leave it alone, so that what is proved of the     *)
(* table alone holds of the whole.                                         *)
(*                                                                         *)
(* The argument for the settings: who uploads carries what the tables say, *)
(* but for rules whose request is still to read, an outcome is recorded    *)
(* for what was uploaded, and unless somebody is still to read or uploads, *)
(* or something is not shown as applied, everything runs (SyncInv).  A     *)
(* folder about to be removed is named by no enabled rule, and a rule      *)
(* about to be written names a folder that is there (Filed).               *)
(***************************************************************************)
EXTENDS SieveSync, FiniteSetTheorems, TLAPS

(* What the threads in flight know of the table.  An entry in use is in    *)
(* the table, under the user of whoever uses it.                           *)
Custody ==
  /\ \A t \in Threads : at[t] = "out" <=> mine[t] = Nobody
  /\ \A t \in Threads : mine[t] # Nobody => table[UserOf[t]] = mine[t]
  /\ \A t \in Threads : Inside(t) => holder[mine[t]] = t
  /\ \A u \in Users : table[u] # Nobody => UserOf[table[u]] = u

LocksInv == LocksTypeOK /\ Custody

(* What becomes of the table when a thread makes an entry: it gains the    *)
(* thread's, and may lose one that was evictable.                          *)
LEMMA Growth ==
  ASSUME LocksAssumption, LocksInv, NEW t \in Threads,
         table[UserOf[t]] = Nobody, NewEntry(t)
  PROVE  /\ table' \in [Users -> Threads \cup {Nobody}]
         /\ table'[UserOf[t]] = t
         /\ \A u \in Users \ {UserOf[t]} :
              table'[u] = table[u] \/ (table'[u] = Nobody /\ Evictable(u))
  BY DEF LocksAssumption, LocksInv, LocksTypeOK, NewEntry, Evictable

(* The custody invariant is inductive.                                     *)
LEMMA LocksInductive ==
  ASSUME LocksAssumption, LocksInv, [LocksNext]_lockVars
  PROVE  LocksInv'
<1> USE DEF LocksInv, LocksTypeOK
<1>1. ASSUME NEW t \in Threads, Take(t) PROVE LocksInv'
  <2>1. CASE table[UserOf[t]] # Nobody
    BY <1>1, <2>1 DEF Take, Custody, Inside, Places, LocksAssumption
  <2>2. CASE table[UserOf[t]] = Nobody
    <3>1. NewEntry(t) /\ mine' = [mine EXCEPT ![t] = t]
          /\ at' = [at EXCEPT ![t] = "wait"] /\ holder' = holder /\ at[t] = "out"
      BY <1>1, <2>2 DEF Take
    <3>2. /\ table' \in [Users -> Threads \cup {Nobody}]
          /\ table'[UserOf[t]] = t
          /\ \A u \in Users \ {UserOf[t]} :
               table'[u] = table[u] \/ (table'[u] = Nobody /\ Evictable(u))
      BY <2>2, <3>1, Growth
    <3>3. LocksTypeOK'
      BY <3>1, <3>2 DEF Places
    <3>4. ASSUME NEW q \in Threads, mine'[q] # Nobody
          PROVE  table'[UserOf[q]] = mine'[q]
      <4>1. CASE q = t
        BY <3>1, <3>2, <4>1
      <4>2. CASE q # t
        <5>1. mine[q] # Nobody /\ table[UserOf[q]] = mine[q]
          BY <3>1, <3>4, <4>2 DEF Custody
        <5>2. UserOf[q] # UserOf[t] /\ UserOf[q] \in Users /\ ~Evictable(UserOf[q])
          BY <2>2, <5>1 DEF Evictable, Used, LocksAssumption
        <5> QED
          BY <3>1, <3>2, <4>2, <5>1, <5>2
      <4> QED BY <4>1, <4>2
    <3>5. Custody'
      <4>1. \A q \in Threads : at'[q] = "out" <=> mine'[q] = Nobody
        BY <3>1 DEF Custody, LocksAssumption
      <4>2. \A q \in Threads : Inside(q)' => holder'[mine'[q]] = q
        BY <3>1 DEF Custody, Inside
      <4>3. \A u \in Users : table'[u] # Nobody => UserOf[table'[u]] = u
        BY <3>2 DEF Custody
      <4> QED BY <3>4, <4>1, <4>2, <4>3 DEF Custody
    <3> QED BY <3>3, <3>5
  <2> QED BY <2>1, <2>2
<1>2. ASSUME NEW t \in Threads, Enter(t) PROVE LocksInv'
  BY <1>2 DEF Enter, Custody, Inside, Places, LocksAssumption
<1>3. ASSUME NEW t \in Threads, Reenter(t) PROVE LocksInv'
  BY <1>3 DEF Reenter, Custody, Inside, Places, LocksAssumption
<1>4. ASSUME NEW t \in Threads, LeaveInner(t) PROVE LocksInv'
  BY <1>4 DEF LeaveInner, Custody, Inside, Places, LocksAssumption
<1>5. ASSUME NEW t \in Threads, Unlock(t) PROVE LocksInv'
  BY <1>5 DEF Unlock, Custody, Inside, Places, LocksAssumption
<1>6. ASSUME NEW t \in Threads, PutBack(t) PROVE LocksInv'
  <2>1. CASE StaysInTable(t)
    BY <1>6, <2>1 DEF PutBack, Custody, Inside, Places, LocksAssumption
  <2>2. CASE ~StaysInTable(t)
    <3>1. \A q \in Threads \ {t} : mine[q] # mine[t]
      BY <2>2 DEF StaysInTable
    <3>2. mine[t] # Nobody /\ table[UserOf[t]] = mine[t]
      BY <1>6 DEF PutBack, Custody
    <3>3. \A q \in Threads \ {t} : mine[q] # Nobody => UserOf[q] # UserOf[t]
      BY <3>1, <3>2 DEF Custody
    <3> QED
      BY <1>6, <2>2, <3>3 DEF PutBack, Custody, Inside, Places, LocksAssumption
  <2> QED BY <2>1, <2>2
<1>7. ASSUME Forget PROVE LocksInv'
  BY <1>7 DEF Forget, Custody, Inside, Places, LocksAssumption
<1>8. ASSUME UNCHANGED lockVars PROVE LocksInv'
  BY <1>8 DEF lockVars, Custody, Inside
<1> QED
  BY <1>1, <1>2, <1>3, <1>4, <1>5, <1>6, <1>7, <1>8 DEF LocksNext

(* The lock table starts in custody.                                       *)
LEMMA LocksInitial ==
  ASSUME LocksAssumption, LocksInit
  PROVE  LocksInv
  BY DEF LocksAssumption, LocksInit, LocksInv, LocksTypeOK, Custody, Inside, Places

(* Custody is exclusion: two threads of one user have the same entry in    *)
(* hand, and an entry has one owner.                                       *)
LEMMA CustodyExcludes ==
  ASSUME LocksAssumption, LocksInv
  PROVE  Exclusion
<1> SUFFICES ASSUME NEW s \in Threads, NEW t \in Threads, s # t,
                    UserOf[s] = UserOf[t], Inside(s), Inside(t)
             PROVE  FALSE
  BY DEF Exclusion
<1>1. mine[s] # Nobody /\ mine[t] # Nobody
  BY DEF LocksInv, Custody, Inside
<1>2. mine[s] = mine[t]
  BY <1>1 DEF LocksInv, Custody
<1> QED
  BY <1>2 DEF LocksInv, Custody

(* A step that leaves the entries in use alone, and gives none up, keeps   *)
(* the table within its limit wherever it was.                             *)
LEMMA SameEntriesBounded ==
  ASSUME TableBounded, table' = table,
         \A u \in Users : Evictable(u)' => Evictable(u)
  PROVE  TableBounded'
  BY DEF TableBounded, Kept

(* The limit of the table is inductive with the custody: the table grows   *)
(* past it only while every entry is in use, and whoever leaves an entry   *)
(* behind leaves it to another user or takes it out.                       *)
LEMMA BoundInductive ==
  ASSUME LocksAssumption, LocksInv, TableBounded, [LocksNext]_lockVars
  PROVE  TableBounded'
<1> USE DEF LocksInv, LocksTypeOK
<1>0. IsFiniteSet(Kept) /\ Cardinality(Kept) \in Nat
  BY FS_Subset, FS_CardinalityType DEF Kept, LocksAssumption
<1>1. ASSUME NEW t \in Threads, Take(t) PROVE TableBounded'
  <2>1. CASE table[UserOf[t]] # Nobody
    <3>1. table' = table /\ mine' = [mine EXCEPT ![t] = table[UserOf[t]]] /\ mine[t] = Nobody
      BY <1>1, <2>1 DEF Take, Custody
    <3>2. \A u \in Users : Evictable(u)' => Evictable(u)
      BY <3>1 DEF Evictable, Used
    <3> QED BY <3>1, <3>2, SameEntriesBounded
  <2>2. CASE table[UserOf[t]] = Nobody
    <3>1. NewEntry(t) /\ mine' = [mine EXCEPT ![t] = t] /\ mine[t] = Nobody
      BY <1>1, <2>2 DEF Take, Custody
    <3>2. /\ table' \in [Users -> Threads \cup {Nobody}]
          /\ table'[UserOf[t]] = t
          /\ \A u \in Users \ {UserOf[t]} :
               table'[u] = table[u] \/ (table'[u] = Nobody /\ Evictable(u))
      BY <2>2, <3>1, Growth
    <3>3. UserOf[t] \in Users /\ UserOf[t] \notin Kept /\ t # Nobody
      BY <2>2 DEF LocksAssumption, Kept
    <3>4. \A u \in Users : Evictable(u)' => Evictable(u)
      <4> SUFFICES ASSUME NEW u \in Users, Evictable(u)' PROVE Evictable(u)
        OBVIOUS
      <4>1. u # UserOf[t]
        BY <3>1, <3>2 DEF Evictable, Used
      <4>2. table'[u] = table[u] /\ table[u] # Nobody
        BY <3>2, <4>1 DEF Evictable
      <4> QED
        BY <3>1, <4>2 DEF Evictable, Used
    <3>5. CASE Cardinality(Kept) >= MaxLocks /\ \E u \in Users : Evictable(u)
      <4>1. PICK u \in Users : Evictable(u)
              /\ table' = [[table EXCEPT ![UserOf[t]] = t] EXCEPT ![u] = Nobody]
        BY <3>1, <3>5 DEF NewEntry
      <4>2. u \in Kept /\ u # UserOf[t]
        BY <3>3, <4>1 DEF Evictable, Kept
      <4>3. Kept' = (Kept \ {u}) \cup {UserOf[t]}
        BY <3>3, <4>1, <4>2 DEF Kept
      <4>4. Cardinality(Kept \ {u}) = Cardinality(Kept) - 1 /\ IsFiniteSet(Kept \ {u})
        BY <1>0, <4>2, FS_RemoveElement
      <4>5. Cardinality(Kept') = Cardinality(Kept)
        <5>1. UserOf[t] \notin Kept \ {u}
          BY <3>3
        <5>2. Cardinality((Kept \ {u}) \cup {UserOf[t]}) = Cardinality(Kept \ {u}) + 1
          BY <4>4, <5>1, FS_AddElement
        <5> QED
          BY <1>0, <4>3, <4>4, <5>2
      <4>6. Cardinality(Kept) <= MaxLocks
        BY <3>5 DEF TableBounded
      <4> QED
        BY <4>5, <4>6 DEF TableBounded
    <3>6. CASE Cardinality(Kept) < MaxLocks
      <4>1. table' = [table EXCEPT ![UserOf[t]] = t]
        BY <1>0, <3>1, <3>6 DEF NewEntry, LocksAssumption
      <4>2. Kept' = Kept \cup {UserOf[t]}
        BY <3>3, <4>1 DEF Kept
      <4>3. Cardinality(Kept') = Cardinality(Kept) + 1
        BY <1>0, <3>3, <4>2, FS_AddElement
      <4>4. Cardinality(Kept') <= MaxLocks
        BY <1>0, <3>6, <4>3 DEF LocksAssumption
      <4> QED
        BY <4>4 DEF TableBounded
    <3>7. CASE ~\E u \in Users : Evictable(u)
      BY <3>4, <3>7 DEF TableBounded
    <3> QED
      BY <1>0, <3>5, <3>6, <3>7 DEF LocksAssumption
  <2> QED BY <2>1, <2>2
<1>2. ASSUME NEW t \in Threads, Enter(t) \/ Reenter(t) \/ LeaveInner(t) \/ Unlock(t)
      PROVE  TableBounded'
  <2>1. table' = table /\ mine' = mine
    BY <1>2 DEF Enter, Reenter, LeaveInner, Unlock
  <2> QED
    BY <2>1, SameEntriesBounded DEF Evictable, Used
<1>3. ASSUME NEW t \in Threads, PutBack(t) PROVE TableBounded'
  <2>1. mine' = [mine EXCEPT ![t] = Nobody] /\ mine[t] # Nobody /\ table[UserOf[t]] = mine[t]
    BY <1>3 DEF PutBack, Custody
  <2>2. CASE StaysInTable(t)
    <3>1. table' = table
      BY <1>3, <2>2 DEF PutBack
    <3>2. CASE Cardinality(Kept) <= MaxLocks
      BY <3>1, <3>2 DEF TableBounded, Kept
    <3>3. CASE \E q \in Threads \ {t} : mine[q] = mine[t]
      <4>1. \A u \in Users : Evictable(u)' => Evictable(u)
        BY <2>1, <3>1, <3>3 DEF Evictable, Used
      <4> QED BY <3>1, <4>1, SameEntriesBounded
    <3> QED BY <2>2, <3>2, <3>3 DEF StaysInTable
  <2>3. CASE ~StaysInTable(t)
    <3>1. table' = [table EXCEPT ![UserOf[t]] = Nobody]
      BY <1>3, <2>3 DEF PutBack
    <3>2. ~\E u \in Users : Evictable(u)
      BY <1>0, <2>3 DEF TableBounded, StaysInTable, LocksAssumption
    <3>3. ASSUME NEW u \in Users, Evictable(u)' PROVE FALSE
      <4>1. u # UserOf[t] /\ table[u] # Nobody /\ table'[u] = table[u]
        BY <3>1, <3>3 DEF Evictable
      <4>2. Used(table[u])
        BY <3>2, <4>1 DEF Evictable
      <4>3. table[u] = mine[t]
        BY <2>1, <3>3, <4>1, <4>2 DEF Evictable, Used
      <4> QED
        BY <2>1, <4>1, <4>3 DEF Custody, LocksAssumption
    <3> QED BY <3>3 DEF TableBounded
  <2> QED BY <2>2, <2>3
<1>4. ASSUME Forget PROVE TableBounded'
  BY <1>4 DEF Forget, TableBounded, Evictable
<1>5. ASSUME UNCHANGED lockVars PROVE TableBounded'
  BY <1>5 DEF lockVars, TableBounded, Kept, Evictable, Used
<1> QED
  BY <1>1, <1>2, <1>3, <1>4, <1>5 DEF LocksNext

(* The table's types, for every number of threads, users and entries.      *)
THEOREM LocksTypeCorrect ==
  ASSUME LocksAssumption
  PROVE  LocksSpec => []LocksTypeOK
<1>1. LocksInit => LocksInv
  BY LocksInitial
<1>2. LocksInv /\ [LocksNext]_lockVars => LocksInv'
  BY LocksInductive
<1>3. LocksInv => LocksTypeOK
  BY DEF LocksInv
<1> QED
  BY <1>1, <1>2, <1>3, PTL DEF LocksSpec

(* Two threads of one user are never inside together: an entry is given    *)
(* up, or taken out of the table, only when nobody has it in hand.         *)
THEOREM LocksExclude ==
  ASSUME LocksAssumption
  PROVE  LocksSpec => []Exclusion
<1>1. LocksInit => LocksInv
  BY LocksInitial
<1>2. LocksInv /\ [LocksNext]_lockVars => LocksInv'
  BY LocksInductive
<1>3. LocksInv => Exclusion
  BY CustodyExcludes
<1> QED
  BY <1>1, <1>2, <1>3, PTL DEF LocksSpec

(* The table is back within its limit when the threads have left.          *)
THEOREM LocksBounded ==
  ASSUME LocksAssumption
  PROVE  LocksSpec => []TableBounded
<1>1. LocksInit => LocksInv /\ TableBounded
  BY LocksInitial DEF LocksInit, TableBounded, Evictable
<1>2. LocksInv /\ TableBounded /\ [LocksNext]_lockVars => (LocksInv /\ TableBounded)'
  BY LocksInductive, BoundInductive
<1> QED
  BY <1>1, <1>2, PTL DEF LocksSpec

(* The lock table implements one mutex per user: with the custody, whoever *)
(* gets the lock of its entry finds no other thread of its user inside.    *)
THEOREM LocksAreMutexes ==
  ASSUME LocksAssumption
  PROVE  LocksSpec => ImplementsMutex
<1> DEFINE In == {t \in Threads : Inside(t)}
<1>1. LocksInit => Mutex!MutexInit
  BY DEF LocksInit, Mutex!MutexInit, Inside
<1>2. LocksInv /\ LocksInv' /\ [LocksNext]_lockVars => [Mutex!MutexNext]_In
  <2> SUFFICES ASSUME LocksInv, LocksInv', [LocksNext]_lockVars
               PROVE  Mutex!MutexNext \/ In' = In
    OBVIOUS
  <2> USE DEF LocksInv, LocksTypeOK, Inside
  <2>1. ASSUME NEW t \in Threads, Enter(t) PROVE Mutex!Come(t)
    <3>1. at' = [at EXCEPT ![t] = "in"] /\ Inside(t)' /\ at[t] = "wait"
      BY <2>1 DEF Enter
    <3>2. In' = In \cup {t}
      BY <3>1
    <3>3. \A s \in In : s # t /\ Inside(s)'
      BY <3>1
    <3>4. Exclusion'
      <4>1. LocksInv' => Exclusion'
        <5>1. \A s, q \in Threads :
                UserOf[s] = UserOf[q] /\ Inside(s)' /\ Inside(q)' => s = q
          BY LocksAssumption DEF Custody
        <5> QED
          BY <5>1 DEF Exclusion
      <4> QED BY <4>1
    <3>5. \A s \in In : UserOf[s] # UserOf[t]
      BY <3>1, <3>3, <3>4 DEF Exclusion
    <3> QED
      BY <3>2, <3>5 DEF Mutex!Come
  <2>2. ASSUME NEW t \in Threads, Unlock(t) PROVE Mutex!Go(t)
    BY <2>2 DEF Unlock, Mutex!Go
  <2>3. ASSUME NEW t \in Threads, Take(t) \/ Reenter(t) \/ LeaveInner(t) \/ PutBack(t)
        PROVE  In' = In
    BY <2>3 DEF Take, Reenter, LeaveInner, PutBack
  <2>4. ASSUME Forget PROVE Mutex!Restart
    BY <2>4 DEF Forget, Mutex!Restart
  <2>5. ASSUME UNCHANGED lockVars PROVE In' = In
    BY <2>5 DEF lockVars
  <2> HIDE DEF LocksInv, LocksTypeOK, Inside, In
  <2> QED
    BY <2>1, <2>2, <2>3, <2>4, <2>5 DEF LocksNext, Mutex!MutexNext
<1>3. LocksSpec => []LocksInv
  <2>1. LocksInit => LocksInv
    BY LocksInitial
  <2>2. LocksInv /\ [LocksNext]_lockVars => LocksInv'
    BY LocksInductive
  <2> QED
    BY <2>1, <2>2, PTL DEF LocksSpec
<1> QED
  BY <1>1, <1>2, <1>3, PTL DEF LocksSpec, ImplementsMutex, Mutex!MutexSpec

-----------------------------------------------------------------------------
(* Every step of the synchronisation is a step of the lock table, or       *)
(* leaves it as it is.                                                     *)
LEMMA StepSimulation ==
  ASSUME [Next]_vars
  PROVE  [LocksNext]_lockVars
<1>1. ASSUME NEW r \in Requests, Arrive(r) PROVE UNCHANGED lockVars
  BY <1>1 DEF Arrive, BeginSettings, BeginSync, BeginRule, BeginDelete,
     BeginRemoveFolder, CreateFolder, Begin
<1>2. ASSUME NEW r \in Requests, Validate(r) \/ Write(r) \/ RemoveFolder(r)
      PROVE  UNCHANGED lockVars
  BY <1>2 DEF Validate, Write, RemoveFolder
<1>3. ASSUME NEW r \in Requests, Lock(r) PROVE LocksNext
  BY <1>3 DEF Lock, Locking, LocksNext, Requests
<1>4. ASSUME NEW r \in Requests, Synchronise(r) PROVE UNCHANGED lockVars
  BY <1>4 DEF Synchronise, Set, Read, PutScript, SetActive, Record
<1>5. ASSUME Crash PROVE LocksNext
  BY <1>5 DEF Crash, LocksNext
<1>6. ASSUME Finished \/ UNCHANGED vars PROVE UNCHANGED lockVars
  BY <1>6 DEF Finished, vars
<1> QED
  BY <1>1, <1>2, <1>3, <1>4, <1>5, <1>6 DEF Next, Continue

(* The synchronisation of the filters implements the lock table.           *)
THEOREM UsesTheLocks == Spec => LocksSpec
<1>1. Init => LocksInit
  BY DEF Init
<1>2. [Next]_vars => [LocksNext]_lockVars
  BY StepSimulation
<1> QED
  BY <1>1, <1>2, PTL DEF Spec, LocksSpec

(* No two uploads of one user overlap, at whatever moment the table gave   *)
(* an entry up and whenever the server was restarted.                      *)
THEOREM UploadsExclude == Spec => []Exclusion
  BY LocksAssumption, UsesTheLocks, LocksExclude, PTL

(* The requests of the filters, through the lock table, are excluded as by *)
(* one mutex per user.                                                     *)
THEOREM SyncUsesMutexes == Spec => ImplementsMutex
  BY LocksAssumption, UsesTheLocks, LocksAreMutexes, PTL

(* The lock table keeps its bound under every load of requests.            *)
THEOREM TableStaysBounded == Spec => []TableBounded
  BY LocksAssumption, UsesTheLocks, LocksBounded, PTL

-----------------------------------------------------------------------------
(* Tables, mailbox and locals.                                             *)

JobType == [kind : Kinds \cup {"none"}, on : BOOLEAN, rule : Rules \cup {NoRule},
            id : Requests \cup {0}, folder : Folders \cup {NoFolder}]
ReadType == [script : Scripts, forwarding : Nat, autoreply : Nat, ok : BOOLEAN]

(* The values a request starts with and forgets to, and what a step does   *)
(* that only moves it.                                                     *)
LEMMA Blank ==
  /\ NoJob \in JobType /\ NoRead \in ReadType /\ NoScript \in Scripts
  /\ NoRule \notin Rules
  BY SieveAssumption
     DEF NoJob, JobType, NoRead, ReadType, NoScript, Scripts, NoRule, Rules, Requests

(* What the tables compile to is a script.                                 *)
LEMMA CompiledTyped ==
  ASSUME TypeOK, NEW u \in Users
  PROVE  Compiled(u) \in Scripts
<1>1. \A part \in Parts : settings[u][part].rev \in Nat /\ settings[u][part].on \in BOOLEAN
  BY DEF TypeOK
<1>2. \A i \in RulesOf(u) : i \in Requests /\ rules[i] \in Rules
  BY DEF TypeOK, RulesOf
<1> QED
  BY <1>1, <1>2 DEF Compiled, Scripts, Parts

(* A request that moves keeps what it carries, or forgets it.              *)
LEMMA ProceedTyped ==
  ASSUME TypeOK, NEW r \in Requests, NEW step \in Steps \cup {"done"}, Proceed(r, step)
  PROVE  /\ pc' \in [Requests -> Steps \cup {"idle", "done"}]
         /\ job' \in [Requests -> JobType] /\ read' \in [Requests -> ReadType]
<1>1. pc' \in [Requests -> Steps \cup {"idle", "done"}]
  BY DEF Proceed, Goto, TypeOK
<1>2. job \in [Requests -> JobType] /\ read \in [Requests -> ReadType]
  BY DEF TypeOK, JobType, ReadType
<1> QED
  BY <1>1, <1>2, Blank DEF Proceed

(* A request that begins, with a job of the right shape.                   *)
LEMMA BeginTyped ==
  ASSUME TypeOK, NEW r \in Requests, NEW j \in JobType, NEW step \in Steps \cup {"done"},
         Begin(r, j, step)
  PROVE  TypeOK'
<1>1. pc' \in [Requests -> Steps \cup {"idle", "done"}]
  BY DEF Begin, Goto, TypeOK
<1>2. job' \in [Requests -> JobType]
  <2>1. job \in [Requests -> JobType]
    BY DEF TypeOK, JobType
  <2> QED
    BY <2>1, Blank DEF Begin
<1> QED
  BY <1>1, <1>2 DEF Begin, TypeOK, LocksTypeOK, lockVars, tables, mail, JobType

(* The jobs requests begin with.                                           *)
LEMMA ArrivalsTyped ==
  ASSUME TypeOK, NEW r \in Requests, Arrive(r)
  PROVE  TypeOK'
<1> USE DEF NoJob, NoRule, JobType, Kinds, Parts, RuleChanges
<1>1. CASE BeginSettings(r)
  <2>1. PICK part \in Parts, on \in BOOLEAN, good \in BOOLEAN :
          Begin(r, [NoJob EXCEPT !.kind = part, !.on = on], IF good THEN "lock" ELSE "done")
    BY <1>1 DEF BeginSettings
  <2>2. [NoJob EXCEPT !.kind = part, !.on = on] \in JobType
    OBVIOUS
  <2> QED
    BY <2>1, <2>2, BeginTyped DEF Steps
<1>2. CASE BeginSync(r)
  BY <1>2, BeginTyped DEF BeginSync, Steps
<1>3. CASE BeginRule(r)
  <2>1. PICK c \in Contents, i \in RulesOf(User(r)) \cup {r} :
          Begin(r, [NoJob EXCEPT !.kind = IF i = r THEN "create" ELSE "update", !.id = i,
                      !.rule = [on |-> c.on, folder |-> c.folder, body |-> c.body,
                                by |-> r]],
                IF c.folder = NoFolder THEN "write" ELSE "validate")
    BY <1>3 DEF BeginRule
  <2>2. c \in [on : BOOLEAN, folder : Folders \cup {NoFolder}, body : BOOLEAN]
    BY SieveAssumption
  <2>3. [on |-> c.on, folder |-> c.folder, body |-> c.body, by |-> r] \in Rules
    BY <2>2 DEF Rules
  <2>4. i \in Requests
    BY DEF RulesOf
  <2>5. [NoJob EXCEPT !.kind = IF i = r THEN "create" ELSE "update", !.id = i,
           !.rule = [on |-> c.on, folder |-> c.folder, body |-> c.body, by |-> r]]
          \in JobType
    BY <2>3, <2>4
  <2> QED
    BY <2>1, <2>5, BeginTyped DEF Steps
<1>4. CASE BeginDelete(r)
  <2>1. PICK i \in RulesOf(User(r)) :
          Begin(r, [NoJob EXCEPT !.kind = "delete", !.id = i], "write")
    BY <1>4 DEF BeginDelete
  <2>2. [NoJob EXCEPT !.kind = "delete", !.id = i] \in JobType
    BY DEF RulesOf
  <2> QED
    BY <2>1, <2>2, BeginTyped DEF Steps
<1>5. CASE BeginRemoveFolder(r)
  <2>1. PICK f \in folders[User(r)] :
          Begin(r, [NoJob EXCEPT !.kind = "rmdir", !.folder = f],
                IF UsedByRule(User(r), f) THEN "done" ELSE "rmdir")
    BY <1>5 DEF BeginRemoveFolder
  <2>2. f \in Folders
    BY LocksAssumption DEF TypeOK, User, Requests
  <2>3. [NoJob EXCEPT !.kind = "rmdir", !.folder = f] \in JobType
    BY <2>2
  <2> QED
    BY <2>1, <2>3, BeginTyped DEF Steps
<1>6. CASE CreateFolder(r)
  <2>1. PICK f \in Folders : folders' = [folders EXCEPT ![User(r)] = @ \cup {f}]
    BY <1>6 DEF CreateFolder
  <2>2. folders' \in [Users -> SUBSET Folders]
    BY <2>1 DEF TypeOK
  <2>3. pc' \in [Requests -> Steps \cup {"idle", "done"}]
    BY <1>6 DEF CreateFolder, Goto, TypeOK
  <2> QED
    BY <1>6, <2>2, <2>3 DEF CreateFolder, TypeOK, LocksTypeOK, lockVars, tables
<1> QED
  BY <1>1, <1>2, <1>3, <1>4, <1>5, <1>6 DEF Arrive

(* Every variable of the tables, the mailbox and the requests keeps its    *)
(* type under every step.                                                  *)
LEMMA SyncTypesInductive ==
  ASSUME TypeOK, LocksTypeOK', [Next]_vars
  PROVE  TypeOK'
<1>0. \A r \in Requests : User(r) \in Users
  BY LocksAssumption DEF User, Requests
<1> USE <1>0
<1>1. ASSUME NEW r \in Requests, Arrive(r) PROVE TypeOK'
  BY <1>1, ArrivalsTyped
<1>2. ASSUME NEW r \in Requests, Validate(r) PROVE TypeOK'
  <2>1. /\ pc' \in [Requests -> Steps \cup {"idle", "done"}]
        /\ job' \in [Requests -> JobType] /\ read' \in [Requests -> ReadType]
    BY <1>2, ProceedTyped DEF Validate, Steps
  <2> QED
    BY <1>2, <2>1 DEF Validate, TypeOK, lockVars, tables, mail, JobType, ReadType
<1>3. ASSUME NEW r \in Requests, Write(r) PROVE TypeOK'
  <2>1. /\ pc' \in [Requests -> Steps \cup {"idle", "done"}]
        /\ job' \in [Requests -> JobType] /\ read' \in [Requests -> ReadType]
    BY <1>3, ProceedTyped DEF Write, AfterWrite, Steps
  <2>2. rules' \in [Requests -> Rules \cup {NoRule}]
    <3>1. job[r].rule \in Rules \cup {NoRule}
      BY DEF TypeOK
    <3> QED
      BY <1>3, <3>1 DEF Write, TypeOK
  <2>3. raced' \in [Users -> BOOLEAN]
    BY <1>3 DEF Write, TypeOK
  <2> QED
    BY <1>3, <2>1, <2>2, <2>3 DEF Write, TypeOK, lockVars, mail, JobType, ReadType
<1>4. ASSUME NEW r \in Requests, RemoveFolder(r) PROVE TypeOK'
  <2>1. /\ pc' \in [Requests -> Steps \cup {"idle", "done"}]
        /\ job' \in [Requests -> JobType] /\ read' \in [Requests -> ReadType]
    BY <1>4, ProceedTyped DEF RemoveFolder
  <2>2. folders' \in [Users -> SUBSET Folders] /\ raced' \in [Users -> BOOLEAN]
    BY <1>4 DEF RemoveFolder, TypeOK
  <2> QED
    BY <1>4, <2>1, <2>2 DEF RemoveFolder, TypeOK, lockVars, tables, JobType, ReadType
<1>5. ASSUME NEW r \in Requests, Lock(r) PROVE TypeOK'
  <2>1. \E step \in Steps \cup {"done"} : Proceed(r, step)
    BY <1>5 DEF Lock, Locking, Steps
  <2>2. /\ pc' \in [Requests -> Steps \cup {"idle", "done"}]
        /\ job' \in [Requests -> JobType] /\ read' \in [Requests -> ReadType]
    BY <2>1, ProceedTyped
  <2> QED
    BY <1>5, <2>2 DEF Lock, TypeOK, tables, mail, JobType, ReadType
<1>6. ASSUME NEW r \in Requests, Set(r) PROVE TypeOK'
  <2>1. settings' \in [Users -> [Parts -> [rev : Nat, on : BOOLEAN,
                             shown : {"nothing", "applied", "unavailable"}]]]
    <3>1. job[r].on \in BOOLEAN
      BY DEF TypeOK
    <3>2. ASSUME NEW part \in Parts
          PROVE  NewSettings(settings[User(r)][part], job[r].on)
                   \in [rev : Nat, on : BOOLEAN, shown : {"nothing", "applied", "unavailable"}]
      BY <3>1 DEF NewSettings, TypeOK
    <3>3. settings[User(r)] \in [Parts -> [rev : Nat, on : BOOLEAN,
                                       shown : {"nothing", "applied", "unavailable"}]]
      BY DEF TypeOK
    <3>4. CASE job[r].kind \in Parts
      <4> DEFINE new == NewSettings(settings[User(r)][job[r].kind], job[r].on)
      <4>1. new \in [rev : Nat, on : BOOLEAN, shown : {"nothing", "applied", "unavailable"}]
        BY <3>2, <3>4
      <4>2. settings' = [settings EXCEPT ![User(r)][job[r].kind] = new]
        BY <1>6 DEF Set
      <4> QED
        BY <3>3, <3>4, <4>1, <4>2 DEF TypeOK
    <3>5. CASE job[r].kind \notin Parts
      BY <1>6, <3>3, <3>5 DEF Set, TypeOK
    <3> QED
      BY <3>4, <3>5
  <2> QED
    BY <1>6, <2>1 DEF Set, Goto, TypeOK, Steps, lockVars, mail
<1>7. ASSUME NEW r \in Requests, Read(r) PROVE TypeOK'
  <2>1. [script |-> Compiled(User(r)), ok |-> FALSE,
         forwarding |-> settings[User(r)].forwarding.rev,
         autoreply |-> settings[User(r)].autoreply.rev] \in ReadType
    BY CompiledTyped DEF ReadType, TypeOK, Parts
  <2>2. read' \in [Requests -> ReadType]
    BY <1>7, <2>1 DEF Read, TypeOK, ReadType
  <2> QED
    BY <1>7, <2>2 DEF Read, Goto, TypeOK, Steps, lockVars, tables, mail, ReadType
<1>8. ASSUME NEW r \in Requests, PutScript(r) PROVE TypeOK'
  <2>1. read[r].script \in Scripts
    BY DEF TypeOK
  <2>2. [server EXCEPT ![User(r)].text = read[r].script]
          \in [Users -> [text : Scripts, active : BOOLEAN]]
    BY <2>1 DEF TypeOK
  <2>3. server' \in [Users -> [text : Scripts, active : BOOLEAN]]
    BY <1>8, <2>2 DEF PutScript, TypeOK
  <2>4. faults' \in 0..MaxFaults
    BY <1>8, SieveAssumption DEF PutScript, Fault, TypeOK
  <2>5. pc' \in [Requests -> Steps \cup {"idle", "done"}]
    BY <1>8 DEF PutScript, Goto, TypeOK, Steps
  <2> QED
    BY <1>8, <2>3, <2>4, <2>5 DEF PutScript, TypeOK, lockVars, tables
<1>9. ASSUME NEW r \in Requests, SetActive(r) PROVE TypeOK'
  <2>1. server' \in [Users -> [text : Scripts, active : BOOLEAN]]
    <3>1. [server EXCEPT ![User(r)].active = TRUE] \in [Users -> [text : Scripts, active : BOOLEAN]]
      BY DEF TypeOK
    <3> QED
      BY <1>9, <3>1 DEF SetActive, TypeOK
  <2>2. read' \in [Requests -> ReadType]
    <3>1. [read EXCEPT ![r].ok = TRUE] \in [Requests -> ReadType]
      BY DEF TypeOK, ReadType
    <3> QED
      BY <1>9, <3>1 DEF SetActive, TypeOK, ReadType
  <2>3. faults' \in 0..MaxFaults
    BY <1>9, SieveAssumption DEF SetActive, Fault, TypeOK
  <2> QED
    BY <1>9, <2>1, <2>2, <2>3
       DEF SetActive, Goto, TypeOK, Steps, lockVars, tables, ReadType
<1>10. ASSUME NEW r \in Requests, NEW part \in Parts, NEW step \in Steps, Record(r, part, step)
       PROVE  TypeOK'
  <2>1. Recorded(r, part) \in [rev : Nat, on : BOOLEAN,
                               shown : {"nothing", "applied", "unavailable"}]
    <3>1. settings[User(r)][part] \in [rev : Nat, on : BOOLEAN,
                                    shown : {"nothing", "applied", "unavailable"}]
      BY DEF TypeOK
    <3>2. Outcome(r) \in {"applied", "unavailable"}
      BY DEF Outcome
    <3> QED
      BY <3>1, <3>2 DEF Recorded
  <2>2. settings' \in [Users -> [Parts -> [rev : Nat, on : BOOLEAN,
                             shown : {"nothing", "applied", "unavailable"}]]]
    BY <1>10, <2>1 DEF Record, TypeOK
  <2>3. cut' \in [Users -> BOOLEAN]
    BY <1>10 DEF Record, TypeOK
  <2> QED
    BY <1>10, <2>2, <2>3 DEF Record, Goto, TypeOK, lockVars, mail
<1>11. ASSUME NEW r \in Requests, Synchronise(r) PROVE TypeOK'
  BY <1>6, <1>7, <1>8, <1>9, <1>10, <1>11 DEF Synchronise, Parts, Steps
<1>12. ASSUME Crash PROVE TypeOK'
  <2>1. job' \in [Requests -> JobType] /\ read' \in [Requests -> ReadType]
    BY <1>12, Blank DEF Crash
  <2>2. cut' \in [Users -> BOOLEAN] /\ faults' \in 0..MaxFaults
    BY <1>12, SieveAssumption DEF Crash, Fault, TypeOK
  <2> QED
    BY <1>12, <2>1, <2>2 DEF Crash, TypeOK, tables, mail, JobType, ReadType
<1>13. ASSUME Finished \/ UNCHANGED vars PROVE TypeOK'
  BY <1>13 DEF Finished, vars, tables, mail, TypeOK
<1> QED
  BY <1>1, <1>2, <1>3, <1>4, <1>5, <1>11, <1>12, <1>13 DEF Next, Continue

(* The types, with the custody of the locks that theirs are a part of.     *)
Types == TypeOK /\ LocksInv

(* The server starts with types and custody as they should be.             *)
LEMMA TypesInitial == Init => Types
<1>1. Init => LocksInv
  BY LocksAssumption, LocksInitial DEF Init
<1>2. Init => TypeOK
  BY <1>1, Blank, SieveAssumption
     DEF Init, TypeOK, LocksInv, NoSettings, Parts, JobType, ReadType
<1> QED
  BY <1>1, <1>2 DEF Types

(* The steps of the whole keep the custody of the locks, and the types.    *)
LEMMA TypesInductive ==
  ASSUME Types, [Next]_vars
  PROVE  Types'
<1>1. LocksInv'
  BY LocksAssumption, LocksInductive, StepSimulation DEF Types
<1> QED
  BY <1>1, SyncTypesInductive DEF Types, LocksInv

(* Types and custody hold in every reachable state.                        *)
LEMMA TypesHold == Spec => []Types
  BY TypesInitial, TypesInductive, PTL DEF Spec

(* The types of the filters' tables, the mailbox, the script on the mail   *)
(* server and the requests, for every number of users and requests.        *)
THEOREM SyncTypeCorrect == Spec => []TypeOK
  BY TypesHold, PTL DEF Types

-----------------------------------------------------------------------------
(* What the page shows is what runs, and in the end everything does.       *)

(* From "set" to "unlock" a request is inside the lock of its user.        *)
Held == {"set", "again", "read", "put", "activate", "forwarding", "autoreply",
         "inner", "unlock"}

(* It will still read the tables; or it has, and the outcome is not known. *)
Wanting == {"lock", "wait", "set", "again", "read"}
Uploading == {"put", "activate", "forwarding", "autoreply"}

Stage ==
  \A r \in Requests :
    /\ pc[r] = "wait" <=> at[r] = "wait"
    /\ pc[r] \in Held <=> Inside(r)
    /\ pc[r] = "leave" <=> at[r] = "left"

(* Only settings are set, and a rule is written by a request of its user.  *)
Asked ==
  \A r \in Requests :
    /\ pc[r] = "set" => job[r].kind \in Parts
    /\ pc[r] \in {"validate", "write"} =>
         job[r].id \in Requests /\ User(job[r].id) = User(r)

Due(u) == \E r \in Requests : User(r) = u /\ pc[r] \in Wanting
Busy(u) == \E r \in Requests : User(r) = u /\ pc[r] \in Uploading
Unshown(u) == \E part \in Parts : ~Shown(u, part)

(* What a request uploads is what the tables say of the settings, and of   *)
(* the rules, too, unless another request of the user is going to read;    *)
(* what it has achieved of the upload; what it has recorded.               *)
Carries(r) ==
  LET u == User(r) IN
  /\ \A part \in Parts : /\ read[r][part] = settings[u][part].rev
                         /\ read[r].script[part] = Compiled(u)[part]
  /\ Due(u) \/ read[r].script = Compiled(u)
  /\ pc[r] \in {"put", "activate"} => ~read[r].ok
  /\ pc[r] = "activate" => server[u].text = read[r].script
  /\ read[r].ok => Running(u) = read[r].script
  /\ pc[r] = "autoreply" /\ ~read[r].ok => Unshown(u)

Honest(u) == \A part \in Parts : Shown(u, part) => Running(u)[part] = Compiled(u)[part]

Synced(u) ==
  Due(u) \/ Busy(u) \/ cut[u] \/ Unshown(u) \/ Running(u) = Compiled(u)

Fine(u) ==
  /\ \A r \in Requests : User(r) = u /\ pc[r] \in Uploading => Carries(r)
  /\ Honest(u) /\ Synced(u)

SyncInv == Stage /\ Asked /\ \A u \in Users : Fine(u)

(* The parts of what the tables compile to.                                *)
LEMMA CompiledParts ==
  ASSUME NEW u, NEW part \in Parts
  PROVE  Compiled(u)[part] = IF settings[u][part].on THEN settings[u][part].rev ELSE 0
  BY DEF Compiled, Parts

(* A setting that is left alone compiles to what it did.                   *)
LEMMA SamePart ==
  ASSUME NEW u, NEW part \in Parts, settings'[u][part] = settings[u][part]
  PROVE  Compiled(u)'[part] = Compiled(u)[part]
  BY DEF Compiled, Parts

(* The script depends on the settings and the rules of its user only.      *)
LEMMA SameCompiled ==
  ASSUME NEW u, settings'[u] = settings[u],
         \A i \in Requests : UserOf[i] = u => rules'[i] = rules[i]
  PROVE  Compiled(u)' = Compiled(u)
<1>1. RulesOf(u)' = RulesOf(u)
  BY DEF RulesOf
<1>2. {<<i, rules'[i]>> : i \in {j \in RulesOf(u) : rules'[j].on}}
        = {<<i, rules[i]>> : i \in {j \in RulesOf(u) : rules[j].on}}
  BY DEF RulesOf
<1> QED
  BY <1>1, <1>2 DEF Compiled

(* Nothing a user's fine state speaks of was touched, but for requests     *)
(* that began, that wait, or that are done with their upload.              *)
LEMMA Untouched ==
  ASSUME NEW u \in Users, Fine(u),
         settings'[u] = settings[u], server'[u] = server[u], cut'[u] = cut[u],
         \A i \in Requests : UserOf[i] = u => rules'[i] = rules[i],
         \A q \in Requests : User(q) = u =>
           /\ pc[q] \in Uploading \/ pc'[q] \in Uploading => pc'[q] = pc[q] /\ read'[q] = read[q]
           /\ pc[q] \in Wanting => pc'[q] \in Wanting
  PROVE  Fine(u)'
<1>1. Compiled(u)' = Compiled(u)
  BY SameCompiled
<1>2. /\ Due(u) => Due(u)'
      /\ Busy(u) => Busy(u)'
      /\ Running(u)' = Running(u)
      /\ Unshown(u)' <=> Unshown(u)
      /\ \A part \in Parts : Shown(u, part)' <=> Shown(u, part)
  BY DEF Due, Busy, Running, Unshown, Shown
<1>3. ASSUME NEW q \in Requests, User(q) = u, pc'[q] \in Uploading
      PROVE  Carries(q)'
  <2>1. pc'[q] = pc[q] /\ read'[q] = read[q] /\ Carries(q)
    BY <1>3 DEF Fine
  <2> QED
    BY <1>1, <1>2, <1>3, <2>1 DEF Carries, User
<1>4. Honest(u)' /\ Synced(u)'
  BY <1>1, <1>2 DEF Fine, Honest, Synced
<1> QED
  BY <1>3, <1>4 DEF Fine, User

(* Two requests of one user are not inside its lock together.              *)
LEMMA Alone ==
  ASSUME Types, Stage, NEW r \in Requests, pc[r] \in Held,
         NEW q \in Requests, User(q) = User(r), q # r
  PROVE  pc[q] \notin Held
  BY LocksAssumption, CustodyExcludes DEF Types, Stage, Exclusion, User, Requests

(* A step of a request inside the lock leaves the other users alone.       *)
Touches(r) ==
  /\ \A u \in Users \ {User(r)} :
       settings'[u] = settings[u] /\ server'[u] = server[u] /\ cut'[u] = cut[u]
  /\ rules' = rules
  /\ \A q \in Requests \ {r} : pc'[q] = pc[q] /\ read'[q] = read[q]

(* What a step inside one user's lock leaves fine.                         *)
LEMMA OthersFine ==
  ASSUME NEW r \in Requests, Touches(r), \A u \in Users : Fine(u),
         NEW u \in Users \ {User(r)}
  PROVE  Fine(u)'
<1>1. \A q \in Requests : User(q) = u => q # r
  OBVIOUS
<1> QED
  BY <1>1, Untouched DEF Touches

(* What Touches says of every step of the synchronisation.                 *)
LEMMA SynchronisingTouches ==
  ASSUME Types, NEW r \in Requests, Synchronise(r)
  PROVE  /\ Touches(r)
         /\ UNCHANGED <<lockVars, job>>
         /\ pc[r] \in Held /\ pc'[r] \in Held \ {"set"}
<1>1. UNCHANGED <<lockVars, rules, job>>
  BY DEF Synchronise, Set, Read, PutScript, SetActive, Record, tables
<1>2. \A u \in Users \ {User(r)} : settings'[u] = settings[u]
  BY DEF Synchronise, Set, Read, PutScript, SetActive, Record, tables, Types, TypeOK
<1>3. \A u \in Users \ {User(r)} : server'[u] = server[u]
  BY DEF Synchronise, Set, Read, PutScript, SetActive, Record, mail, Types, TypeOK
<1>4. \A u \in Users \ {User(r)} : cut'[u] = cut[u]
  BY DEF Synchronise, Set, Read, PutScript, SetActive, Record, Types, TypeOK
<1>5. \A q \in Requests \ {r} : pc'[q] = pc[q] /\ read'[q] = read[q]
  BY DEF Synchronise, Set, Read, PutScript, SetActive, Record, Goto, Types, TypeOK
<1>6. pc[r] \in Held /\ pc'[r] \in Held \ {"set"}
  BY DEF Synchronise, Set, Read, PutScript, SetActive, Record, Goto, At, Held, Types, TypeOK
<1> QED
  BY <1>1, <1>2, <1>3, <1>4, <1>5, <1>6 DEF Touches

(* Who is where, and what a request asks for, under every step.            *)
LEMMA StageInductive ==
  ASSUME Types, Types', Stage, Asked, [Next]_vars
  PROVE  Stage' /\ Asked'
<1> USE DEF Types, LocksInv, LocksTypeOK, Held
<1>0. \A r \in Requests : at[r] \in Places /\ r \in Threads
  BY DEF Requests
<1>1. ASSUME NEW r \in Requests, NEW j, NEW step \in {"lock", "done", "validate", "write", "rmdir"},
             step \in {"validate", "write"} => j.id \in Requests /\ User(j.id) = User(r),
             Begin(r, j, step)
      PROVE  Stage' /\ Asked'
  <2>1. pc' = [pc EXCEPT ![r] = step] /\ pc[r] = "idle" /\ at' = at
    BY <1>1 DEF Begin, Goto, At, lockVars
  <2>2. Stage'
    BY <1>1, <2>1 DEF Stage, Inside, TypeOK
  <2>3. \A q \in Requests \ {r} : pc'[q] = pc[q] /\ job'[q] = job[q]
    BY <1>1, <2>1 DEF Begin, TypeOK
  <2>4. pc'[r] = step /\ (step # "done" => job'[r] = j)
    BY <1>1, <2>1 DEF Begin, TypeOK
  <2> QED
    BY <1>1, <2>2, <2>3, <2>4 DEF Asked, User
<1>2. ASSUME NEW r \in Requests, Arrive(r) PROVE Stage' /\ Asked'
  <2>1. CASE BeginSettings(r)
    BY <1>1, <2>1 DEF BeginSettings
  <2>2. CASE BeginSync(r)
    BY <1>1, <2>2 DEF BeginSync
  <2>3. CASE BeginRule(r)
    <3>1. PICK c \in Contents, i \in RulesOf(User(r)) \cup {r} :
            Begin(r, [NoJob EXCEPT !.kind = IF i = r THEN "create" ELSE "update", !.id = i,
                        !.rule = [on |-> c.on, folder |-> c.folder, body |-> c.body,
                                  by |-> r]],
                  IF c.folder = NoFolder THEN "write" ELSE "validate")
      BY <2>3 DEF BeginRule
    <3>2. i \in Requests /\ User(i) = User(r)
      BY DEF RulesOf, User
    <3> QED
      BY <1>1, <3>1, <3>2 DEF NoJob
  <2>4. CASE BeginDelete(r)
    <3>1. PICK i \in RulesOf(User(r)) :
            Begin(r, [NoJob EXCEPT !.kind = "delete", !.id = i], "write")
      BY <2>4 DEF BeginDelete
    <3>2. i \in Requests /\ User(i) = User(r)
      BY DEF RulesOf, User
    <3> QED
      BY <1>1, <3>1, <3>2 DEF NoJob
  <2>5. CASE BeginRemoveFolder(r)
    BY <1>1, <2>5 DEF BeginRemoveFolder
  <2>6. CASE CreateFolder(r)
    BY <2>6 DEF CreateFolder, Goto, At, lockVars, Stage, Asked, Inside, User, TypeOK
  <2> QED
    BY <1>2, <2>1, <2>2, <2>3, <2>4, <2>5, <2>6 DEF Arrive
<1>3. ASSUME NEW r \in Requests, Validate(r) \/ Write(r) \/ RemoveFolder(r)
      PROVE  Stage' /\ Asked'
  <2>1. /\ pc[r] \notin Held /\ pc[r] \notin {"wait", "leave"}
        /\ pc'[r] \in {"write", "done", "lock"} /\ at' = at
        /\ pc'[r] = "write" => pc[r] = "validate" /\ job'[r] = job[r]
        /\ \A q \in Requests \ {r} : pc'[q] = pc[q] /\ job'[q] = job[q]
    BY <1>3 DEF Validate, Write, RemoveFolder, Proceed, Goto, At, AfterWrite, lockVars, TypeOK
  <2>2. Stage'
    BY <2>1 DEF Stage, Inside
  <2> QED
    BY <2>1, <2>2 DEF Asked, User
<1>4. ASSUME NEW r \in Requests, Lock(r) PROVE Stage' /\ Asked'
  <2>1. ASSUME NEW step \in Steps \cup {"done"}, Proceed(r, step)
        PROVE  /\ pc'[r] = step
               /\ \A q \in Requests \ {r} : pc'[q] = pc[q] /\ job'[q] = job[q]
               /\ step # "done" => job'[r] = job[r]
    BY <2>1 DEF Proceed, Goto, TypeOK
  <2>2. CASE At(r, "lock") /\ Take(r) /\ Proceed(r, "wait")
    <3>1. at' = [at EXCEPT ![r] = "wait"] /\ pc[r] = "lock"
      BY <2>2 DEF Take, At
    <3> QED
      BY <1>0, <2>1, <2>2, <3>1 DEF Stage, Asked, Inside, User, Steps
  <2>3. CASE At(r, "wait") /\ Enter(r)
               /\ Proceed(r, IF job[r].kind \in Parts THEN "set" ELSE "read")
    <3>1. at' = [at EXCEPT ![r] = "in"] /\ pc[r] = "wait"
      BY <2>3 DEF Enter, At
    <3> QED
      BY <1>0, <2>1, <2>3, <3>1 DEF Stage, Asked, Inside, User, Steps
  <2>4. CASE At(r, "again") /\ Reenter(r) /\ Proceed(r, "read")
    <3>1. at' = [at EXCEPT ![r] = "again"] /\ pc[r] = "again"
      BY <2>4 DEF Reenter, At
    <3> QED
      BY <1>0, <2>1, <2>4, <3>1 DEF Stage, Asked, Inside, User, Steps
  <2>5. CASE At(r, "inner") /\ LeaveInner(r) /\ Proceed(r, "unlock")
    <3>1. at' = [at EXCEPT ![r] = "in"] /\ pc[r] = "inner"
      BY <2>5 DEF LeaveInner, At
    <3> QED
      BY <1>0, <2>1, <2>5, <3>1 DEF Stage, Asked, Inside, User, Steps
  <2>6. CASE At(r, "unlock") /\ Unlock(r) /\ Proceed(r, "leave")
    <3>1. at' = [at EXCEPT ![r] = "left"] /\ pc[r] = "unlock"
      BY <2>6 DEF Unlock, At
    <3> QED
      BY <1>0, <2>1, <2>6, <3>1 DEF Stage, Asked, Inside, User, Steps
  <2>7. CASE At(r, "leave") /\ PutBack(r) /\ Proceed(r, "done")
    <3>1. at' = [at EXCEPT ![r] = "out"] /\ pc[r] = "leave"
      BY <2>7 DEF PutBack, At
    <3> QED
      BY <1>0, <2>1, <2>7, <3>1 DEF Stage, Asked, Inside, User, Steps
  <2> QED
    BY <1>4, <2>2, <2>3, <2>4, <2>5, <2>6, <2>7 DEF Lock, Locking
<1>5. ASSUME NEW r \in Requests, Synchronise(r) PROVE Stage' /\ Asked'
  <2>1. /\ UNCHANGED <<at, job>> /\ pc[r] \in Held /\ pc'[r] \in Held \ {"set"}
        /\ \A q \in Requests \ {r} : pc'[q] = pc[q]
    BY <1>5, SynchronisingTouches DEF Touches, lockVars
  <2> QED
    BY <2>1 DEF Stage, Asked, Inside, User
<1>6. ASSUME Crash PROVE Stage' /\ Asked'
  BY <1>0, <1>6 DEF Crash, Forget, Stage, Asked, Inside
<1>7. ASSUME Finished \/ UNCHANGED vars PROVE Stage' /\ Asked'
  BY <1>7 DEF Finished, vars, lockVars, Stage, Asked, Inside, User
<1> QED
  BY <1>2, <1>3, <1>4, <1>5, <1>6, <1>7 DEF Next, Continue

(* Requests that begin, that check a folder, that remove one, or that come *)
(* and go with their lock.                                                 *)
LEMMA AroundFine ==
  ASSUME Types, NEW r \in Requests,
         Arrive(r) \/ Validate(r) \/ RemoveFolder(r) \/ Lock(r),
         NEW u \in Users, Fine(u)
  PROVE  Fine(u)'
<1>1. UNCHANGED <<settings, rules, server, cut>>
  BY DEF Arrive, BeginSettings, BeginSync, BeginRule, BeginDelete, BeginRemoveFolder, Begin,
         CreateFolder, Validate, RemoveFolder, Lock, tables, mail
<1>2. ASSUME NEW q \in Requests
      PROVE  /\ pc[q] \in Uploading \/ pc'[q] \in Uploading => pc'[q] = pc[q] /\ read'[q] = read[q]
             /\ pc[q] \in Wanting => pc'[q] \in Wanting
  <2> USE DEF Types, TypeOK, Uploading, Wanting
  <2>1. CASE Arrive(r)
    <3>1. ASSUME NEW j, NEW step \in {"lock", "done", "validate", "write", "rmdir"},
                 Begin(r, j, step)
          PROVE  /\ pc[r] = "idle" /\ pc'[r] \notin Uploading
                 /\ \A p \in Requests \ {r} : pc'[p] = pc[p]
                 /\ read' = read
      BY <3>1 DEF Begin, Goto, At
    <3>2. CASE CreateFolder(r)
      BY <3>2 DEF CreateFolder, Goto, At
    <3>3. CASE BeginSettings(r)
      BY <3>1, <3>3 DEF BeginSettings
    <3>4. CASE BeginSync(r)
      BY <3>1, <3>4 DEF BeginSync
    <3>5. CASE BeginRule(r)
      BY <3>1, <3>5 DEF BeginRule
    <3>6. CASE BeginDelete(r) \/ BeginRemoveFolder(r)
      BY <3>1, <3>6 DEF BeginDelete, BeginRemoveFolder
    <3> QED
      BY <2>1, <3>2, <3>3, <3>4, <3>5, <3>6 DEF Arrive
  <2>2. CASE Validate(r) \/ RemoveFolder(r)
    BY <2>2 DEF Validate, RemoveFolder, Proceed, Goto, At
  <2>3. CASE Lock(r)
    BY <2>3 DEF Lock, Locking, Proceed, Goto, At
  <2> QED
    BY <2>1, <2>2, <2>3
<1> QED
  BY <1>1, <1>2, Untouched

(* A rule is written: its writer is going to read.                         *)
LEMMA WriteFine ==
  ASSUME Types, Asked, NEW r \in Requests, Write(r),
         NEW u \in Users, Fine(u)
  PROVE  Fine(u)'
<1> DEFINE id == job[r].id
           found == job[r].kind = "create" \/ rules[id] # NoRule
<1>1. /\ pc[r] = "write" /\ id \in Requests /\ User(id) = User(r)
      /\ pc' = [pc EXCEPT ![r] = IF found THEN "lock" ELSE "done"]
      /\ UNCHANGED <<settings, server, cut>>
      /\ \A q \in Requests : q # r => read'[q] = read[q]
  BY DEF Write, AfterWrite, Asked, Proceed, Goto, At, mail, Types, TypeOK
<1>2. \A i \in Requests : i # id => rules'[i] = rules[i]
  BY DEF Write, Types, TypeOK
<1>3. ASSUME NEW q \in Requests
      PROVE  /\ pc[q] \in Uploading \/ pc'[q] \in Uploading => pc'[q] = pc[q] /\ read'[q] = read[q]
             /\ pc[q] \in Wanting => pc'[q] \in Wanting
  BY <1>1 DEF Types, TypeOK, Uploading, Wanting
<1>4. CASE User(r) # u
  BY <1>1, <1>2, <1>3, <1>4, Untouched DEF User
<1>5. CASE ~found
  <2>1. rules' = rules
    BY <1>5 DEF Write
  <2> QED
    BY <1>1, <1>3, <2>1, Untouched
<1>6. CASE User(r) = u /\ found
  <2>1. Due(u)'
    BY <1>1, <1>6 DEF Due, Wanting, User, Types, TypeOK
  <2>2. \A part \in Parts : Compiled(u)'[part] = Compiled(u)[part]
    BY <1>1, SamePart
  <2>3. /\ Running(u)' = Running(u)
        /\ Unshown(u)' <=> Unshown(u)
        /\ \A part \in Parts : Shown(u, part)' <=> Shown(u, part)
    BY <1>1 DEF Running, Unshown, Shown
  <2>4. ASSUME NEW q \in Requests, User(q) = u, pc'[q] \in Uploading
        PROVE  Carries(q)'
    <3>1. pc'[q] = pc[q] /\ read'[q] = read[q] /\ Carries(q)
      BY <1>3, <2>4 DEF Fine
    <3> QED
      BY <1>1, <2>1, <2>2, <2>3, <2>4, <3>1 DEF Carries, User
  <2>5. Honest(u)' /\ Synced(u)'
    BY <2>1, <2>2, <2>3 DEF Fine, Honest, Synced
  <2> QED
    BY <2>4, <2>5 DEF Fine, User
<1> QED
  BY <1>4, <1>5, <1>6

(* Inside the lock of its user a request is the only one that uploads.     *)
LEMMA OnlyUploader ==
  ASSUME Types, Types', Stage, Stage', NEW r \in Requests, Synchronise(r)
  PROVE  /\ \A q \in Requests : User(q) = User(r) /\ pc[q] \in Uploading => q = r
         /\ \A q \in Requests : User(q) = User(r) /\ pc'[q] \in Uploading => q = r
         /\ Due(User(r)) <=> pc[r] \in Wanting
              \/ \E q \in Requests \ {r} : User(q) = User(r) /\ pc'[q] \in Wanting
         /\ pc'[r] \notin Wanting /\ Due(User(r))' =>
              \E q \in Requests \ {r} : User(q) = User(r) /\ pc'[q] \in Wanting
<1>1. pc[r] \in Held /\ \A q \in Requests \ {r} : pc'[q] = pc[q]
  BY SynchronisingTouches DEF Touches
<1>2. \A q \in Requests \ {r} : User(q) = User(r) => pc[q] \notin Held
  BY <1>1, Alone
<1>3. Uploading \subseteq Held
  BY DEF Uploading, Held
<1> QED
  BY <1>1, <1>2, <1>3 DEF Due, User

(* The changed settings show nothing, and their request is going to read.  *)
LEMMA SetFine ==
  ASSUME Types, Types', Stage, Stage', Asked, NEW r \in Requests, Set(r),
         NEW u \in Users, u = User(r), Fine(u)
  PROVE  Fine(u)'
<1>1. Synchronise(r) /\ job[r].kind \in Parts
  BY DEF Synchronise, Set, At, Asked
<1>2. PICK kind \in Parts : kind = job[r].kind
  BY <1>1
<1>3. /\ pc[r] = "set" /\ pc'[r] = "again"
      /\ UNCHANGED <<rules, server, read, cut>>
  BY DEF Set, Goto, At, mail, Types, TypeOK
<1>4. settings'[u][kind].shown = "nothing"
  BY <1>2 DEF Set, NewSettings, Types, TypeOK
<1>5. \A part \in Parts \ {kind} : settings'[u][part] = settings[u][part]
  BY <1>2 DEF Set, Types, TypeOK
<1>6. ASSUME NEW part \in Parts, Shown(u, part)' PROVE Running(u)'[part] = Compiled(u)'[part]
  <2>1. part # kind
    BY <1>4, <1>6 DEF Shown
  <2>2. settings'[u][part] = settings[u][part]
    BY <1>5, <2>1
  <2>3. Shown(u, part)
    BY <1>6, <2>2 DEF Shown
  <2>4. Compiled(u)'[part] = Compiled(u)[part]
    BY <2>2, SamePart
  <2>5. Running(u)' = Running(u)
    BY <1>3 DEF Running
  <2> QED
    BY <2>3, <2>4, <2>5 DEF Fine, Honest
<1>7. Due(u)'
  BY <1>3 DEF Due, Wanting, User
<1>8. \A q \in Requests : User(q) = u => pc'[q] \notin Uploading
  BY <1>1, <1>3, OnlyUploader DEF Uploading
<1> QED
  BY <1>6, <1>7, <1>8 DEF Fine, Honest, Synced, User

(* What is read is what the tables hold.                                   *)
LEMMA ReadFine ==
  ASSUME Types, Types', Stage, Stage', NEW r \in Requests, Read(r),
         NEW u \in Users, u = User(r), Fine(u)
  PROVE  Fine(u)'
<1>1. Synchronise(r)
  BY DEF Synchronise
<1>2. /\ pc'[r] = "put" /\ UNCHANGED <<settings, rules, server, cut>>
      /\ read'[r] = [script |-> Compiled(u), ok |-> FALSE,
                     forwarding |-> settings[u].forwarding.rev,
                     autoreply |-> settings[u].autoreply.rev]
  BY DEF Read, Goto, tables, mail, Types, TypeOK
<1>3. Compiled(u)' = Compiled(u) /\ Running(u)' = Running(u)
  BY <1>2, SameCompiled DEF Running
<1>4. Carries(r)'
  BY <1>2, <1>3 DEF Carries, Parts, User
<1>5. Honest(u)'
  BY <1>2, <1>3 DEF Fine, Honest, Shown
<1>6. Busy(u)'
  BY <1>2 DEF Busy, Uploading, User
<1> QED
  BY <1>1, <1>4, <1>5, <1>6, OnlyUploader DEF Fine, Synced, User

(* The text that is stored is what was read: of the settings it says what  *)
(* the tables say, and it runs if a script of this user was active.        *)
LEMMA PutFine ==
  ASSUME Types, Types', Stage, Stage', NEW r \in Requests, PutScript(r),
         NEW u \in Users, u = User(r), Fine(u)
  PROVE  Fine(u)'
<1>1. Synchronise(r)
  BY DEF Synchronise
<1>2. /\ pc[r] = "put" /\ pc'[r] \in {"activate", "forwarding"}
      /\ UNCHANGED <<settings, rules, read, cut>>
      /\ server'[u] = server[u] \/ server'[u] = [server[u] EXCEPT !.text = read[r].script]
      /\ pc'[r] = "activate" => server'[u] = [server[u] EXCEPT !.text = read[r].script]
  BY DEF PutScript, Goto, At, tables, Types, TypeOK
<1>3. Compiled(u)' = Compiled(u)
  BY <1>2, SameCompiled
<1>4. Carries(r) /\ ~read[r].ok
  BY <1>2 DEF Fine, Uploading, Carries
<1>5. \A part \in Parts : read[r].script[part] = Compiled(u)[part]
  BY <1>4 DEF Carries
<1>6. Running(u)' = Running(u) \/ Running(u)' = read[r].script
  BY <1>2 DEF Running, Types, TypeOK
<1>7. Due(u) => Due(u)'
  <2>1. pc[r] \notin Wanting
    BY <1>2 DEF Wanting
  <2>2. \A q \in Requests \ {r} : pc'[q] = pc[q]
    BY <1>1, SynchronisingTouches DEF Touches
  <2> QED
    BY <2>1, <2>2 DEF Due, User
<1>8. Carries(r)'
  <2>1. \A part \in Parts : /\ read'[r][part] = settings'[u][part].rev
                            /\ read'[r].script[part] = Compiled(u)'[part]
    BY <1>2, <1>3, <1>4 DEF Carries
  <2>2. Due(u)' \/ read'[r].script = Compiled(u)'
    BY <1>2, <1>3, <1>4, <1>7 DEF Carries
  <2>3. pc'[r] = "activate" => server'[u].text = read'[r].script
    BY <1>2 DEF Types, TypeOK
  <2> QED
    BY <1>2, <1>4, <2>1, <2>2, <2>3 DEF Carries, User
<1>9. Honest(u)'
  BY <1>2, <1>3, <1>5, <1>6 DEF Fine, Honest, Shown
<1>10. Busy(u)'
  BY <1>2 DEF Busy, Uploading, User
<1> QED
  BY <1>1, <1>8, <1>9, <1>10, OnlyUploader DEF Fine, Synced, User

(* The stored text is made to run.                                         *)
LEMMA ActivateFine ==
  ASSUME Types, Types', Stage, Stage', NEW r \in Requests, SetActive(r),
         NEW u \in Users, u = User(r), Fine(u)
  PROVE  Fine(u)'
<1>1. Synchronise(r)
  BY DEF Synchronise
<1>2. /\ pc[r] = "activate" /\ pc'[r] = "forwarding"
      /\ UNCHANGED <<settings, rules, cut>>
      /\ \/ read'[r] = read[r] /\ server'[u] = server[u]
         \/ /\ read'[r] = [read[r] EXCEPT !.ok = TRUE] \/ read'[r] = read[r]
            /\ server'[u] = [server[u] EXCEPT !.active = TRUE]
  BY DEF SetActive, Goto, At, tables, Types, TypeOK
<1>3. Compiled(u)' = Compiled(u)
  BY <1>2, SameCompiled
<1>4. Carries(r) /\ ~read[r].ok /\ server[u].text = read[r].script
  BY <1>2 DEF Fine, Uploading, Carries
<1>5. /\ read'[r].script = read[r].script
      /\ \A part \in Parts : read'[r][part] = read[r][part]
      /\ read'[r].ok => Running(u)' = read[r].script
      /\ Running(u)' = Running(u) \/ Running(u)' = read[r].script
  BY <1>2, <1>4 DEF Running, Types, TypeOK, Parts
<1>6. Due(u) => Due(u)'
  <2>1. pc[r] \notin Wanting
    BY <1>2 DEF Wanting
  <2>2. \A q \in Requests \ {r} : pc'[q] = pc[q]
    BY <1>1, SynchronisingTouches DEF Touches
  <2> QED
    BY <2>1, <2>2 DEF Due, User
<1>7. Carries(r)'
  <2>1. \A part \in Parts : /\ read'[r][part] = settings'[u][part].rev
                            /\ read'[r].script[part] = Compiled(u)'[part]
    BY <1>2, <1>3, <1>4, <1>5 DEF Carries
  <2>2. Due(u)' \/ read'[r].script = Compiled(u)'
    BY <1>3, <1>4, <1>5, <1>6 DEF Carries
  <2> QED
    BY <1>2, <1>5, <2>1, <2>2 DEF Carries, User
<1>8. Honest(u)'
  <2>1. \A part \in Parts : read[r].script[part] = Compiled(u)[part]
    BY <1>4 DEF Carries
  <2> QED
    BY <1>2, <1>3, <1>5, <2>1 DEF Fine, Honest, Shown
<1>9. Busy(u)'
  BY <1>2 DEF Busy, Uploading, User
<1> QED
  BY <1>1, <1>7, <1>8, <1>9, OnlyUploader DEF Fine, Synced, User

(* What a recording changes of the settings: what is shown of one part,    *)
(* since the revision is the one that was read.                            *)
LEMMA RecordEffect ==
  ASSUME Types, NEW r \in Requests, NEW part \in Parts, NEW step, Record(r, part, step),
         NEW u \in Users, u = User(r), Carries(r)
  PROVE  /\ settings'[u][part] = [settings[u][part] EXCEPT !.shown = Outcome(r)]
         /\ \A other \in Parts \ {part} : settings'[u][other] = settings[u][other]
         /\ UNCHANGED <<rules, server, read>>
         /\ pc[r] = part /\ pc'[r] = step
         /\ \A other \in Parts : /\ settings'[u][other].rev = settings[u][other].rev
                                 /\ settings'[u][other].on = settings[u][other].on
<1>1. settings' = [settings EXCEPT ![u][part] = Recorded(r, part)]
  BY DEF Record
<1>2. settings \in [Users -> [Parts -> [rev : Nat, on : BOOLEAN,
                              shown : {"nothing", "applied", "unavailable"}]]]
  BY DEF Types, TypeOK
<1>3. settings[u][part].rev = read[r][part]
  BY DEF Carries
<1>4. Recorded(r, part) = [settings[u][part] EXCEPT !.shown = Outcome(r)]
  BY <1>3 DEF Recorded
<1>5. settings'[u][part] = [settings[u][part] EXCEPT !.shown = Outcome(r)]
  BY <1>1, <1>2, <1>4
<1>6. \A other \in Parts \ {part} : settings'[u][other] = settings[u][other]
  BY <1>1, <1>2
<1>7. settings[u][part] \in [rev : Nat, on : BOOLEAN,
                             shown : {"nothing", "applied", "unavailable"}]
  BY <1>2
<1>8. \A other \in Parts : /\ settings'[u][other].rev = settings[u][other].rev
                           /\ settings'[u][other].on = settings[u][other].on
  BY <1>5, <1>6, <1>7
<1>9. UNCHANGED <<rules, server, read>> /\ pc[r] = part /\ pc'[r] = step
  BY DEF Record, Goto, At, mail, Types, TypeOK
<1> QED
  BY <1>5, <1>6, <1>8, <1>9

(* The same settings, shown otherwise, compile to the same script.         *)
LEMMA SameButShown ==
  ASSUME NEW u, rules' = rules,
         \A part \in Parts : /\ settings'[u][part].rev = settings[u][part].rev
                             /\ settings'[u][part].on = settings[u][part].on
  PROVE  Compiled(u)' = Compiled(u)
<1>1. RulesOf(u)' = RulesOf(u)
  BY DEF RulesOf
<1>2. {<<i, rules'[i]>> : i \in {j \in RulesOf(u)' : rules'[j].on}}
        = {<<i, rules[i]>> : i \in {j \in RulesOf(u) : rules[j].on}}
  BY <1>1
<1> QED
  BY <1>1, <1>2 DEF Compiled, Parts

(* What is shown of the forwarding is the outcome of the upload of these   *)
(* very settings.                                                          *)
LEMMA RecordForwardingFine ==
  ASSUME Types, Types', Stage, Stage', NEW r \in Requests,
         Record(r, "forwarding", "autoreply"),
         NEW u \in Users, u = User(r), Fine(u)
  PROVE  Fine(u)'
<1>1. Synchronise(r) /\ pc[r] = "forwarding"
  BY DEF Synchronise, Record, At
<1>2. Carries(r)
  BY <1>1 DEF Fine, Uploading
<1>3. /\ settings'[u]["forwarding"] = [settings[u]["forwarding"] EXCEPT !.shown = Outcome(r)]
      /\ \A other \in Parts \ {"forwarding"} : settings'[u][other] = settings[u][other]
      /\ UNCHANGED <<rules, server, read>> /\ pc'[r] = "autoreply"
      /\ \A other \in Parts : /\ settings'[u][other].rev = settings[u][other].rev
                              /\ settings'[u][other].on = settings[u][other].on
  BY <1>2, RecordEffect DEF Parts
<1>4. Compiled(u)' = Compiled(u) /\ Running(u)' = Running(u)
  BY <1>3, SameButShown DEF Running
<1>5. settings'[u]["forwarding"].shown = Outcome(r)
  BY <1>3 DEF Types, TypeOK, Parts
<1>6. Due(u) => Due(u)'
  <2>1. pc[r] \notin Wanting
    BY <1>1 DEF Wanting
  <2>2. \A q \in Requests \ {r} : pc'[q] = pc[q]
    BY <1>1, SynchronisingTouches DEF Touches
  <2> QED
    BY <2>1, <2>2 DEF Due, User
<1>7. Carries(r)'
  <2>1. \A part \in Parts : /\ read'[r][part] = settings'[u][part].rev
                            /\ read'[r].script[part] = Compiled(u)'[part]
    BY <1>2, <1>3, <1>4 DEF Carries
  <2>2. Due(u)' \/ read'[r].script = Compiled(u)'
    BY <1>2, <1>3, <1>4, <1>6 DEF Carries
  <2>3. read'[r].ok => Running(u)' = read'[r].script
    BY <1>2, <1>3, <1>4 DEF Carries
  <2>4. ~read'[r].ok => Unshown(u)'
    BY <1>3, <1>5 DEF Unshown, Shown, Outcome, Parts
  <2> QED
    BY <1>3, <2>1, <2>2, <2>3, <2>4 DEF Carries, User
<1>8. Honest(u)'
  <2> SUFFICES ASSUME NEW part \in Parts, Shown(u, part)'
               PROVE  Running(u)'[part] = Compiled(u)'[part]
    BY DEF Honest
  <2>1. CASE part = "forwarding"
    <3>1. read[r].ok
      BY <1>5, <2>1 DEF Shown, Outcome
    <3> QED
      BY <1>2, <1>4, <3>1 DEF Carries
  <2>2. CASE part # "forwarding"
    <3>1. Shown(u, part)
      BY <1>3, <2>2 DEF Shown
    <3> QED
      BY <1>4, <3>1 DEF Fine, Honest
  <2> QED
    BY <2>1, <2>2
<1>9. Busy(u)'
  BY <1>3 DEF Busy, Uploading, User
<1> QED
  BY <1>1, <1>7, <1>8, <1>9, OnlyUploader DEF Fine, Synced, User

(* The end of an upload: all of it runs, or the page does not say so, or   *)
(* another request of the user is going to read.                           *)
LEMMA RecordAutoreplyFine ==
  ASSUME Types, Types', Stage, Stage', NEW r \in Requests,
         NEW step \in {"inner", "unlock"}, Record(r, "autoreply", step), Synchronise(r),
         NEW u \in Users, u = User(r), Fine(u)
  PROVE  Fine(u)'
<1>1. pc[r] = "autoreply" /\ Carries(r)
  BY DEF Record, At, Fine, Uploading
<1>2. /\ settings'[u]["autoreply"] = [settings[u]["autoreply"] EXCEPT !.shown = Outcome(r)]
      /\ \A other \in Parts \ {"autoreply"} : settings'[u][other] = settings[u][other]
      /\ UNCHANGED <<rules, server, read>> /\ pc'[r] = step
      /\ \A other \in Parts : /\ settings'[u][other].rev = settings[u][other].rev
                              /\ settings'[u][other].on = settings[u][other].on
  BY <1>1, RecordEffect DEF Parts
<1>3. Compiled(u)' = Compiled(u) /\ Running(u)' = Running(u)
  BY <1>2, SameButShown DEF Running
<1>4. settings'[u]["autoreply"].shown = Outcome(r)
  BY <1>2 DEF Types, TypeOK, Parts
<1>5. Due(u) => Due(u)'
  <2>1. pc[r] \notin Wanting
    BY <1>1 DEF Wanting
  <2>2. \A q \in Requests \ {r} : pc'[q] = pc[q]
    BY SynchronisingTouches DEF Touches
  <2> QED
    BY <2>1, <2>2 DEF Due, User
<1>6. Honest(u)'
  <2> SUFFICES ASSUME NEW part \in Parts, Shown(u, part)'
               PROVE  Running(u)'[part] = Compiled(u)'[part]
    BY DEF Honest
  <2>1. CASE part = "autoreply"
    <3>1. read[r].ok
      BY <1>4, <2>1 DEF Shown, Outcome
    <3> QED
      BY <1>1, <1>3, <3>1 DEF Carries
  <2>2. CASE part # "autoreply"
    <3>1. Shown(u, part)
      BY <1>2, <2>2 DEF Shown
    <3> QED
      BY <1>3, <3>1 DEF Fine, Honest
  <2> QED
    BY <2>1, <2>2
<1>7. Synced(u)'
  <2>1. CASE read[r].ok
    BY <1>1, <1>3, <1>5, <2>1 DEF Carries, Synced
  <2>2. CASE ~read[r].ok
    <3>1. ~Shown(u, "autoreply")'
      BY <1>4, <2>2 DEF Shown, Outcome
    <3> QED
      BY <3>1 DEF Synced, Unshown, Parts
  <2> QED
    BY <2>1, <2>2
<1>8. pc'[r] \notin Uploading
  BY <1>2 DEF Uploading
<1> QED
  BY <1>6, <1>7, <1>8, OnlyUploader DEF Fine, User

(* Every step of the synchronisation keeps its user's state fine.          *)
LEMMA SynchroniseFine ==
  ASSUME Types, Types', Stage, Stage', Asked, NEW r \in Requests, Synchronise(r),
         NEW u \in Users, u = User(r), Fine(u)
  PROVE  Fine(u)'
<1>1. CASE Record(r, "autoreply", IF job[r].kind \in Parts THEN "inner" ELSE "unlock")
  BY <1>1, RecordAutoreplyFine
<1> QED
  BY <1>1, SetFine, ReadFine, PutFine, ActivateFine, RecordForwardingFine DEF Synchronise

(* A restart forgets what was on its way, and the history says so.         *)
LEMMA CrashFine ==
  ASSUME Types, Crash, NEW u \in Users, Fine(u)
  PROVE  Fine(u)'
<1>1. /\ UNCHANGED <<settings, rules, server>>
      /\ \A q \in Requests : pc'[q] \in {"idle", "done"}
      /\ cut'[u] = (cut[u] \/ \E r \in Requests :
               User(r) = u /\ pc[r] \in Steps \ {"validate", "write", "rmdir"})
  BY DEF Crash, tables, mail
<1>2. Compiled(u)' = Compiled(u) /\ Running(u)' = Running(u)
  BY <1>1, SameCompiled DEF Running
<1>3. Honest(u)'
  BY <1>1, <1>2 DEF Fine, Honest, Shown
<1>4. Due(u) \/ Busy(u) \/ cut[u] => cut'[u]
  BY <1>1 DEF Due, Busy, Wanting, Uploading, Steps
<1>5. Unshown(u) => Unshown(u)'
  BY <1>1 DEF Unshown, Shown
<1>6. Synced(u)'
  BY <1>2, <1>4, <1>5 DEF Fine, Synced
<1>7. \A q \in Requests : pc'[q] \notin Uploading
  BY <1>1 DEF Uploading
<1> QED
  BY <1>3, <1>6, <1>7 DEF Fine

(* The invariant of the synchronisation is inductive.                      *)
LEMMA SyncInductive ==
  ASSUME Types, Types', SyncInv, [Next]_vars
  PROVE  SyncInv'
<1>1. Stage' /\ Asked'
  BY StageInductive DEF SyncInv
<1>2. ASSUME NEW u \in Users PROVE Fine(u)'
  <2>1. Fine(u) /\ Stage /\ Asked
    BY DEF SyncInv
  <2>2. ASSUME NEW r \in Requests, Arrive(r) PROVE Fine(u)'
    BY <2>1, <2>2, AroundFine
  <2>3. ASSUME NEW r \in Requests, Continue(r) PROVE Fine(u)'
    <3>1. CASE Validate(r) \/ RemoveFolder(r) \/ Lock(r)
      BY <2>1, <3>1, AroundFine
    <3>2. CASE Write(r)
      BY <2>1, <3>2, WriteFine
    <3>3. CASE Synchronise(r) /\ u = User(r)
      BY <1>1, <2>1, <3>3, SynchroniseFine
    <3>4. CASE Synchronise(r) /\ u # User(r)
      <4>1. Touches(r)
        BY <3>4, SynchronisingTouches
      <4> QED
        BY <3>4, <4>1, OthersFine DEF SyncInv
    <3> QED
      BY <2>3, <3>1, <3>2, <3>3, <3>4 DEF Continue
  <2>4. CASE Crash
    BY <2>1, <2>4, CrashFine
  <2>5. CASE Finished \/ UNCHANGED vars
    <3>1. UNCHANGED <<settings, rules, server, cut, pc, read>>
      BY <2>5 DEF Finished, vars, tables, mail
    <3> QED
      BY <2>1, <3>1, Untouched
  <2> QED
    BY <2>2, <2>3, <2>4, <2>5 DEF Next
<1> QED
  BY <1>1, <1>2 DEF SyncInv

(* Nothing is shown at the start, and nothing runs.                        *)
LEMMA SyncInitial == Init => SyncInv
<1> SUFFICES ASSUME Init PROVE SyncInv
  OBVIOUS
<1>1. Stage /\ Asked
  BY DEF Init, LocksInit, Stage, Asked, Held, Inside, Requests
<1>2. ASSUME NEW u \in Users PROVE Fine(u)
  BY DEF Init, Fine, Honest, Synced, Unshown, Shown, Uploading, NoSettings, Parts
<1> QED
  BY <1>1, <1>2 DEF SyncInv

(* The types, the custody and the invariant of the synchronisation hold in *)
(* every reachable state.                                                  *)
LEMMA SyncHolds == Spec => [](Types /\ SyncInv)
<1>1. Init => Types /\ SyncInv
  BY TypesInitial, SyncInitial
<1>2. Types /\ SyncInv /\ [Next]_vars => (Types /\ SyncInv)'
  BY TypesInductive, SyncInductive
<1> QED
  BY <1>1, <1>2, PTL DEF Spec

(* What the settings page shows as applied is what the server runs, for    *)
(* every number of users, requests, failing commands and restarts: the     *)
(* outcome of an upload is recorded for the settings it uploaded.          *)
THEOREM SettingsShownAreRunning == Spec => []ShownIsRunning
<1>1. SyncInv => ShownIsRunning
  BY DEF SyncInv, Fine, Honest, ShownIsRunning
<1> QED
  BY <1>1, SyncHolds, PTL

(* When the requests of a user have ended, uncut, with both settings shown *)
(* as applied, the server runs everything the tables say, rules included:  *)
(* whoever changed a rule while another request uploaded has read since.   *)
THEOREM QuietUsersAreSynced == Spec => []QuietMeansSynced
<1>1. SyncInv => QuietMeansSynced
  <2> SUFFICES ASSUME SyncInv, NEW u \in Users, Quiet(u), ~cut[u],
                      \A part \in Parts : Shown(u, part)
               PROVE  Running(u) = Compiled(u)
    BY DEF QuietMeansSynced
  <2>1. Synced(u) /\ ~Unshown(u)
    BY DEF SyncInv, Fine, Unshown
  <2>2. ~Due(u) /\ ~Busy(u)
    BY DEF Quiet, Due, Busy, Wanting, Uploading
  <2> QED
    BY <2>1, <2>2 DEF Synced
<1> QED
  BY <1>1, SyncHolds, PTL

-----------------------------------------------------------------------------
(* Folders of the rules.                                                   *)

(* While nobody raced a user's rules against its folders, a rule that is   *)
(* about to be written names a folder that is there, and a folder that is  *)
(* about to be removed is named by no enabled rule.                        *)
Filed(u) ==
  ~raced[u] =>
    /\ \A i \in RulesOf(u) : rules[i].on => rules[i].folder \in folders[u] \cup {NoFolder}
    /\ \A r \in Requests : User(r) = u =>
         /\ pc[r] = "write" => job[r].rule.folder \in folders[u] \cup {NoFolder}
         /\ pc[r] = "rmdir" =>
              \A i \in RulesOf(u) : rules[i].on => rules[i].folder # job[r].folder

FolderInv == \A u \in Users : Filed(u)

(* A step that takes no folder away, touches no rule, and brings nobody to *)
(* the write of a rule or the removal of a folder.                         *)
LEMMA StillFiled ==
  ASSUME NEW u \in Users, Filed(u), raced'[u] = raced[u], folders[u] \subseteq folders'[u],
         \A i \in Requests : UserOf[i] = u => rules'[i] = rules[i],
         \A q \in Requests : User(q) = u /\ pc'[q] \in {"write", "rmdir"} =>
           pc'[q] = pc[q] /\ job'[q] = job[q]
  PROVE  Filed(u)'
<1>1. RulesOf(u)' = RulesOf(u) /\ \A i \in RulesOf(u) : rules'[i] = rules[i]
  BY DEF RulesOf
<1> QED
  BY <1>1 DEF Filed, User

(* A request that begins: a rule without a folder needs no look-up, and a  *)
(* folder that an enabled rule files into is not removed.                  *)
LEMMA ArrivalsFiled ==
  ASSUME Types, NEW r \in Requests, Arrive(r), NEW u \in Users, Filed(u)
  PROVE  Filed(u)'
<1> USE DEF Types
<1>1. ASSUME NEW j, NEW step \in {"lock", "done", "validate", "write", "rmdir"}, Begin(r, j, step)
      PROVE  /\ UNCHANGED <<rules, folders, raced>>
             /\ \A q \in Requests \ {r} : pc'[q] = pc[q] /\ job'[q] = job[q]
             /\ pc'[r] = step /\ (step # "done" => job'[r] = j)
  BY <1>1 DEF Begin, Goto, tables, mail, TypeOK
<1>2. ASSUME NEW j, NEW step \in {"lock", "done", "validate"}, Begin(r, j, step)
      PROVE  Filed(u)'
  BY <1>1, <1>2, StillFiled DEF User
<1>3. ASSUME NEW j, Begin(r, j, "write"), j.rule.folder = NoFolder
      PROVE  Filed(u)'
  <2>1. RulesOf(u)' = RulesOf(u)
    BY <1>1, <1>3 DEF RulesOf
  <2> QED
    BY <1>1, <1>3, <2>1 DEF Filed, User
<1>4. ASSUME NEW j, Begin(r, j, "rmdir"), ~UsedByRule(User(r), j.folder)
      PROVE  Filed(u)'
  <2>1. RulesOf(u)' = RulesOf(u)
    BY <1>1, <1>4 DEF RulesOf
  <2> QED
    BY <1>1, <1>4, <2>1 DEF Filed, User, UsedByRule
<1>5. CASE BeginSettings(r)
  BY <1>2, <1>5 DEF BeginSettings
<1>6. CASE BeginSync(r)
  BY <1>2, <1>6 DEF BeginSync
<1>7. CASE BeginRule(r)
  <2>1. PICK c \in Contents, i \in RulesOf(User(r)) \cup {r} :
          Begin(r, [NoJob EXCEPT !.kind = IF i = r THEN "create" ELSE "update", !.id = i,
                      !.rule = [on |-> c.on, folder |-> c.folder, body |-> c.body,
                                by |-> r]],
                IF c.folder = NoFolder THEN "write" ELSE "validate")
    BY <1>7 DEF BeginRule
  <2>2. CASE c.folder = NoFolder
    BY <1>3, <2>1, <2>2 DEF NoJob
  <2>3. CASE c.folder # NoFolder
    BY <1>2, <2>1, <2>3
  <2> QED
    BY <2>2, <2>3
<1>8. CASE BeginDelete(r)
  BY <1>3, <1>8 DEF BeginDelete, NoJob, NoRule
<1>9. CASE BeginRemoveFolder(r)
  <2>1. PICK f \in folders[User(r)] :
          Begin(r, [NoJob EXCEPT !.kind = "rmdir", !.folder = f],
                IF UsedByRule(User(r), f) THEN "done" ELSE "rmdir")
    BY <1>9 DEF BeginRemoveFolder
  <2>2. CASE UsedByRule(User(r), f)
    BY <1>2, <2>1, <2>2
  <2>3. CASE ~UsedByRule(User(r), f)
    BY <1>4, <2>1, <2>3 DEF NoJob
  <2> QED
    BY <2>2, <2>3
<1>10. CASE CreateFolder(r)
  <2>1. /\ UNCHANGED <<rules, raced>> /\ folders[u] \subseteq folders'[u]
        /\ \A q \in Requests : pc'[q] \in {"write", "rmdir"} => pc'[q] = pc[q] /\ job'[q] = job[q]
    BY <1>10 DEF CreateFolder, Goto, tables, TypeOK
  <2> QED
    BY <2>1, StillFiled
<1> QED
  BY <1>5, <1>6, <1>7, <1>8, <1>9, <1>10 DEF Arrive

(* The look-up lets a rule through whose folder is there; a rule is        *)
(* written, or a folder removed, unless the other is on its way.           *)
LEMMA FiledInductive ==
  ASSUME Types, Stage, Asked, NEW u \in Users, Filed(u), [Next]_vars
  PROVE  Filed(u)'
<1> USE DEF Types
<1>1. ASSUME NEW r \in Requests, Arrive(r) PROVE Filed(u)'
  BY <1>1, ArrivalsFiled
<1>2. ASSUME NEW r \in Requests, Validate(r) PROVE Filed(u)'
  <2>1. /\ UNCHANGED <<rules, folders, raced>>
        /\ \A q \in Requests \ {r} : pc'[q] = pc[q] /\ job'[q] = job[q]
    BY <1>2 DEF Validate, Proceed, Goto, tables, mail, TypeOK
  <2>2. /\ pc'[r] \in {"write", "done"}
        /\ pc'[r] = "write" => job'[r] = job[r] /\ job[r].rule.folder \in folders[User(r)]
    BY <1>2 DEF Validate, Proceed, Goto, TypeOK
  <2>3. RulesOf(u)' = RulesOf(u)
    BY <2>1 DEF RulesOf
  <2> QED
    BY <2>1, <2>2, <2>3 DEF Filed, User
<1>3. ASSUME NEW r \in Requests, Write(r) PROVE Filed(u)'
  <2>1. /\ pc[r] = "write" /\ folders' = folders
        /\ pc'[r] \in {"lock", "done"}
        /\ \A q \in Requests \ {r} : pc'[q] = pc[q] /\ job'[q] = job[q]
    BY <1>3 DEF Write, AfterWrite, Proceed, Goto, At, mail, TypeOK
  <2>2. rules' = rules \/ rules' = [rules EXCEPT ![job[r].id] = job[r].rule]
    BY <1>3 DEF Write
  <2>3. job[r].id \in Requests /\ UserOf[job[r].id] = User(r)
    BY <2>1 DEF Asked, User
  <2>4. CASE u # User(r)
    <3>1. raced'[u] = raced[u]
      BY <1>3, <2>4 DEF Write, TypeOK
    <3>2. \A i \in Requests : UserOf[i] = u => rules'[i] = rules[i]
      BY <2>2, <2>3, <2>4 DEF TypeOK
    <3> QED
      BY <2>1, <3>1, <3>2, StillFiled
  <2>5. CASE u = User(r)
    <3>1. raced'[u] = (raced[u] \/ \E q \in Requests : At(q, "rmdir") /\ User(q) = u)
      BY <1>3, <2>5 DEF Write, TypeOK
    <3>2. ASSUME ~raced'[u]
          PROVE  /\ ~raced[u]
                 /\ \A q \in Requests : User(q) = u => pc'[q] # "rmdir"
                 /\ job[r].rule.folder \in folders[u] \cup {NoFolder}
      BY <2>1, <2>5, <3>1, <3>2 DEF At, Filed
    <3>3. ASSUME NEW i \in RulesOf(u)', rules'[i].on, ~raced'[u]
          PROVE  rules'[i].folder \in folders[u] \cup {NoFolder}
      <4>1. CASE rules'[i] = rules[i]
        BY <3>2, <3>3, <4>1 DEF Filed, RulesOf
      <4>2. CASE rules'[i] # rules[i]
        BY <2>2, <2>3, <3>2, <3>3, <4>2 DEF RulesOf, TypeOK
      <4> QED
        BY <4>1, <4>2
    <3>4. ASSUME NEW q \in Requests, User(q) = u, pc'[q] = "write", ~raced'[u]
          PROVE  job'[q].rule.folder \in folders[u] \cup {NoFolder}
      BY <2>1, <3>2, <3>4 DEF Filed
    <3> QED
      BY <2>1, <3>2, <3>3, <3>4 DEF Filed, User
  <2> QED
    BY <2>4, <2>5
<1>4. ASSUME NEW r \in Requests, RemoveFolder(r) PROVE Filed(u)'
  <2>1. /\ pc[r] = "rmdir" /\ rules' = rules /\ pc'[r] = "done"
        /\ \A q \in Requests \ {r} : pc'[q] = pc[q] /\ job'[q] = job[q]
    BY <1>4 DEF RemoveFolder, Proceed, Goto, At, tables, TypeOK
  <2>2. CASE u # User(r)
    <3>1. raced'[u] = raced[u] /\ folders'[u] = folders[u]
      BY <1>4, <2>2 DEF RemoveFolder, TypeOK
    <3> QED
      BY <2>1, <3>1, StillFiled
  <2>3. CASE u = User(r)
    <3>1. /\ raced'[u] = (raced[u] \/ \E q \in Requests : At(q, "write") /\ User(q) = u)
          /\ folders'[u] = folders[u] \ {job[r].folder}
      BY <1>4, <2>3 DEF RemoveFolder, TypeOK
    <3>2. RulesOf(u)' = RulesOf(u)
      BY <2>1 DEF RulesOf
    <3>3. ASSUME ~raced'[u]
          PROVE  /\ ~raced[u]
                 /\ \A q \in Requests : User(q) = u => pc'[q] # "write"
                 /\ \A i \in RulesOf(u) : rules[i].on => rules[i].folder # job[r].folder
      BY <2>1, <2>3, <3>1, <3>3 DEF At, Filed
    <3>4. ASSUME ~raced'[u]
          PROVE  \A i \in RulesOf(u) : rules[i].on => rules[i].folder \in folders'[u] \cup {NoFolder}
      BY <3>1, <3>3, <3>4 DEF Filed
    <3>5. ASSUME NEW q \in Requests, User(q) = u, pc'[q] = "rmdir", ~raced'[u]
          PROVE  \A i \in RulesOf(u) : rules[i].on => rules[i].folder # job'[q].folder
      BY <2>1, <3>3, <3>5 DEF Filed
    <3> QED
      BY <2>1, <3>2, <3>3, <3>4, <3>5 DEF Filed, User
  <2> QED
    BY <2>2, <2>3
<1>5. ASSUME NEW r \in Requests, Lock(r) PROVE Filed(u)'
  <2>1. UNCHANGED <<rules, folders, raced>>
    BY <1>5 DEF Lock, tables, mail
  <2>2. \A q \in Requests : pc'[q] \in {"write", "rmdir"} => pc'[q] = pc[q] /\ job'[q] = job[q]
    BY <1>5 DEF Lock, Locking, Proceed, Goto, TypeOK
  <2> QED
    BY <2>1, <2>2, StillFiled
<1>6. ASSUME NEW r \in Requests, Synchronise(r) PROVE Filed(u)'
  <2>1. UNCHANGED <<rules, folders, raced>>
    BY <1>6 DEF Synchronise, Set, Read, PutScript, SetActive, Record, tables, mail
  <2>2. \A q \in Requests : pc'[q] \in {"write", "rmdir"} => pc'[q] = pc[q] /\ job'[q] = job[q]
    BY <1>6, SynchronisingTouches DEF Touches, Held
  <2> QED
    BY <2>1, <2>2, StillFiled
<1>7. CASE Crash
  BY <1>7, StillFiled DEF Crash, tables, mail
<1>8. CASE Finished \/ UNCHANGED vars
  BY <1>8, StillFiled DEF Finished, vars, tables, mail
<1> QED
  BY <1>1, <1>2, <1>3, <1>4, <1>5, <1>6, <1>7, <1>8 DEF Next, Continue

(* An enabled rule files into a folder that is there, for every user whose *)
(* folders and rules were not changed at the very same time.               *)
THEOREM RulesHaveFolders == Spec => []RuleFolderExists
<1>1. Init => FolderInv
  BY DEF Init, FolderInv, Filed, RulesOf
<1>2. Types /\ SyncInv /\ FolderInv /\ [Next]_vars => FolderInv'
  BY FiledInductive DEF SyncInv, FolderInv
<1>3. FolderInv => RuleFolderExists
  BY DEF FolderInv, Filed, RuleFolderExists
<1> QED
  BY <1>1, <1>2, <1>3, SyncHolds, PTL DEF Spec
=============================================================================
