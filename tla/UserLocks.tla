----------------------------- MODULE UserLocks -----------------------------
(***************************************************************************)
(* _sieve_user_lock: one re-entrant lock per mail user, kept in a          *)
(* dictionary of bounded size.                                             *)
(*                                                                         *)
(* A thread looks its user's entry up, or makes one, under the guard of    *)
(* the dictionary, and counts itself among the entry's users; it then      *)
(* waits for the entry's lock.  A full dictionary first gives up an entry  *)
(* nobody uses; where there is none, it grows, and shrinks again when the  *)
(* threads leave.  Two threads of one user must never meet with two        *)
(* different locks.                                                        *)
(*                                                                         *)
(* An entry is known by the thread that made it.  The count "refs" is the  *)
(* number of threads that have the entry in hand: every path that raises   *)
(* it lowers it in its "finally".  Which idle entry is given up (the       *)
(* oldest) is left open.                                                   *)
(***************************************************************************)
EXTENDS Integers, FiniteSets

CONSTANTS
  Threads,    \* whoever asks for a lock
  Users,      \* mail users
  UserOf,     \* the user a thread works for
  Nobody,     \* no thread, no entry
  MaxLocks    \* _SIEVE_USER_LOCKS_MAX

ASSUME LocksAssumption ==
  /\ UserOf \in [Threads -> Users]
  /\ IsFiniteSet(Users)
  /\ Nobody \notin Threads
  /\ MaxLocks \in Nat \ {0}

VARIABLES
  table,      \* _sieve_user_locks: the entry of a user
  mine,       \* the entry a thread has in hand
  holder,     \* who owns the lock of an entry
  at          \* how far a thread is with its lock

lockVars == <<table, mine, holder, at>>

Places == {"out", "wait", "in", "again", "left"}

(* Entries are threads, and so are the owners of locks. *)
LocksTypeOK ==
  /\ table \in [Users -> Threads \cup {Nobody}]
  /\ mine \in [Threads -> Threads \cup {Nobody}]
  /\ holder \in [Threads -> Threads \cup {Nobody}]
  /\ at \in [Threads -> Places]

LocksInit ==
  /\ table = [u \in Users |-> Nobody]
  /\ mine = [t \in Threads |-> Nobody]
  /\ holder = [t \in Threads |-> Nobody]
  /\ at = [t \in Threads |-> "out"]

Used(e) == \E t \in Threads : mine[t] = e
Kept == {u \in Users : table[u] # Nobody}

(* Mutation: any entry may go, also one that is in use. *)
EvictableAny(u) == table[u] # Nobody

Evictable(u) == table[u] # Nobody /\ ~Used(table[u])

(* The dictionary with a new entry of thread t. *)
NewEntry(t) ==
  LET grown == [table EXCEPT ![UserOf[t]] = t]
  IN  IF Cardinality(Kept) >= MaxLocks /\ \E u \in Users : Evictable(u)
      THEN \E u \in Users : Evictable(u) /\ table' = [grown EXCEPT ![u] = Nobody]
      ELSE table' = grown

Take(t) ==
  /\ at[t] = "out"
  /\ IF table[UserOf[t]] # Nobody
     THEN mine' = [mine EXCEPT ![t] = table[UserOf[t]]] /\ UNCHANGED table
     ELSE mine' = [mine EXCEPT ![t] = t] /\ NewEntry(t)
  /\ at' = [at EXCEPT ![t] = "wait"]
  /\ UNCHANGED holder

Enter(t) ==
  /\ at[t] = "wait" /\ holder[mine[t]] = Nobody
  /\ holder' = [holder EXCEPT ![mine[t]] = t]
  /\ at' = [at EXCEPT ![t] = "in"]
  /\ UNCHANGED <<table, mine>>

(* The synchronisation inside a change of settings asks for the lock the   *)
(* thread already owns: its entry is in use, and so still in the table.    *)
Reenter(t) ==
  /\ at[t] = "in" /\ table[UserOf[t]] = mine[t]
  /\ at' = [at EXCEPT ![t] = "again"]
  /\ UNCHANGED <<table, mine, holder>>

LeaveInner(t) ==
  /\ at[t] = "again"
  /\ at' = [at EXCEPT ![t] = "in"]
  /\ UNCHANGED <<table, mine, holder>>

Unlock(t) ==
  /\ at[t] = "in"
  /\ holder' = [holder EXCEPT ![mine[t]] = Nobody]
  /\ at' = [at EXCEPT ![t] = "left"]
  /\ UNCHANGED <<table, mine>>

(* Mutation: an entry that made the table grow is kept. *)
KeepsEntry(t) == TRUE

(* Others use the entry, or there is room for it. *)
StaysInTable(t) ==
  \/ \E q \in Threads \ {t} : mine[q] = mine[t]
  \/ Cardinality(Kept) <= MaxLocks

PutBack(t) ==
  /\ at[t] = "left"
  /\ table' = IF StaysInTable(t) THEN table
              ELSE [table EXCEPT ![UserOf[t]] = Nobody]
  /\ mine' = [mine EXCEPT ![t] = Nobody]
  /\ at' = [at EXCEPT ![t] = "out"]
  /\ UNCHANGED holder

(* A new process starts with an empty dictionary. *)
Forget ==
  /\ table' = [u \in Users |-> Nobody]
  /\ mine' = [t \in Threads |-> Nobody]
  /\ holder' = [t \in Threads |-> Nobody]
  /\ at' = [t \in Threads |-> "out"]

LocksNext ==
  \/ \E t \in Threads :
       Take(t) \/ Enter(t) \/ Reenter(t) \/ LeaveInner(t) \/ Unlock(t) \/ PutBack(t)
  \/ Forget

LocksSpec == LocksInit /\ [][LocksNext]_lockVars

Inside(t) == at[t] \in {"in", "again"}

(* No two threads of one user are inside at a time, however often entries  *)
(* were given up and made anew between them.                               *)
Exclusion ==
  \A s, t \in Threads :
    s # t /\ UserOf[s] = UserOf[t] => ~(Inside(s) /\ Inside(t))

(* The table of locks implements one mutex per user. *)
Mutex == INSTANCE UserMutex WITH inside <- {t \in Threads : Inside(t)}

(* Seen from outside, who comes in and who goes out is as if each user had *)
(* a lock of their own that is never thrown away.                          *)
ImplementsMutex == Mutex!MutexSpec

(* The dictionary only exceeds its limit with entries in use: when the     *)
(* threads have left, it is back within it.                                *)
TableBounded ==
  (\E u \in Users : Evictable(u)) => Cardinality(Kept) <= MaxLocks
=============================================================================
