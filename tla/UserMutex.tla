----------------------------- MODULE UserMutex -----------------------------
(***************************************************************************)
(* What _sieve_user_lock promises: among the threads that work for one     *)
(* mail user, one at a time is inside `with _sieve_user_lock(user)`.       *)
(* Threads of different users do not wait for each other here; that the    *)
(* locks live in a table of bounded size does not show.                    *)
(***************************************************************************)
CONSTANTS
  Threads,    \* whoever asks for the lock of a user
  UserOf      \* the user a thread works for

VARIABLE inside   \* the threads inside

MutexInit == inside = {}

(* A thread finds no other of its user inside. *)
Come(t) ==
  /\ \A s \in inside : UserOf[s] # UserOf[t]
  /\ inside' = inside \cup {t}

Go(t) ==
  /\ t \in inside
  /\ inside' = inside \ {t}

(* The process is killed with whoever is inside. *)
Restart == inside' = {}

MutexNext == (\E t \in Threads : Come(t) \/ Go(t)) \/ Restart

MutexSpec == MutexInit /\ [][MutexNext]_inside
=============================================================================
