---------------------------- MODULE AccountFile ----------------------------
(***************************************************************************)
(* The accounts of docker-mailserver: the file postfix-accounts.cf, a line *)
(* per account, and the maps that Postfix and Dovecot sign users in with.  *)
(*                                                                         *)
(* Two programs write the file.  The server does so itself (_mailserver_*  *)
(* _direct), one request at a time under a lock; the control agent does so *)
(* for the panel, one request at a time because its handlers never yield.  *)
(* They do not exclude each other.  Every change is a script run in the    *)
(* container: an append, or a rewrite, which copies the file and writes    *)
(* the copy back.  Then the maps are rebuilt ("apply"); when that fails,   *)
(* the change is taken back.  The container's change detector rebuilds the *)
(* maps too, some seconds after any change.                                *)
(*                                                                         *)
(* A hash is known by the request whose password it is of.  A script fails *)
(* before or after its effect; it has none after its docker client was     *)
(* given up, except where the client died with the server.                 *)
(***************************************************************************)
EXTENDS Integers, FiniteSets

CONSTANTS
  Accounts,   \* e-mail addresses
  Server,     \* requests handled by the server
  Agent,      \* requests handled by the control agent
  First,      \* the hash an account had before
  None,       \* no line
  Unknown,    \* nothing definite was answered
  Old,        \* accounts that exist at first
  Asks,       \* bound: the kinds of change a request may be
  MaxFaults   \* bound: failing scripts, and restarts

Requests == Server \cup Agent
Hashes == Requests \cup {First}
Kinds == {"add", "set", "delete"}

ASSUME AccountAssumption ==
  /\ Server \cap Agent = {}
  /\ First \notin Requests
  /\ None \notin Hashes /\ Unknown \notin Hashes \cup {None}
  /\ Old \subseteq Accounts
  /\ Asks \in [Requests -> SUBSET Kinds]
  /\ MaxFaults \in Nat

VARIABLES
  file,       \* postfix-accounts.cf
  live,       \* the maps in force
  pc,
  job,        \* the change a request makes, and to which account
  old,        \* the hash read before the change
  copy,       \* the rewritten file, before it is written back
  word,       \* history: what the answers say of an account
  wiped,      \* history: accounts whose line the agent's rollback took
  phantom,    \* history: accounts the agent set without a line
  crossed,    \* history: changes of server and agent met
  faults

store == <<file, wiped, phantom>>
vars == <<file, live, pc, job, old, copy, word, wiped, phantom, crossed, faults>>

Active == {"append", "read", "copy", "write", "apply", "copy back",
           "write back", "apply back", "delete"}
Files == [Accounts -> Hashes \cup {None}]
Empty == [a \in Accounts |-> None]
NoJob == [kind |-> "none", account |-> None]

(* File, maps and locals keep their shape. *)
TypeOK ==
  /\ file \in Files /\ live \in Files
  /\ pc \in [Requests -> Active \cup {"idle", "done"}]
  /\ job \in [Requests -> [kind : Kinds, account : Accounts] \cup {NoJob}]
  /\ old \in [Requests -> Hashes \cup {None}]
  /\ copy \in [Requests -> Files]
  /\ word \in [Accounts -> Hashes \cup {None, Unknown}]
  /\ wiped \subseteq Accounts /\ phantom \subseteq Accounts
  /\ crossed \in BOOLEAN
  /\ faults \in 0..MaxFaults

Init ==
  /\ file = [a \in Accounts |-> IF a \in Old THEN First ELSE None]
  /\ live = file /\ word = file
  /\ pc = [r \in Requests |-> "idle"]
  /\ job = [r \in Requests |-> NoJob]
  /\ old = [r \in Requests |-> None]
  /\ copy = [r \in Requests |-> Empty]
  /\ wiped = {} /\ phantom = {} /\ crossed = FALSE /\ faults = 0

-----------------------------------------------------------------------------
(* Helpers. *)

At(r, step) == pc[r] = step
Running(r) == pc[r] \in Active
Account(r) == job[r].account
Busy(a) == \E r \in Requests : Running(r) /\ Account(r) = a
Fault == faults < MaxFaults /\ faults' = faults + 1
Side(r) == IF r \in Server THEN Server ELSE Agent

(* The other program is at work on the account, or holds a copy of the     *)
(* file that it will write back.                                           *)
Meets(r, a) ==
  \E q \in Requests \ Side(r) :
    Running(q) /\ (Account(q) = a \/ pc[q] \in {"write", "write back"})
Crossing(r) == crossed' = (crossed \/ Meets(r, Account(r)))

Goto(r, step) ==
  pc' = [pc EXCEPT ![r] = step] /\ UNCHANGED <<job, old, copy, word>>

Forget(rs) ==
  /\ job' = [r \in Requests |-> IF r \in rs THEN NoJob ELSE job[r]]
  /\ old' = [r \in Requests |-> IF r \in rs THEN None ELSE old[r]]
  /\ copy' = [r \in Requests |-> IF r \in rs THEN Empty ELSE copy[r]]

(* The agent takes back a creation. *)
Wiping(r) == At(r, "write back") /\ job[r].kind = "add" /\ r \in Agent

(* r leaves this file.  An account stays wiped, or a phantom, until it has *)
(* a line again.                                                           *)
Put(r, f) ==
  LET taken == {a \in Accounts \ {Account(r)} : Wiping(r) /\ file[a] # None}
  IN  /\ file' = f
      /\ wiped' = {a \in wiped \cup taken : f[a] = None}
      /\ phantom' = {a \in phantom : f[a] = None}

(* The line is missing though an answer promised it. *)
Gone(a) == a \in wiped \cup phantom /\ file[a] = None

(* The request ends with an answer that says "said" of its account.        *)
Answer(r, said) ==
  /\ pc' = [pc EXCEPT ![r] = "done"] /\ Forget({r})
  /\ word' = [word EXCEPT ![Account(r)] = said]

(* It ends with an answer that says nothing new.                           *)
Refuse(r) == Answer(r, word[Account(r)])

(* Mutation: the transaction takes no lock. *)
FreeAlways(r) == TRUE

Free(r) == \A q \in Side(r) : ~Running(q)

-----------------------------------------------------------------------------
(* The steps of a change. *)

(* The lock is taken; the password is hashed, or cannot be.                *)
Begin(r) ==
  /\ At(r, "idle") /\ Free(r) /\ \A q \in Side(r) : q < r => ~At(q, "idle")
  /\ \E kind \in Asks[r], a \in Accounts :
       /\ job' = [job EXCEPT ![r] = [kind |-> kind, account |-> a]]
       /\ crossed' = (crossed \/ \E q \in Requests \ Side(r) :
                                  Running(q) /\ Account(q) = a)
       /\ pc' = [pc EXCEPT ![r] = CASE kind = "add" -> "append"
                                    [] kind = "set" -> "read"
                                    [] kind = "delete" -> "delete"]
  /\ UNCHANGED <<store, live, old, copy, word, faults>>

BeginFails(r) ==
  /\ At(r, "idle") /\ Fault
  /\ pc' = [pc EXCEPT ![r] = "done"]
  /\ UNCHANGED <<store, live, job, old, copy, word, crossed>>

(* Mutation: an account that exists gets the new line too. *)
ExistsNever(a) == FALSE

Exists(a) == file[a] # None

(* grep, then >>: in one script, without a copy. *)
Append(r) ==
  LET a == Account(r)
      longer == [file EXCEPT ![a] = r]
  IN  /\ At(r, "append")
      /\ \/ Exists(a) /\ Refuse(r) /\ UNCHANGED <<store, faults>>
         \/ ~Exists(a) /\ Put(r, longer) /\ Goto(r, "apply") /\ UNCHANGED faults
         \/ /\ ~Exists(a) /\ Fault /\ Answer(r, Unknown)
            /\ \E f \in {file, longer} : Put(r, f)
      /\ Crossing(r)
      /\ UNCHANGED live

(* The hash to go back to.  The agent goes on without one.                 *)
Remember(r, hash) ==
  /\ old' = [old EXCEPT ![r] = hash]
  /\ pc' = [pc EXCEPT ![r] = "copy"]
  /\ UNCHANGED <<job, copy, word>>

NoneRead(r) == IF r \in Server THEN Refuse(r) ELSE Remember(r, None)

ReadOld(r) ==
  /\ At(r, "read")
  /\ \/ Exists(Account(r)) /\ Remember(r, file[Account(r)]) /\ UNCHANGED faults
     \/ ~Exists(Account(r)) /\ NoneRead(r) /\ UNCHANGED faults
     \/ NoneRead(r) /\ Fault
  /\ UNCHANGED <<store, live, crossed>>

(* The file without the line of r's account.  The agent takes out every    *)
(* line: the "\|" of its pattern is an alternative that every line matches. *)
Without(r) == IF r \in Server THEN [file EXCEPT ![Account(r)] = None] ELSE Empty
Rewritten(r) ==
  CASE At(r, "copy") -> [file EXCEPT ![Account(r)] = r]
    [] job[r].kind = "add" -> Without(r)
    [] OTHER -> [file EXCEPT ![Account(r)] = old[r]]

(* A line that is missing fails the server's script; the agent's answers   *)
(* that it is updated and writes nothing.                                  *)
Copy(r) ==
  LET a == Account(r)
      back == At(r, "copy back")
      found == Exists(a) \/ job[r].kind = "add"
      failed == IF back THEN Answer(r, Unknown) ELSE Refuse(r)
  IN  /\ pc[r] \in {"copy", "copy back"}
      /\ \/ /\ found
            /\ copy' = [copy EXCEPT ![r] = Rewritten(r)]
            /\ pc' = [pc EXCEPT ![r] = IF back THEN "write back" ELSE "write"]
            /\ UNCHANGED <<job, old, word, phantom, faults>>
         \/ ~found /\ (r \in Server \/ back) /\ failed /\ UNCHANGED <<phantom, faults>>
         \/ /\ ~found /\ r \in Agent /\ ~back /\ Goto(r, "apply")
            /\ phantom' = phantom \cup {a} /\ UNCHANGED faults
         \/ failed /\ Fault /\ UNCHANGED phantom
      /\ UNCHANGED <<file, wiped, live, crossed>>

(* Mutation: the maps are not rebuilt from the file put back. *)
AfterWriteBackDone(r) == Answer(r, old[r])

(* The agent leaves the maps to the change detector.                       *)
AfterWriteBack(r) ==
  IF r \in Server THEN Goto(r, "apply back") ELSE Answer(r, Unknown)

Write(r) ==
  LET back == At(r, "write back")
  IN  /\ pc[r] \in {"write", "write back"}
      /\ \/ /\ Put(r, copy[r]) /\ UNCHANGED faults
            /\ IF back THEN AfterWriteBack(r) ELSE Goto(r, "apply")
         \/ /\ Fault /\ Answer(r, Unknown)
            /\ \E f \in {file, copy[r]} : Put(r, f)
      /\ Crossing(r)
      /\ UNCHANGED live

(* A reset by the agent has no hash to go back to when it read none.       *)
NothingRead(r) == job[r].kind = "set" /\ old[r] = None

Apply(r) ==
  /\ At(r, "apply")
  /\ \/ live' = file /\ Answer(r, r) /\ UNCHANGED faults
     \/ /\ live' \in {live, file} /\ Fault
        /\ IF NothingRead(r) THEN Answer(r, Unknown) ELSE Goto(r, "copy back")
  /\ UNCHANGED <<store, crossed>>

ApplyBack(r) ==
  /\ At(r, "apply back")
  /\ \/ live' = file /\ Answer(r, old[r]) /\ UNCHANGED faults
     \/ live' \in {live, file} /\ Answer(r, Unknown) /\ Fault
  /\ UNCHANGED <<store, crossed>>

(* "setup email del": the server takes a missing account for removed, the  *)
(* agent for a failure.                                                    *)
Deleted(r) == IF Exists(Account(r)) \/ r \in Server THEN Answer(r, None) ELSE Refuse(r)

Delete(r) ==
  LET a == Account(r)
      shorter == [file EXCEPT ![a] = None]
  IN  /\ At(r, "delete")
      /\ \/ Put(r, shorter) /\ Deleted(r) /\ UNCHANGED faults
         \/ Fault /\ Answer(r, Unknown) /\ \E f \in {file, shorter} : Put(r, f)
      /\ Crossing(r)
      /\ UNCHANGED live

Step(r) ==
  \/ Begin(r) \/ BeginFails(r) \/ Append(r) \/ ReadOld(r) \/ Copy(r)
  \/ Write(r) \/ Apply(r) \/ ApplyBack(r) \/ Delete(r)

-----------------------------------------------------------------------------

(* The container's change detector. *)
Detect ==
  /\ live # file /\ live' = file
  /\ UNCHANGED <<store, pc, job, old, copy, word, crossed, faults>>

(* A program is killed and started again.  The script it was waiting for   *)
(* may still write its copy back.                                          *)
Crash(side) ==
  LET cut == {r \in side : Running(r)}
  IN  /\ Fault /\ cut # {}
      /\ \/ UNCHANGED store
         \/ \E r \in cut : pc[r] \in {"write", "write back"} /\ Put(r, copy[r])
      /\ pc' = [r \in Requests |-> IF r \in cut THEN "done" ELSE pc[r]]
      /\ word' = [a \in Accounts |->
                   IF \E r \in cut : Account(r) = a THEN Unknown ELSE word[a]]
      /\ Forget(cut)
      /\ crossed' = (crossed \/ \E r \in cut : Meets(r, Account(r)))
      /\ UNCHANGED live

Finished == (\A r \in Requests : ~Running(r)) /\ live = file /\ UNCHANGED vars

Next ==
  \/ \E r \in Requests : Step(r)
  \/ Detect \/ Crash(Server) \/ Crash(Agent) \/ Finished

Spec == Init /\ [][Next]_vars

-----------------------------------------------------------------------------
(* Properties. *)

(* Between changes, the line of an account is what the last definite       *)
(* answer about it said: added or updated with a password, put back as it  *)
(* was, removed.  No change of another account, no rollback by the server  *)
(* and no restart touches it, unless server and agent rewrite the file at  *)
(* one time.  It is missing in two cases, which are defects of the agent:  *)
(* its rollback of a failed creation removes the line of every account     *)
(* ("wiped"), and it answers "updated" to the reset of an account that has *)
(* no line ("phantom").                                                    *)
FileAsSaid ==
  ~crossed =>
    \A a \in Accounts : ~Busy(a) /\ word[a] # Unknown => file[a] = word[a] \/ Gone(a)

(* And it is the password in force, without waiting for the detector,      *)
(* except that an account without its line loses its password too.         *)
LiveAsSaid ==
  ~crossed =>
    \A a \in Accounts : ~Busy(a) /\ word[a] \in Hashes =>
      live[a] = word[a] \/ (Gone(a) /\ live[a] = None)

(* While the programs do not meet, the line of an account is only changed  *)
(* by a request for this account, and by a creation only in taking back    *)
(* what it has added itself; the one step that takes the lines of others   *)
(* is the agent's rollback of a creation, and it takes them all.           *)
CreationKeepsAccounts ==
  [][\A a \in Accounts :
       file[a] # None /\ file'[a] # file[a] /\ ~crossed' =>
         \/ \E r \in Requests : Running(r) /\ Account(r) = a
              /\ (job[r].kind # "add" \/ file[a] = r)
         \/ \E r \in Agent : Wiping(r) /\ file' = Empty]_vars
=============================================================================
