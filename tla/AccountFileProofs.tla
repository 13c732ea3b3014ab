------------------------- MODULE AccountFileProofs -------------------------
(***************************************************************************)
(* Proofs about the accounts of docker-mailserver, for any number of       *)
(* accounts, requests and failing scripts.                                 *)
(*                                                                         *)
(* The argument: as long as the two programs do not meet, a request that   *)
(* is under way is alone with its account, a copy of the file that it will *)
(* write back differs from the file in that account's line only, or is     *)
(* empty and an agent's rollback, and what was last said of every other    *)
(* account is still true, or the account is recorded as gone.              *)
(***************************************************************************)
EXTENDS AccountFile, TLAPS

(* What a request is for, and that each program works on one at a time.    *)
Jobs ==
  \A r \in Requests :
    /\ pc[r] = "idle" => old[r] = None
    /\ Running(r) => job[r] \in [kind : Kinds, account : Accounts]
    /\ pc[r] = "append" => job[r].kind = "add"
    /\ pc[r] \in {"read", "copy", "write"} => job[r].kind = "set"
    /\ pc[r] = "delete" => job[r].kind = "delete"
    /\ pc[r] \in {"apply", "copy back", "write back", "apply back"} => job[r].kind \in {"add", "set"}
    /\ job[r].kind = "add" => old[r] = None
Alone ==
  \A r, q \in Requests :
    Running(r) /\ Running(q) /\ (r \in Server <=> q \in Server) => r = q
Types == TypeOK /\ Jobs /\ Alone
Locals ==
  /\ pc \in [Requests -> Active \cup {"idle", "done"}]
  /\ job \in [Requests -> [kind : Kinds, account : Accounts] \cup {NoJob}]
  /\ old \in [Requests -> Hashes \cup {None}]
  /\ copy \in [Requests -> Files]
  /\ Jobs /\ Alone
Words == word \in [Accounts -> Hashes \cup {None, Unknown}]

(* A request that ends, with an answer or by a restart, leaves the others  *)
(* as they are.                                                            *)
LEMMA Ends ==
  ASSUME AccountAssumption, Types, NEW rs \in SUBSET Requests,
         pc' = [r \in Requests |-> IF r \in rs THEN "done" ELSE pc[r]], Forget(rs)
  PROVE  Locals'
<1> USE DEF Types
<1>1. Empty \in Files
  BY DEF Empty, Files
<1>2. /\ pc' \in [Requests -> Active \cup {"idle", "done"}]
      /\ job' \in [Requests -> [kind : Kinds, account : Accounts] \cup {NoJob}]
      /\ old' \in [Requests -> Hashes \cup {None}]
      /\ copy' \in [Requests -> Files]
  BY <1>1 DEF Forget, TypeOK
<1>3. \A q \in Requests : Running(q)' =>
        Running(q) /\ pc'[q] = pc[q] /\ job'[q] = job[q] /\ old'[q] = old[q]
  BY DEF Forget, TypeOK, Running, Active
<1>4. Jobs'
  BY <1>2, <1>3 DEF Jobs, Forget, NoJob, Running, Active, TypeOK
<1>5. Alone'
  BY <1>3 DEF Alone
<1> QED
  BY <1>2, <1>4, <1>5 DEF Locals

(* An answer is the end of one request. *)
LEMMA Answers ==
  ASSUME AccountAssumption, Types, NEW r \in Requests,
         NEW said \in Hashes \cup {None, Unknown}, Answer(r, said)
  PROVE  Locals' /\ Words'
<1>1. pc' = [q \in Requests |-> IF q \in {r} THEN "done" ELSE pc[q]] /\ Forget({r})
  BY DEF Answer, Types, TypeOK
<1>2. word' \in [Accounts -> Hashes \cup {None, Unknown}]
  BY DEF Answer, Types, TypeOK
<1> QED
  BY <1>1, <1>2, Ends DEF Words

(* A request that goes on to its next step. *)
LEMMA GoesOn ==
  ASSUME AccountAssumption, Types, NEW r \in Requests, Running(r),
         NEW step \in Active, pc' = [pc EXCEPT ![r] = step],
         UNCHANGED <<job, word>>,
         step \in {"read", "copy", "write"} => job[r].kind = "set",
         step \in {"apply", "copy back", "write back", "apply back"} => job[r].kind \in {"add", "set"},
         step \notin {"append", "delete"},
         \/ UNCHANGED old
         \/ job[r].kind = "set" /\ \E hash \in Hashes \cup {None} : old' = [old EXCEPT ![r] = hash],
         UNCHANGED copy \/ \E f \in Files : copy' = [copy EXCEPT ![r] = f]
  PROVE  Locals' /\ Words'
<1> USE DEF Types
<1>1. /\ pc' \in [Requests -> Active \cup {"idle", "done"}]
      /\ job' \in [Requests -> [kind : Kinds, account : Accounts] \cup {NoJob}]
      /\ old' \in [Requests -> Hashes \cup {None}]
      /\ copy' \in [Requests -> Files]
      /\ word' \in [Accounts -> Hashes \cup {None, Unknown}]
  <2>1. pc' \in [Requests -> Active \cup {"idle", "done"}]
    BY DEF TypeOK
  <2>2. old' \in [Requests -> Hashes \cup {None}]
    BY DEF TypeOK
  <2>3. copy' \in [Requests -> Files]
    BY DEF TypeOK
  <2> QED
    BY <2>1, <2>2, <2>3 DEF TypeOK
<1>2. Jobs'
  <2>1. ASSUME NEW q \in Requests, q # r
        PROVE  pc'[q] = pc[q] /\ job'[q] = job[q] /\ old'[q] = old[q]
    BY <2>1 DEF TypeOK
  <2>2. pc'[r] = step /\ job'[r] = job[r] /\ job[r] \in [kind : Kinds, account : Accounts]
    BY DEF TypeOK, Jobs
  <2>3. job[r].kind = "add" => old'[r] = None
    BY DEF TypeOK, Jobs
  <2>4. Running(r)'
    BY <2>2 DEF Running
  <2>5. ASSUME NEW q \in Requests
        PROVE  /\ pc'[q] = "idle" => old'[q] = None
               /\ Running(q)' => job'[q] \in [kind : Kinds, account : Accounts]
               /\ pc'[q] = "append" => job'[q].kind = "add"
               /\ pc'[q] \in {"read", "copy", "write"} => job'[q].kind = "set"
               /\ pc'[q] = "delete" => job'[q].kind = "delete"
               /\ pc'[q] \in {"apply", "copy back", "write back", "apply back"}
                    => job'[q].kind \in {"add", "set"}
               /\ job'[q].kind = "add" => old'[q] = None
    <3>1. CASE q = r
      BY <2>2, <2>3, <3>1 DEF Active
    <3>2. CASE q # r
      BY <2>1, <3>2 DEF Jobs, Running
    <3> QED
      BY <3>1, <3>2
  <2> QED
    BY <2>5 DEF Jobs
<1>3. Alone'
  BY DEF Alone, TypeOK, Running
<1> QED
  BY <1>1, <1>2, <1>3 DEF Locals, Words

(* Where a request may be, and whose account it has in hand. *)
LEMMA AtWork ==
  ASSUME AccountAssumption, Types, NEW r \in Requests, pc[r] \in Active
  PROVE  /\ Running(r) /\ job[r] \in [kind : Kinds, account : Accounts]
         /\ Account(r) \in Accounts
         /\ word[Account(r)] \in Hashes \cup {None, Unknown}
         /\ file[Account(r)] \in Hashes \cup {None}
         /\ old[r] \in Hashes \cup {None} /\ copy[r] \in Files
BY DEF Types, TypeOK, Jobs, Running, Account, Files

(* A request that ends without a change of its account. *)
LEMMA Refuses ==
  ASSUME AccountAssumption, Types, NEW r \in Requests, pc[r] \in Active, Refuse(r)
  PROVE  Locals' /\ Words'
BY AtWork, Answers DEF Refuse

(* The type invariant is inductive, with what requests are for. *)
LEMMA TypesInductive ==
  ASSUME AccountAssumption, Types, [Next]_vars
  PROVE  Types'
<1> DEFINE Gaps == wiped \subseteq Accounts /\ phantom \subseteq Accounts
           Shared == Gaps /\ file \in Files /\ live \in Files /\ crossed \in BOOLEAN /\ faults \in 0..MaxFaults
<1>a. ASSUME Locals', Words', Shared' PROVE Types'
  BY <1>a DEF Locals, Words, TypeOK, Types
<1>b. ASSUME Fault PROVE faults' \in 0..MaxFaults
  BY <1>b DEF Fault, Types, TypeOK, AccountAssumption
<1>c. Shared
  BY DEF Types, TypeOK
<1>d. UNCHANGED faults => faults' \in 0..MaxFaults
  BY <1>c
<1>e. ASSUME NEW r \in Requests, Crossing(r) PROVE crossed' \in BOOLEAN
  BY <1>c, <1>e DEF Crossing
<1>f. UNCHANGED store => Gaps'
  BY <1>c DEF store
<1>g. ASSUME NEW r \in Requests, NEW f \in Files, Put(r, f) PROVE Gaps' /\ file' \in Files
  BY <1>c, <1>g DEF Put
<1>1. ASSUME NEW r \in Requests, Begin(r) PROVE Types'
  <2>1. PICK kind \in Asks[r], a \in Accounts :
          /\ job' = [job EXCEPT ![r] = [kind |-> kind, account |-> a]]
          /\ pc' = [pc EXCEPT ![r] = CASE kind = "add" -> "append"
                                       [] kind = "set" -> "read"
                                       [] kind = "delete" -> "delete"]
    BY <1>1 DEF Begin
  <2>2. UNCHANGED <<store, live, old, copy, word, faults>> /\ crossed' \in BOOLEAN /\ At(r, "idle") /\ Free(r)
    BY <1>1, <1>c DEF Begin
  <2>3. kind \in Kinds
    BY <2>1 DEF AccountAssumption
  <2>4. \A q \in Requests : q # r => pc'[q] = pc[q] /\ job'[q] = job[q]
    BY <2>1 DEF Types, TypeOK
  <2>5. /\ job'[r] = [kind |-> kind, account |-> a]
        /\ pc'[r] = IF kind = "add" THEN "append" ELSE IF kind = "set" THEN "read" ELSE "delete"
    BY <2>1, <2>3 DEF Types, TypeOK, Kinds
  <2>6. pc' \in [Requests -> Active \cup {"idle", "done"}]
    BY <2>1, <2>3 DEF Types, TypeOK, Kinds, Active
  <2>7. job' \in [Requests -> [kind : Kinds, account : Accounts] \cup {NoJob}]
    BY <2>1, <2>3 DEF Types, TypeOK
  <2>8. Jobs'
    <3>1. old[r] = None
      BY <2>2 DEF Types, Jobs, At
    <3>2. \A q \in Requests : q # r => old'[q] = old[q]
      BY <2>2
    <3>3. job'[r] \in [kind : Kinds, account : Accounts] /\ job'[r].kind = kind
      BY <2>3, <2>5
    <3> QED
      BY <2>2, <2>4, <2>5, <3>1, <3>2, <3>3 DEF Types, Jobs, Running, Kinds, Active
  <2>9. Alone'
    BY <2>2, <2>4 DEF Types, Alone, Running, Free, Side, Requests
  <2> QED
    BY <1>a, <1>c, <1>f, <2>2, <2>6, <2>7, <2>8, <2>9 DEF Locals, Words, Types, TypeOK, store
<1>2. ASSUME NEW r \in Requests, BeginFails(r) PROVE Types'
  <2>1. faults' \in 0..MaxFaults
    BY <1>2, <1>b DEF BeginFails
  <2>2. pc' = [pc EXCEPT ![r] = "done"] /\ UNCHANGED <<store, live, job, old, copy, word, crossed>>
    BY <1>2 DEF BeginFails
  <2>3. pc' \in [Requests -> Active \cup {"idle", "done"}]
    BY <2>2 DEF Types, TypeOK
  <2>4. Jobs' /\ Alone'
    BY <2>2 DEF Types, TypeOK, Jobs, Alone, Running, Active
  <2> QED
    BY <1>a, <1>c, <1>f, <2>1, <2>2, <2>3, <2>4 DEF Locals, Words, Types, TypeOK, store
<1>3. ASSUME NEW r \in Requests, Append(r) PROVE Types'
  <2> USE DEF At
  <2>1. pc[r] = "append" /\ pc[r] \in Active
    BY <1>3 DEF Append, Active
  <2>2. [file EXCEPT ![Account(r)] = r] \in Files
    BY <1>c, <2>1, AtWork DEF Files, Hashes
  <2>3. Locals' /\ Words'
    <3>1. ASSUME Goto(r, "apply") PROVE Locals' /\ Words'
      BY <2>1, <3>1, GoesOn, AtWork DEF Goto, Active, Types, Jobs
    <3> QED
      BY <1>3, <2>1, <3>1, Refuses, AtWork, Answers DEF Append
  <2>4. Shared'
    BY <1>3, <1>b, <1>c, <1>d, <1>e, <1>f, <1>g, <2>2 DEF Append, store
  <2> QED
    BY <1>a, <2>3, <2>4
<1>4. ASSUME NEW r \in Requests, ReadOld(r) PROVE Types'
  <2>1. pc[r] = "read" /\ pc[r] \in Active
    BY <1>4 DEF ReadOld, Active, At
  <2>2. ASSUME NEW hash \in Hashes \cup {None}, Remember(r, hash) PROVE Locals' /\ Words'
    BY <2>1, <2>2, GoesOn, AtWork DEF Remember, Active, Types, Jobs
  <2>3. ASSUME NoneRead(r) PROVE Locals' /\ Words'
    BY <2>1, <2>2, <2>3, Refuses DEF NoneRead
  <2>4. Locals' /\ Words'
    BY <1>4, <2>1, <2>2, <2>3, AtWork DEF ReadOld
  <2>5. Shared'
    BY <1>4, <1>b, <1>c, <1>d, <1>f DEF ReadOld, store
  <2> QED
    BY <1>a, <2>4, <2>5
<1>5. ASSUME NEW r \in Requests, Copy(r) PROVE Types'
  <2>1. pc[r] \in {"copy", "copy back"} /\ pc[r] \in Active
    BY <1>5 DEF Copy, Active, At
  <2>2. Rewritten(r) \in Files
    <3>1. Empty \in Files
      BY DEF Empty, Files
    <3> QED
      BY <1>c, <2>1, <3>1, AtWork DEF Rewritten, Without, Files, Hashes, At
  <2>3. ASSUME copy' = [copy EXCEPT ![r] = Rewritten(r)], UNCHANGED <<job, old, word>>,
               pc' = [pc EXCEPT ![r] = IF At(r, "copy back") THEN "write back" ELSE "write"]
        PROVE  Locals' /\ Words'
    <3> DEFINE step == IF At(r, "copy back") THEN "write back" ELSE "write"
    <3>1. /\ step \in Active /\ step \notin {"append", "delete"}
          /\ step \in {"read", "copy", "write"} => job[r].kind = "set"
          /\ step \in {"apply", "copy back", "write back", "apply back"} => job[r].kind \in {"add", "set"}
      BY <2>1 DEF Types, Jobs, At, Active
    <3>2. pc' = [pc EXCEPT ![r] = step] /\ Running(r)
      BY <2>1, <2>3 DEF Running
    <3> HIDE DEF step
    <3> QED
      BY <2>2, <2>3, <3>1, <3>2, GoesOn
  <2>4. ASSUME Goto(r, "apply") PROVE Locals' /\ Words'
    BY <2>1, <2>4, GoesOn, AtWork DEF Goto, Active, Types, Jobs
  <2>5. Answer(r, Unknown) \/ Refuse(r) => Locals' /\ Words'
    BY <2>1, Refuses, Answers, AtWork
  <2>6. Locals' /\ Words'
    BY <1>5, <2>3, <2>4, <2>5 DEF Copy
  <2>7. Shared'
    BY <1>5, <1>b, <1>c, <1>d, <2>1, AtWork DEF Copy
  <2> QED
    BY <1>a, <2>6, <2>7
<1>6. ASSUME NEW r \in Requests, Write(r) PROVE Types'
  <2>1. pc[r] \in {"write", "write back"} /\ pc[r] \in Active
    BY <1>6 DEF Write, Active, At
  <2>2. \A step \in {"apply", "apply back"} : Goto(r, step) => Locals' /\ Words'
    BY <2>1, GoesOn, AtWork DEF Goto, Active, Types, Jobs
  <2>3. Answer(r, Unknown) => Locals' /\ Words'
    BY <2>1, Answers, AtWork
  <2>4. Locals' /\ Words'
    BY <1>6, <2>2, <2>3 DEF Write, AfterWriteBack
  <2>5. file' \in Files /\ live' \in Files /\ Gaps'
    BY <1>6, <1>c, <1>g, <2>1, AtWork DEF Write
  <2>6. crossed' \in BOOLEAN /\ faults' \in 0..MaxFaults
    BY <1>6, <1>b, <1>c, <1>d, <1>e DEF Write
  <2> QED
    BY <1>a, <2>4, <2>5, <2>6
<1>7. ASSUME NEW r \in Requests, Apply(r) PROVE Types'
  <2>1. pc[r] = "apply" /\ pc[r] \in Active
    BY <1>7 DEF Apply, Active, At
  <2>2. Goto(r, "copy back") => Locals' /\ Words'
    BY <2>1, GoesOn, AtWork DEF Goto, Active, Types, Jobs
  <2>3. \A said \in {Unknown, r} : Answer(r, said) => Locals' /\ Words'
    BY <2>1, Answers, AtWork DEF Hashes
  <2>4. Locals' /\ Words'
    BY <1>7, <2>2, <2>3 DEF Apply
  <2>5. Shared'
    BY <1>7, <1>b, <1>c, <1>d, <1>f DEF Apply, store
  <2> QED
    BY <1>a, <2>4, <2>5
<1>8. ASSUME NEW r \in Requests, ApplyBack(r) PROVE Types'
  <2>1. pc[r] \in Active
    BY <1>8 DEF ApplyBack, Active, At
  <2>2. \A said \in {Unknown, old[r]} : Answer(r, said) => Locals' /\ Words'
    BY <2>1, Answers, AtWork
  <2>3. Shared'
    BY <1>8, <1>b, <1>c, <1>d, <1>f DEF ApplyBack, store
  <2> QED
    BY <1>8, <1>a, <2>2, <2>3 DEF ApplyBack
<1>9. ASSUME NEW r \in Requests, Delete(r) PROVE Types'
  <2>1. pc[r] \in Active
    BY <1>9 DEF Delete, Active, At
  <2>2. \A said \in {Unknown, None} : Answer(r, said) => Locals' /\ Words'
    BY <2>1, Answers, AtWork
  <2>3. Locals' /\ Words'
    BY <1>9, <2>1, <2>2, Refuses DEF Delete, Deleted
  <2>4. [file EXCEPT ![Account(r)] = None] \in Files
    BY <1>c, <2>1, AtWork DEF Files
  <2>5. Shared'
    BY <1>9, <1>b, <1>c, <1>d, <1>e, <1>g, <2>4 DEF Delete
  <2> QED
    BY <1>a, <2>3, <2>5
<1>10. ASSUME NEW side \in {Server, Agent}, Crash(side) PROVE Types'
  <2> DEFINE cut == {r \in side : Running(r)}
  <2>1. cut \in SUBSET Requests
    BY DEF Requests
  <2>2. Locals'
    BY <1>10, <2>1, Ends DEF Crash
  <2>3. Words'
    BY <1>10 DEF Crash, Words, Types, TypeOK
  <2>4. file' \in Files /\ Gaps'
    <3>1. \A r \in cut : copy[r] \in Files
      BY <2>1, AtWork DEF Running
    <3> QED
      BY <1>10, <1>c, <1>f, <1>g, <2>1, <3>1 DEF Crash, store
  <2>5. live' \in Files /\ crossed' \in BOOLEAN /\ faults' \in 0..MaxFaults
    BY <1>10, <1>b, <1>c DEF Crash
  <2> QED
    BY <1>a, <2>2, <2>3, <2>4, <2>5
<1>11. ASSUME Detect \/ Finished \/ UNCHANGED vars PROVE Types'
  BY <1>11 DEF Detect, Finished, vars, store, Types, TypeOK, Jobs, Alone, Running
<1> QED
  BY <1>1, <1>2, <1>3, <1>4, <1>5, <1>6, <1>7, <1>8, <1>9, <1>10, <1>11 DEF Next, Step

(* At first the types hold. *)
LEMMA TypesInitially ==
  ASSUME AccountAssumption, Init
  PROVE  Types
<1>1. file \in Files /\ Empty \in Files
  BY DEF Init, Files, Hashes, Empty
<1>2. live \in Files /\ word \in [Accounts -> Hashes \cup {None, Unknown}]
  BY <1>1 DEF Init, Hashes
<1>3. /\ pc \in [Requests -> Active \cup {"idle", "done"}]
      /\ old \in [Requests -> Hashes \cup {None}]
  BY DEF Init
<1>4. /\ job \in [Requests -> [kind : Kinds, account : Accounts] \cup {NoJob}]
      /\ copy \in [Requests -> Files]
  BY <1>1 DEF Init
<1>5. crossed \in BOOLEAN /\ faults \in 0..MaxFaults
  <2>1. crossed \in BOOLEAN
    BY DEF Init
  <2>2. faults = 0 /\ MaxFaults \in Nat
    BY DEF Init, AccountAssumption
  <2>3. faults \in 0..MaxFaults
    BY <2>2
  <2> QED
    BY <2>1, <2>3
<1>w. wiped \subseteq Accounts /\ phantom \subseteq Accounts
  BY DEF Init
<1>6. TypeOK
  BY <1>1, <1>2, <1>3, <1>4, <1>5, <1>w, Zenon DEF TypeOK
<1>7. Jobs /\ Alone
  BY DEF Init, Jobs, Alone, Running, Active, NoJob
<1> QED
  BY <1>6, <1>7 DEF Types

(* File, maps and locals keep their shape: postfix-accounts.cf has at most *)
(* one line per account, and a request works on one account.               *)
THEOREM TypeCorrect == Spec => []TypeOK
<1>1. Init => Types
  BY AccountAssumption, TypesInitially
<1>2. Types /\ [Next]_vars => Types'
  BY AccountAssumption, TypesInductive
<1>3. Types => TypeOK
  BY DEF Types
<1> QED
  BY <1>1, <1>2, <1>3, PTL DEF Spec

-----------------------------------------------------------------------------
(* What holds as long as the programs have not met.                        *)

Apart ==
  \A r, q \in Requests : Running(r) /\ Running(q) /\ r # q => Account(r) # Account(q)

(* File and maps are what was last said of the account, or it is gone.     *)
Agreed(a) ==
  /\ word[a] # Unknown => file[a] = word[a] \/ Gone(a)
  /\ word[a] \in Hashes => live[a] = word[a] \/ (Gone(a) /\ live[a] = None)

(* What a request knows of the file at each of its steps.                  *)
Place(r) ==
  LET a == Account(r)
  IN  /\ pc[r] \in {"append", "read", "copy", "write", "delete"} => Agreed(a)
      /\ pc[r] \in {"apply", "copy back", "write back"} => file[a] = r \/ Gone(a)
      /\ pc[r] = "write back" => copy[r][a] = old[r]
      /\ pc[r] = "apply back" => file[a] = old[r] \/ Gone(a)
      /\ pc[r] = "write" => copy[r][a] = r
      /\ Wiping(r) => copy[r] = Empty
      /\ pc[r] \in {"write", "write back"} /\ ~Wiping(r) =>
           \A b \in Accounts \ {a} : copy[r][b] = file[b]

Kept ==
  ~crossed =>
    /\ Apart
    /\ \A a \in Accounts : ~Busy(a) => Agreed(a)
    /\ \A r \in Requests : Running(r) => Place(r)

(* A step of r leaves the locals of the others, and the other accounts,    *)
(* or removes their lines and records it.                                  *)
OthersWait(r) ==
  \A q \in Requests \ {r} :
    pc'[q] = pc[q] /\ job'[q] = job[q] /\ old'[q] = old[q] /\ copy'[q] = copy[q]
OthersStay(r) ==
  \A b \in Accounts \ {Account(r)} :
    word'[b] = word[b] /\ (Gone(b)' \/ (file'[b] = file[b] /\ ~Gone(b)))

(* Two requests under way at a time are of different programs.             *)
LEMMA Opposite ==
  ASSUME AccountAssumption, Types, NEW r \in Requests, Running(r),
         NEW q \in Requests, Running(q), q # r
  PROVE  q \in Requests \ Side(r)
BY DEF Types, Alone, Side, Requests, AccountAssumption

(* Where the programs do not meet, no other request has a copy in hand.    *)
LEMMA NotMet ==
  ASSUME AccountAssumption, Types, NEW r \in Requests, Running(r), ~Meets(r, Account(r))
  PROVE  \A q \in Requests \ {r} : pc[q] \notin {"write", "write back"}
<1> SUFFICES ASSUME NEW q \in Requests \ {r}, pc[q] \in {"write", "write back"}
             PROVE  FALSE
  OBVIOUS
<1>1. Running(q)
  BY DEF Running, Active
<1> QED
  BY <1>1, Opposite DEF Meets

(* A request that ends with an answer says it of its account, and nothing  *)
(* of the others.                                                          *)
LEMMA Answered ==
  ASSUME AccountAssumption, Types, NEW r \in Requests, pc[r] \in Active,
         NEW said \in Hashes \cup {None, Unknown}, Answer(r, said)
  PROVE  /\ OthersWait(r) /\ ~Running(r)' /\ word'[Account(r)] = said
         /\ \A b \in Accounts \ {Account(r)} : word'[b] = word[b]
<1>1. OthersWait(r)
  BY DEF Answer, Forget, OthersWait, Types, TypeOK
<1>2. pc'[r] = "done"
  BY DEF Answer, Types, TypeOK
<1>3. Account(r) \in Accounts
  BY AtWork
<1>4. ~Running(r)'
  BY <1>2 DEF Running, Active
<1>5. word' = [word EXCEPT ![Account(r)] = said] /\ DOMAIN word = Accounts
  BY DEF Answer, Types, TypeOK
<1> QED
  BY <1>1, <1>3, <1>4, <1>5

(* A step that keeps to its own account leaves the others as they were.    *)
LEMMA Others ==
  ASSUME AccountAssumption, Types, Kept, ~crossed, NEW r \in Requests, pc[r] \in Active,
         OthersWait(r), OthersStay(r), live' \in {live, file},
         file' = file \/ \A q \in Requests \ {r} : pc[q] \notin {"write", "write back"},
         Running(r)' => job'[r] = job[r] /\ Place(r)',
         NEW a \in Accounts, a = Account(r), Running(r)' \/ Agreed(a)'
  PROVE  Kept'
<1>1. Apart /\ (\A b \in Accounts : ~Busy(b) => Agreed(b)) /\ \A q \in Requests : Running(q) => Place(q)
  BY DEF Kept
<1>2. Running(r)
  BY AtWork
<1>3. \A q \in Requests \ {r} :
        /\ (Running(q)' <=> Running(q)) /\ Account(q)' = Account(q)
        /\ (At(q, "write back")' <=> At(q, "write back")) /\ (Wiping(q)' <=> Wiping(q))
        /\ (NothingRead(q)' <=> NothingRead(q))
  BY DEF OthersWait, Running, Account, Wiping, At, NothingRead
<1>4. Running(r)' => Account(r)' = Account(r)
  BY DEF Account
<1>5. Apart'
  BY <1>1, <1>2, <1>3, <1>4 DEF Apart
<1>6. ASSUME NEW b \in Accounts, b # Account(r), Agreed(b) PROVE Agreed(b)'
  <2>1. word'[b] = word[b] /\ (Gone(b)' \/ (file'[b] = file[b] /\ ~Gone(b)))
    BY <1>6 DEF OthersStay
  <2>2. live'[b] \in {live[b], file[b]}
    OBVIOUS
  <2>3. word[b] \in Hashes => word[b] # Unknown
    BY DEF AccountAssumption
  <2>4. Gone(b) => file[b] = None
    BY DEF Gone
  <2>5. word[b] \in Hashes =>
          /\ file[b] \in {word[b], None} /\ live[b] \in {word[b], None}
          /\ ~Gone(b) => file[b] = word[b] /\ live[b] = word[b]
    BY <1>6, <2>3, <2>4 DEF Agreed
  <2>6. CASE Gone(b)'
    BY <2>1, <2>2, <2>5, <2>6 DEF Agreed
  <2>7. CASE ~Gone(b)'
    BY <1>6, <2>1, <2>2, <2>5, <2>7 DEF Agreed
  <2> QED
    BY <2>6, <2>7
<1>7. ASSUME NEW q \in Requests \ {r}, Running(q)' PROVE Place(q)'
  <2>1. Place(q) /\ Account(q) # Account(r) /\ Account(q) \in Accounts
    BY <1>1, <1>2, <1>3, <1>7, AtWork DEF Apart, Running
  <2>2. pc'[q] = pc[q] /\ job'[q] = job[q] /\ old'[q] = old[q] /\ copy'[q] = copy[q]
    BY DEF OthersWait
  <2>3. PICK b \in Accounts : b = Account(q)
    BY <2>1
  <2>4. Account(q)' = b /\ b # Account(r)
    BY <1>3, <2>1, <2>3
  <2>5. Gone(b)' \/ (file'[b] = file[b] /\ ~Gone(b))
    BY <2>4 DEF OthersStay
  <2>6. Agreed(b) => Agreed(b)'
    BY <1>6, <2>4
  <2>7. /\ pc'[q] \in {"append", "read", "copy", "write", "delete"} => Agreed(b)'
        /\ pc'[q] \in {"apply", "copy back", "write back"} => file'[b] = q \/ Gone(b)'
        /\ pc'[q] = "write back" => copy'[q][b] = old'[q]
        /\ pc'[q] = "apply back" => file'[b] = old'[q] \/ Gone(b)'
        /\ pc'[q] = "write" => copy'[q][b] = q
        /\ Wiping(q)' => copy'[q] = Empty
    BY <1>3, <2>1, <2>2, <2>3, <2>5, <2>6 DEF Place
  <2>8. pc'[q] \in {"write", "write back"} /\ ~Wiping(q)' =>
          \A c \in Accounts \ {b} : copy'[q][c] = file'[c]
    BY <1>3, <2>1, <2>2, <2>3 DEF Place
  <2>9. Empty' = Empty
    BY DEF Empty
  <2> QED
    BY <2>4, <2>7, <2>8, <2>9 DEF Place
<1>8. ASSUME NEW b \in Accounts, ~Busy(b)' PROVE Agreed(b)'
  <2>1. CASE b = a
    <3>1. ~Running(r)'
      BY <1>4, <1>8, <2>1 DEF Busy
    <3> QED
      BY <2>1, <3>1
  <2>2. CASE b # a
    <3>1. ~Busy(b)
      BY <1>3, <1>8, <2>2 DEF Busy
    <3> QED
      BY <1>1, <1>6, <2>2, <3>1
  <2> QED
    BY <2>1, <2>2
<1> QED
  BY <1>5, <1>7, <1>8 DEF Kept

(* A file that differs in the line of r's account leaves the others.       *)
LEMMA OneLine ==
  ASSUME AccountAssumption, Types, NEW r \in Requests, ~Wiping(r), NEW f \in Files,
         \A b \in Accounts \ {Account(r)} : f[b] = file[b], Put(r, f)
  PROVE  \A b \in Accounts \ {Account(r)} : file'[b] = file[b] /\ (Gone(b)' <=> Gone(b))
BY DEF Put, Gone

(* The agent's rollback of a creation takes every line, and records it.    *)
LEMMA Wiped ==
  ASSUME AccountAssumption, Types, NEW r \in Requests, Wiping(r), copy[r] = Empty, Put(r, Empty)
  PROVE  \A b \in Accounts \ {Account(r)} : Gone(b)' \/ (file'[b] = file[b] /\ ~Gone(b))
BY DEF Put, Gone, Empty, Types, TypeOK

(* Nothing is done to the file. *)
LEMMA Untouched ==
  ASSUME Types, NEW r \in Requests, Put(r, file) \/ UNCHANGED store
  PROVE  file' = file /\ \A b \in Accounts : Gone(b)' <=> Gone(b)
BY DEF Put, Gone, store, Types, TypeOK, Files

(* The argument is inductive. *)
LEMMA KeptInductive ==
  ASSUME AccountAssumption, Types, Kept, [Next]_vars
  PROVE  Kept'
<1> SUFFICES ASSUME ~crossed' PROVE Kept'
  BY DEF Kept
<1>1. ASSUME NEW r \in Requests, Begin(r) PROVE Kept'
  <2>1. PICK kind \in Asks[r], a \in Accounts :
          /\ job' = [job EXCEPT ![r] = [kind |-> kind, account |-> a]]
          /\ crossed' = (crossed \/ \E q \in Requests \ Side(r) :
                                       Running(q) /\ Account(q) = a)
          /\ pc' = [pc EXCEPT ![r] = CASE kind = "add" -> "append"
                                       [] kind = "set" -> "read"
                                       [] kind = "delete" -> "delete"]
    BY <1>1 DEF Begin
  <2>2. UNCHANGED <<store, live, old, copy, word, faults>> /\ Free(r) /\ pc[r] = "idle"
    BY <1>1 DEF Begin, At
  <2>3. kind \in Kinds
    BY <2>1 DEF AccountAssumption
  <2>4. /\ ~crossed
        /\ \A q \in Requests : Running(q) => Account(q) # a
    BY <2>1, <2>2 DEF Free
  <2>5. pc'[r] \in {"append", "read", "delete"} /\ Account(r)' = a
    BY <2>1, <2>3 DEF Types, TypeOK, Kinds, Account
  <2>6. \A q \in Requests \ {r} : pc'[q] = pc[q] /\ job'[q] = job[q]
    BY <2>1 DEF Types, TypeOK
  <2>7. \A q \in Requests \ {r} : (Running(q)' <=> Running(q)) /\ Account(q)' = Account(q)
    BY <2>6 DEF Running, Account
  <2>8. Apart /\ (\A b \in Accounts : ~Busy(b) => Agreed(b)) /\ \A q \in Requests : Running(q) => Place(q)
    BY <2>4 DEF Kept
  <2>9. Apart'
    BY <2>4, <2>5, <2>7, <2>8 DEF Apart
  <2>10. \A b \in Accounts : (Agreed(b)' <=> Agreed(b)) /\ (Gone(b)' <=> Gone(b))
    BY <2>2 DEF Agreed, Gone, store
  <2>11. Agreed(a)
    BY <2>4, <2>8 DEF Busy
  <2>12. Place(r)'
    BY <2>5, <2>10, <2>11 DEF Place, Wiping, At
  <2>13. ASSUME NEW q \in Requests \ {r}, Running(q)' PROVE Place(q)'
    <3>1. Place(q) /\ Account(q) \in Accounts
      BY <2>7, <2>8, <2>13, AtWork DEF Running
    <3>2. /\ pc'[q] = pc[q] /\ Account(q)' = Account(q) /\ (Wiping(q)' <=> Wiping(q))
          /\ (NothingRead(q)' <=> NothingRead(q))
      BY <2>2, <2>6, <2>7 DEF Wiping, NothingRead, At
    <3> QED
      BY <2>2, <2>10, <3>1, <3>2 DEF Place, Empty, store
  <2>14. ~Running(r)
    BY <2>2 DEF Running, Active
  <2>15. \A b \in Accounts : ~Busy(b)' => ~Busy(b)
    BY <2>7, <2>14 DEF Busy
  <2> QED
    BY <2>8, <2>9, <2>10, <2>12, <2>13, <2>15 DEF Kept
<1>2. ASSUME NEW r \in Requests, pc[r] \in Active, Append(r) \/ Delete(r) PROVE Kept'
  <2>a. PICK a \in Accounts : a = Account(r)
    BY <1>2, AtWork
  <2>1. Running(r) /\ ~crossed /\ ~Meets(r, Account(r))
    BY <1>2, AtWork DEF Append, Delete, Crossing
  <2>2. \A q \in Requests \ {r} : pc[q] \notin {"write", "write back"}
    BY <2>1, NotMet
  <2>3. UNCHANGED live /\ ~Wiping(r)
    BY <1>2 DEF Append, Delete, Wiping, At
  <2>4. pc[r] \in {"append", "delete"} /\ Agreed(a)
    BY <1>2, <2>1, <2>a DEF Append, Delete, At, Kept, Place
  <2>5. file[a] \in Hashes \cup {None} /\ DOMAIN file = Accounts /\ file \in Files
    BY <1>2, <2>a, AtWork DEF Types, TypeOK, Files
  <2>6. \A hash \in Hashes \cup {None} : [file EXCEPT ![a] = hash] \in Files
    BY <2>5 DEF Files
  <2>7. r \in Hashes /\ None \notin Hashes /\ Unknown \notin Hashes
    BY DEF AccountAssumption, Hashes
  <2>8. \A b \in Accounts \ {a} : file'[b] = file[b] /\ (Gone(b)' <=> Gone(b))
    <3>1. ASSUME NEW f \in {file, [file EXCEPT ![a] = r], [file EXCEPT ![a] = None]}, Put(r, f)
          PROVE  \A b \in Accounts \ {a} : file'[b] = file[b] /\ (Gone(b)' <=> Gone(b))
      BY <2>3, <2>5, <2>6, <2>7, <2>a, <3>1, OneLine
    <3>2. UNCHANGED store => \A b \in Accounts \ {a} : file'[b] = file[b] /\ (Gone(b)' <=> Gone(b))
      BY Untouched
    <3> QED
      BY <1>2, <2>a, <3>1, <3>2 DEF Append, Delete
  <2>9. ASSUME Answer(r, Unknown) PROVE Kept'
    <3>1. OthersWait(r) /\ ~Running(r)' /\ word'[a] = Unknown /\ OthersStay(r)
      BY <1>2, <2>8, <2>9, <2>a, Answered DEF OthersStay
    <3>2. Agreed(a)'
      BY <2>7, <3>1 DEF Agreed
    <3> QED
      BY <1>2, <2>1, <2>2, <2>3, <2>a, <3>1, <3>2, Others
  <2>10. ASSUME Refuse(r), file'[a] = file[a], Gone(a) => Gone(a)' PROVE Kept'
    <3>1. word[a] \in Hashes \cup {None, Unknown}
      BY <1>2, <2>a, AtWork
    <3>2. OthersWait(r) /\ ~Running(r)' /\ word'[a] = word[a] /\ OthersStay(r)
      BY <1>2, <2>8, <2>10, <2>a, <3>1, Answered DEF Refuse, OthersStay
    <3>3. Agreed(a)'
      BY <2>3, <2>4, <2>10, <3>2 DEF Agreed
    <3> QED
      BY <1>2, <2>1, <2>2, <2>3, <2>a, <3>2, <3>3, Others
  <2>11. ASSUME Answer(r, None), file'[a] = None PROVE Kept'
    <3>1. OthersWait(r) /\ ~Running(r)' /\ word'[a] = None /\ OthersStay(r)
      BY <1>2, <2>8, <2>11, <2>a, Answered DEF OthersStay
    <3>2. Agreed(a)'
      BY <2>7, <2>11, <3>1 DEF Agreed
    <3> QED
      BY <1>2, <2>1, <2>2, <2>3, <2>a, <3>1, <3>2, Others
  <2>12. ASSUME Goto(r, "apply"), file'[a] = r PROVE Kept'
    <3>1. OthersWait(r) /\ OthersStay(r) /\ pc'[r] = "apply" /\ job'[r] = job[r]
      BY <2>8, <2>12, <2>a DEF Goto, OthersWait, OthersStay, Types, TypeOK
    <3>2. Running(r)' /\ Place(r)'
      BY <2>12, <2>a, <3>1 DEF Running, Active, Place, Account, Wiping, At
    <3> QED
      BY <1>2, <2>1, <2>2, <2>3, <2>a, <3>1, <3>2, Others
  <2>13. CASE Append(r)
    <3>1. ASSUME Refuse(r), UNCHANGED store PROVE Kept'
      BY <2>10, <3>1, Untouched
    <3>2. ASSUME Put(r, [file EXCEPT ![a] = r]), Goto(r, "apply") PROVE Kept'
      BY <2>5, <2>12, <3>2 DEF Put
    <3> QED
      BY <2>9, <2>13, <2>a, <3>1, <3>2 DEF Append
  <2>14. CASE Delete(r)
    <3>1. ASSUME Put(r, [file EXCEPT ![a] = None]), Deleted(r) PROVE Kept'
      <4>1. CASE Answer(r, None)
        BY <2>5, <2>11, <3>1, <4>1 DEF Put
      <4>2. CASE Refuse(r) /\ file[a] = None
        <5>1. [file EXCEPT ![a] = None] = file
          BY <2>5, <4>2 DEF Files
        <5>2. Put(r, file)
          BY <2>a, <3>1, <5>1
        <5>3. file'[a] = file[a] /\ (Gone(a) => Gone(a)')
          BY <5>2, Untouched
        <5> QED
          BY <2>10, <4>2, <5>3
      <4> QED
        BY <2>a, <3>1, <4>1, <4>2 DEF Deleted, Exists
    <3> QED
      BY <2>9, <2>14, <2>a, <3>1 DEF Delete
  <2> QED
    BY <1>2, <2>13, <2>14
<1>3. ASSUME UNCHANGED <<store, job, old, copy, word, crossed>>, live' \in {live, file},
             \A q \in Requests : (Running(q)' <=> Running(q)) /\ (Running(q) => pc'[q] = pc[q])
      PROVE  Kept'
  <2>1. Apart /\ (\A a \in Accounts : ~Busy(a) => Agreed(a)) /\ \A q \in Requests : Running(q) => Place(q)
    BY <1>3 DEF Kept
  <2>g. \A a : (Gone(a)' <=> Gone(a)) /\ (Gone(a) => file[a] = None)
    BY <1>3 DEF Gone, store
  <2>2. ASSUME NEW a, Agreed(a) PROVE Agreed(a)'
    BY <1>3, <2>2, <2>g DEF Agreed, AccountAssumption, store
  <2>3. \A q : Account(q)' = Account(q) /\ (NothingRead(q)' <=> NothingRead(q))
    BY <1>3 DEF Account, NothingRead
  <2>4. ASSUME NEW q \in Requests, Running(q)' PROVE Place(q)'
    <3>1. Place(q) /\ pc'[q] = pc[q] /\ (Wiping(q)' <=> Wiping(q))
      BY <1>3, <2>1, <2>4 DEF Wiping, At
    <3>2. PICK a : a = Account(q) /\ a = Account(q)'
      BY <2>3
    <3>3. Agreed(a) => Agreed(a)'
      BY <2>2
    <3>4. Empty' = Empty
      BY DEF Empty
    <3> QED
      BY <1>3, <2>g, <3>1, <3>2, <3>3, <3>4 DEF Place, store
  <2>5. Apart' /\ \A a \in Accounts : Busy(a)' <=> Busy(a)
    BY <1>3, <2>1, <2>3 DEF Apart, Busy
  <2> QED
    BY <2>1, <2>2, <2>4, <2>5 DEF Kept
<1>4. ASSUME NEW r \in Requests, BeginFails(r) PROVE Kept'
  <2>1. pc[r] = "idle" /\ pc' = [pc EXCEPT ![r] = "done"]
    BY <1>4 DEF BeginFails, At
  <2>2. \A q \in Requests : (Running(q)' <=> Running(q)) /\ (Running(q) => pc'[q] = pc[q])
    BY <2>1 DEF Types, TypeOK, Running, Active
  <2> QED
    BY <1>3, <1>4, <2>2 DEF BeginFails
<1>5. ASSUME Detect \/ Finished \/ UNCHANGED vars PROVE Kept'
  BY <1>3, <1>5 DEF Detect, Finished, vars, store, Running
<1>6. ASSUME NEW r \in Requests, pc[r] \in Active, UNCHANGED <<store, crossed>>,
             live' \in {live, file}, Answer(r, Unknown)
      PROVE  Kept'
  <2>a. PICK a \in Accounts : a = Account(r)
    BY <1>6, AtWork
  <2>1. OthersWait(r) /\ ~Running(r)' /\ word'[a] = Unknown /\ OthersStay(r)
    BY <1>6, <2>a, Answered, Untouched DEF OthersStay
  <2>2. Agreed(a)'
    BY <2>1 DEF Agreed, AccountAssumption
  <2> QED
    BY <1>6, <2>a, <2>1, <2>2, Others, Untouched
<1>7. ASSUME NEW r \in Requests, pc[r] \in {"read", "copy"}, UNCHANGED <<store, live, crossed>>, Refuse(r)
      PROVE  Kept'
  <2>1. pc[r] \in Active
    BY <1>7 DEF Active
  <2>a. PICK a \in Accounts : a = Account(r)
    BY <2>1, AtWork
  <2>2. word[a] \in Hashes \cup {None, Unknown} /\ Running(r)
    BY <2>1, <2>a, AtWork
  <2>3. OthersWait(r) /\ ~Running(r)' /\ word'[a] = word[a] /\ OthersStay(r)
    BY <1>7, <2>1, <2>a, <2>2, Answered, Untouched DEF Refuse, OthersStay
  <2>4. Agreed(a)
    BY <1>7, <2>2, <2>a DEF Kept, Place
  <2>5. Agreed(a)'
    BY <1>7, <2>3, <2>4, Untouched DEF Agreed
  <2> QED
    BY <1>7, <2>1, <2>a, <2>3, <2>5, Others, Untouched
<1>8. ASSUME NEW r \in Requests, ReadOld(r) PROVE Kept'
  <2>1. pc[r] = "read" /\ pc[r] \in Active
    BY <1>8 DEF ReadOld, At, Active
  <2>a. PICK a \in Accounts : a = Account(r)
    BY <2>1, AtWork
  <2>2. UNCHANGED <<store, live, crossed>>
    BY <1>8 DEF ReadOld
  <2>3. ASSUME NEW hash \in {None, file[a]}, Remember(r, hash) PROVE Kept'
    <3>1. OthersWait(r) /\ OthersStay(r)
      BY <2>2, <2>3, Untouched DEF Remember, OthersWait, OthersStay, Types, TypeOK
    <3>2. pc'[r] = "copy" /\ old'[r] = hash /\ job'[r] = job[r] /\ UNCHANGED word
      BY <2>3 DEF Remember, Types, TypeOK
    <3>3. Agreed(a) /\ Account(r)' = a
      BY <2>1, <2>2, <2>a, <3>2, AtWork DEF Kept, Place, Account
    <3>4. Agreed(a)'
      BY <2>2, <3>2, <3>3, Untouched DEF Agreed
    <3>5. Running(r)' /\ Place(r)'
      BY <3>2, <3>3, <3>4 DEF Place, Running, Active, Wiping, At
    <3> QED
      BY <2>1, <2>a, <2>2, <3>1, <3>2, <3>5, Others, Untouched
  <2>4. ASSUME NoneRead(r) PROVE Kept'
    BY <1>7, <2>1, <2>2, <2>3, <2>4 DEF NoneRead
  <2> QED
    BY <1>8, <2>3, <2>4, <2>a DEF ReadOld
<1>9. ASSUME NEW r \in Requests, Copy(r) PROVE Kept'
  <2> DEFINE back == At(r, "copy back")
  <2>1. /\ pc[r] \in {"copy", "copy back"} /\ pc[r] \in Active
        /\ UNCHANGED <<file, wiped, live, crossed>>
    BY <1>9 DEF Copy, Active
  <2>a. PICK a \in Accounts : a = Account(r)
    BY <2>1, AtWork
  <2>2. Running(r) /\ Place(r) /\ ~crossed
    BY <2>1, AtWork DEF Kept
  <2>3. ASSUME UNCHANGED phantom, copy' = [copy EXCEPT ![r] = Rewritten(r)], UNCHANGED <<job, old, word>>,
               pc' = [pc EXCEPT ![r] = IF back THEN "write back" ELSE "write"]
        PROVE  Kept'
    <3>0. UNCHANGED store
      BY <2>1, <2>3 DEF store
    <3>1. OthersWait(r) /\ OthersStay(r)
      BY <2>3, <3>0, Untouched DEF OthersWait, OthersStay, Types, TypeOK
    <3>2. /\ copy'[r] = Rewritten(r) /\ job'[r] = job[r] /\ old'[r] = old[r]
          /\ pc'[r] = IF back THEN "write back" ELSE "write"
          /\ Account(r)' = a
      BY <2>3, <2>a DEF Types, TypeOK, Account
    <3>3. DOMAIN file = Accounts
      BY DEF Types, TypeOK, Files
    <3>4. file' = file /\ (Gone(a)' <=> Gone(a))
      BY <3>0, Untouched
    <3>5. ASSUME Place(r)' PROVE Kept'
      <4>1. Running(r)'
        BY <3>2 DEF Running, Active
      <4> QED
        BY <2>1, <2>a, <2>2, <3>1, <3>2, <3>4, <3>5, <4>1, Others
    <3>6. CASE pc[r] = "copy"
      <4>1. copy'[r] = [file EXCEPT ![a] = r] /\ pc'[r] = "write"
        BY <2>a, <3>2, <3>6 DEF Rewritten, At, Types, Jobs
      <4>2. Agreed(a)'
        BY <2>1, <2>2, <2>3, <2>a, <3>4, <3>6 DEF Place, Agreed
      <4> QED
        BY <3>2, <3>3, <3>4, <3>5, <4>1, <4>2 DEF Place, Wiping, At
    <3>7. CASE pc[r] = "copy back"
      <4>1. pc'[r] = "write back" /\ (file'[a] = r \/ Gone(a)')
        BY <2>2, <2>a, <3>2, <3>4, <3>7 DEF At, Place
      <4>2. job[r].kind = "add" => old[r] = None
        BY <2>2 DEF Types, Jobs
      <4>3. CASE job[r].kind = "add" /\ r \in Agent
        <5>1. Rewritten(r) = Empty /\ Empty[a] = None /\ Empty' = Empty
          BY <2>2, <3>7, <4>3, AccountAssumption DEF Rewritten, Without, At, Empty
        <5>2. Wiping(r)'
          BY <3>2, <4>1, <4>3 DEF Wiping, At
        <5> QED
          BY <3>2, <3>5, <4>1, <4>2, <4>3, <5>1, <5>2 DEF Place
      <4>4. CASE ~(job[r].kind = "add" /\ r \in Agent)
        <5>1. Rewritten(r) = [file EXCEPT ![a] = old[r]]
          BY <2>a, <3>7, <4>2, <4>4 DEF Rewritten, Without, At, Requests
        <5>2. ~Wiping(r)'
          BY <3>2, <4>4 DEF Wiping
        <5> QED
          BY <3>2, <3>3, <3>4, <3>5, <4>1, <5>1, <5>2 DEF Place
      <4> QED
        BY <4>3, <4>4
    <3> QED
      BY <2>1, <3>6, <3>7
  <2>4. ASSUME ~Exists(a), Goto(r, "apply"), phantom' = phantom \cup {a} PROVE Kept'
    <3>1. \A b \in Accounts \ {a} : file'[b] = file[b] /\ (Gone(b)' <=> Gone(b))
      BY <2>1, <2>4 DEF Gone
    <3>2. OthersWait(r) /\ OthersStay(r)
      BY <2>4, <2>a, <3>1 DEF Goto, OthersWait, OthersStay, Types, TypeOK
    <3>3. pc'[r] = "apply" /\ job'[r] = job[r] /\ Account(r)' = a
      BY <2>4, <2>a DEF Goto, Types, TypeOK, Account
    <3>4. Gone(a)'
      BY <2>1, <2>4 DEF Gone, Exists
    <3>5. Place(r)' /\ Running(r)'
      BY <3>3, <3>4 DEF Place, Running, Active, Wiping, At
    <3> QED
      BY <2>1, <2>a, <2>2, <3>2, <3>3, <3>5, Others
  <2>5. ASSUME UNCHANGED phantom, IF back THEN Answer(r, Unknown) ELSE Refuse(r) PROVE Kept'
    <3>1. UNCHANGED store
      BY <2>1, <2>5 DEF store
    <3> QED
      BY <1>6, <1>7, <2>1, <2>5, <3>1 DEF At
  <2> QED
    BY <1>9, <2>3, <2>4, <2>5, <2>a DEF Copy
<1>10. ASSUME NEW r \in Requests, Write(r) PROVE Kept'
  <2>1. pc[r] \in {"write", "write back"} /\ pc[r] \in Active /\ UNCHANGED live
    BY <1>10 DEF Write, Active
  <2>a. PICK a \in Accounts : a = Account(r)
    BY <2>1, AtWork
  <2>2. ~crossed /\ ~Meets(r, Account(r))
    BY <1>10 DEF Write, Crossing
  <2>3. Running(r) /\ Place(r) /\ copy[r] \in Files
    BY <2>1, <2>2, AtWork DEF Kept
  <2>4. \A q \in Requests \ {r} : pc[q] \notin {"write", "write back"}
    BY <2>2, <2>3, NotMet
  <2>5. ASSUME NEW f \in {file, copy[r]}, Put(r, f), OthersWait(r),
               \A b \in Accounts \ {a} : word'[b] = word[b],
               Running(r)' => job'[r] = job[r] /\ Place(r)', Running(r)' \/ Agreed(a)'
        PROVE  Kept'
    <3>1. CASE f = file
      BY <2>1, <2>2, <2>4, <2>5, <2>a, <3>1, Untouched, Others DEF OthersStay
    <3>2. CASE f = copy[r] /\ Wiping(r)
      <4>1. copy[r] = Empty
        BY <2>3, <3>2 DEF Place
      <4>2. OthersStay(r)
        BY <2>5, <2>a, <3>2, <4>1, Wiped DEF OthersStay
      <4> QED
        BY <2>1, <2>2, <2>4, <2>5, <2>a, <4>2, Others
    <3>3. CASE f = copy[r] /\ ~Wiping(r)
      <4>1. \A b \in Accounts \ {a} : copy[r][b] = file[b]
        BY <2>1, <2>3, <2>a, <3>3 DEF Place
      <4>2. OthersStay(r)
        BY <2>3, <2>5, <2>a, <3>3, <4>1, OneLine DEF OthersStay
      <4> QED
        BY <2>1, <2>2, <2>4, <2>5, <2>a, <4>2, Others
    <3> QED
      BY <2>5, <3>1, <3>2, <3>3
  <2>6. ASSUME NEW f \in {file, copy[r]}, Put(r, f), Answer(r, Unknown) PROVE Kept'
    <3>1. OthersWait(r) /\ ~Running(r)' /\ word'[a] = Unknown /\ \A b \in Accounts \ {a} : word'[b] = word[b]
      BY <2>1, <2>6, <2>a, Answered
    <3>2. Agreed(a)'
      BY <3>1 DEF Agreed, AccountAssumption
    <3> QED
      BY <2>5, <2>6, <3>1, <3>2
  <2>7. ASSUME Put(r, copy[r]), NEW step \in {"apply", "apply back"}, Goto(r, step),
               step = "apply" <=> pc[r] = "write"
        PROVE  Kept'
    <3>1. OthersWait(r) /\ UNCHANGED word
      BY <2>7 DEF Goto, OthersWait, Types, TypeOK
    <3>2. pc'[r] = step /\ job'[r] = job[r] /\ old'[r] = old[r] /\ Account(r)' = a
      BY <2>7, <2>a DEF Goto, Types, TypeOK, Account
    <3>3. file' = copy[r]
      BY <2>7 DEF Put
    <3>4. Place(r)' /\ Running(r)'
      BY <2>1, <2>3, <2>7, <2>a, <3>2, <3>3 DEF Place, Running, Active, Wiping, At
    <3> QED
      BY <2>5, <2>7, <3>1, <3>2, <3>4
  <2>8. At(r, "write back") <=> pc[r] # "write"
    BY <2>1 DEF At
  <2> QED
    BY <1>10, <2>6, <2>7, <2>8 DEF Write, AfterWriteBack
<1>11. ASSUME NEW r \in Requests, Apply(r) \/ ApplyBack(r) PROVE Kept'
  <2>1. /\ pc[r] \in {"apply", "apply back"} /\ pc[r] \in Active
        /\ live' \in {live, file} /\ UNCHANGED <<store, crossed>>
    BY <1>11 DEF Apply, ApplyBack, At, Active
  <2>a. PICK a \in Accounts : a = Account(r)
    BY <2>1, AtWork
  <2>2. Running(r) /\ Place(r) /\ ~crossed
    BY <2>1, AtWork DEF Kept
  <2>g. file' = file /\ (Gone(a)' <=> Gone(a)) /\ (Gone(a) => file[a] = None)
    BY <2>1, Untouched DEF Gone
  <2>3. ASSUME NEW said \in Hashes \cup {None}, live' = file, file[a] = said \/ Gone(a), Answer(r, said)
        PROVE  Kept'
    <3>1. OthersWait(r) /\ ~Running(r)' /\ word'[a] = said /\ OthersStay(r)
      BY <2>1, <2>3, <2>a, Answered, Untouched DEF OthersStay
    <3>2. Agreed(a)'
      BY <2>3, <2>g, <3>1 DEF Agreed
    <3> QED
      BY <2>1, <2>2, <2>a, <2>g, <3>1, <3>2, Others
  <2>4. ASSUME file[a] = r \/ Gone(a), Goto(r, "copy back") PROVE Kept'
    <3>1. OthersWait(r) /\ OthersStay(r)
      BY <2>1, <2>4, Untouched DEF Goto, OthersWait, OthersStay, Types, TypeOK
    <3>2. pc'[r] = "copy back" /\ job'[r] = job[r] /\ Account(r)' = a
      BY <2>4, <2>a DEF Goto, Types, TypeOK, Account
    <3>3. Place(r)' /\ Running(r)'
      BY <2>4, <2>g, <3>2 DEF Place, Running, Active, Wiping, At
    <3> QED
      BY <2>1, <2>2, <2>a, <2>g, <3>1, <3>2, <3>3, Others
  <2>5. Answer(r, Unknown) => Kept'
    BY <1>6, <2>1
  <2>6. CASE Apply(r)
    <3>1. file[a] = r \/ Gone(a)
      BY <2>2, <2>6, <2>a DEF Apply, At, Place
    <3> QED
      BY <2>3, <2>4, <2>5, <2>6, <3>1 DEF Apply, Hashes
  <2>7. CASE ApplyBack(r)
    <3>1. (file[a] = old[r] \/ Gone(a)) /\ old[r] \in Hashes \cup {None}
      BY <2>1, <2>2, <2>7, <2>a, AtWork DEF ApplyBack, At, Place
    <3> QED
      BY <2>3, <2>5, <2>7, <3>1 DEF ApplyBack
  <2> QED
    BY <1>11, <2>6, <2>7
<1>12. ASSUME NEW side \in {Server, Agent}, Crash(side) PROVE Kept'
  <2> DEFINE cut == {r \in side : Running(r)}
  <2>1. PICK r \in cut : TRUE
    BY <1>12 DEF Crash
  <2>2. r \in Requests /\ Running(r) /\ pc[r] \in Active /\ r \in side
    BY <2>1 DEF Requests, Running
  <2>a. PICK a \in Accounts : a = Account(r)
    BY <2>2, AtWork
  <2>3. cut = {r}
    BY <2>1, <2>2 DEF Types, Alone, Requests, AccountAssumption
  <2>4. ~crossed /\ ~Meets(r, Account(r)) /\ UNCHANGED live
    BY <1>12, <2>1 DEF Crash
  <2>5. /\ Place(r) /\ copy[r] \in Files
        /\ \A q \in Requests \ {r} : pc[q] \notin {"write", "write back"}
    BY <2>2, <2>4, NotMet, AtWork DEF Kept
  <2>6. \A b \in Accounts \ {a} : Gone(b)' \/ (file'[b] = file[b] /\ ~Gone(b))
    <3>1. CASE UNCHANGED store
      <4>1. file' = file /\ \A b \in Accounts : Gone(b)' <=> Gone(b)
        BY <2>2, <3>1, Untouched
      <4> QED
        BY <4>1
    <3>2. CASE pc[r] \in {"write", "write back"} /\ Put(r, copy[r]) /\ Wiping(r)
      <4>1. copy[r] = Empty
        BY <2>5, <3>2 DEF Place
      <4> QED
        BY <2>2, <2>a, <3>2, <4>1, Wiped
    <3>3. CASE pc[r] \in {"write", "write back"} /\ Put(r, copy[r]) /\ ~Wiping(r)
      <4>1. \A b \in Accounts \ {a} : copy[r][b] = file[b]
        BY <2>5, <2>a, <3>3 DEF Place
      <4> QED
        BY <2>2, <2>5, <2>a, <3>3, <4>1, OneLine
    <3> QED
      BY <1>12, <2>3, <3>1, <3>2, <3>3 DEF Crash
  <2>7. OthersStay(r)
    BY <1>12, <2>3, <2>6, <2>a DEF Crash, OthersStay
  <2>8. OthersWait(r) /\ ~Running(r)'
    BY <1>12, <2>2, <2>3 DEF Crash, Forget, OthersWait, Running, Active
  <2>9. Agreed(a)'
    BY <1>12, <2>2, <2>3, <2>a DEF Crash, Agreed, AccountAssumption
  <2> QED
    BY <2>2, <2>4, <2>5, <2>7, <2>8, <2>9, <2>a, Others
<1>13. ASSUME NEW r \in Requests, Append(r) \/ Delete(r) PROVE pc[r] \in Active
  BY <1>13 DEF Append, Delete, At, Active
<1> QED
  BY <1>1, <1>2, <1>4, <1>5, <1>8, <1>9, <1>10, <1>11, <1>12, <1>13 DEF Next, Step

(* At first everything is as said. *)
LEMMA KeptInitially ==
  ASSUME AccountAssumption, Init
  PROVE  Kept
<1>1. \A r \in Requests : ~Running(r)
  BY DEF Init, Running, Active
<1>2. \A a \in Accounts : Agreed(a)
  BY DEF Init, Agreed
<1> QED
  BY <1>1, <1>2 DEF Kept, Apart

(* Together they are the inductive invariant. *)
LEMMA Invariant == Spec => [](Types /\ Kept)
<1>1. Init => Types /\ Kept
  BY AccountAssumption, TypesInitially, KeptInitially
<1>2. Types /\ Kept /\ [Next]_vars => (Types /\ Kept)'
  BY AccountAssumption, TypesInductive, KeptInductive
<1> QED
  BY <1>1, <1>2, PTL DEF Spec

(* Between changes, the line of an account is what the last definite       *)
(* answer about it said, unless the two programs met: no request for       *)
(* another account touches it, but that the agent's rollback of a creation *)
(* may have taken it, or the agent may have answered "updated" without a   *)
(* line, and then it is missing and recorded as gone.                      *)
THEOREM FileIsAsSaid == Spec => []FileAsSaid
<1>1. Types /\ Kept => FileAsSaid
  BY DEF Kept, FileAsSaid, Agreed
<1> QED
  BY <1>1, Invariant, PTL

(* And so is the password in force; an account that is gone may have lost  *)
(* its password too.                                                       *)
THEOREM LiveIsAsSaid == Spec => []LiveAsSaid
<1>1. Types /\ Kept => LiveAsSaid
  BY DEF Kept, LiveAsSaid, Agreed
<1> QED
  BY <1>1, Invariant, PTL

(* A request changes the line of its own account only, and the rollback of *)
(* a creation takes away the line it has added, while the programs do not  *)
(* meet; the agent's rollback of a creation is the one step that takes the *)
(* lines of other accounts, and it leaves no line at all.                  *)
THEOREM CreationsKeep == Spec => CreationKeepsAccounts
<1> DEFINE Keeps == \A a \in Accounts :
       file[a] # None /\ file'[a] # file[a] /\ ~crossed' =>
         \/ \E r \in Requests : Running(r) /\ Account(r) = a
              /\ (job[r].kind # "add" \/ file[a] = r)
         \/ \E r \in Agent : Wiping(r) /\ file' = Empty
<1>1. ASSUME Types, Kept, [Next]_vars, NEW a \in Accounts,
             file[a] # None, file'[a] # file[a], ~crossed'
      PROVE  \/ \E r \in Requests : Running(r) /\ Account(r) = a
                  /\ (job[r].kind # "add" \/ file[a] = r)
             \/ \E r \in Agent : Wiping(r) /\ file' = Empty
  <2> DEFINE Mine(b) == \E r \in Requests : Running(r) /\ Account(r) = b
                          /\ (job[r].kind # "add" \/ file[b] = r)
             Taken == \E r \in Agent : Wiping(r) /\ file' = Empty
  <2> USE AccountAssumption, <1>1
  <2>1. DOMAIN file = Accounts
    BY DEF Types, TypeOK, Files
  <2>2. ASSUME NEW r \in Requests, Running(r), ~crossed, NEW hash, Account(r) = a,
               job[r].kind # "add" \/ file[a] = r
        PROVE  Mine(a)
    BY <2>2
  <2>3. ASSUME NEW r \in Requests, Append(r) PROVE Mine(a)
    BY <2>1, <2>3 DEF Append, Exists, Put, store
  <2>4. ASSUME NEW r \in Requests, Delete(r) PROVE Mine(a)
    <3>1. Running(r) /\ job[r].kind = "delete" /\ file' \in {file, [file EXCEPT ![Account(r)] = None]}
      BY <2>4 DEF Delete, At, Running, Active, Types, Jobs, Put
    <3>2. Account(r) = a
      BY <2>1, <3>1
    <3> QED
      BY <3>1, <3>2
  <2>5. ASSUME NEW r \in Requests, pc[r] \in {"write", "write back"}, Put(r, copy[r]), ~crossed
        PROVE  Mine(a) \/ Taken
    <3>1. Running(r) /\ Place(r) /\ file' = copy[r]
      BY <2>5 DEF Running, Active, Kept, Put
    <3>2. CASE Wiping(r)
      BY <3>1, <3>2 DEF Place, Wiping
    <3>3. CASE ~Wiping(r)
      <4>1. Account(r) = a
        BY <2>5, <3>1, <3>3 DEF Place
      <4>2. job[r].kind # "add" \/ file[a] = r
        BY <2>5, <3>1, <4>1 DEF Place, Types, Jobs, Gone
      <4> QED
        BY <3>1, <4>1, <4>2
    <3> QED
      BY <3>2, <3>3
  <2>6. ASSUME NEW r \in Requests, Write(r) PROVE Mine(a) \/ Taken
    <3>1. pc[r] \in {"write", "write back"} /\ ~crossed /\ (Put(r, copy[r]) \/ Put(r, file))
      BY <2>6 DEF Write, Crossing
    <3>2. ~Put(r, file)
      BY DEF Put
    <3> QED
      BY <2>5, <3>1, <3>2
  <2>7. ASSUME NEW side \in {Server, Agent}, Crash(side) PROVE Mine(a) \/ Taken
    <3>1. ~UNCHANGED store
      BY DEF store
    <3>2. PICK r \in side : Put(r, copy[r]) /\ ~crossed /\ pc[r] \in {"write", "write back"}
      BY <2>7, <3>1 DEF Crash
    <3>3. r \in Requests
      BY <3>2 DEF Requests
    <3> QED
      BY <2>5, <3>2, <3>3
  <2>8. ASSUME NEW r \in Requests,
               Begin(r) \/ BeginFails(r) \/ ReadOld(r) \/ Copy(r) \/ Apply(r) \/ ApplyBack(r)
        PROVE  FALSE
    BY <2>8 DEF Begin, BeginFails, ReadOld, Copy, Apply, ApplyBack, store
  <2>9. ASSUME Detect \/ Finished \/ UNCHANGED vars PROVE FALSE
    BY <2>9 DEF Detect, Finished, vars, store
  <2> QED
    BY <2>3, <2>4, <2>6, <2>7, <2>8, <2>9 DEF Next, Step
<1>2. Types /\ Kept /\ [Next]_vars => [Keeps]_vars
  <2>1. ASSUME Types, Kept, [Next]_vars PROVE Keeps
    BY <1>1, <2>1
  <2> HIDE DEF Keeps
  <2> QED
    BY <2>1
<1> QED
  BY <1>2, Invariant, PTL DEF Spec, CreationKeepsAccounts

=============================================================================
