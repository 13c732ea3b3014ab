----------------------------- MODULE SieveSync -----------------------------
(***************************************************************************)
(* Mail filters, forwarding and auto-reply: what the tables say, and the   *)
(* one Sieve script the mail server runs for a user.                       *)
(*                                                                         *)
(* A change of the forwarding or the auto-reply is written and uploaded    *)
(* under the lock of the user (UserLocks).  A change of a rule is written  *)
(* by its handler without the lock, and a thread then uploads everything.  *)
(* The outcome of an upload is recorded in both rows of settings, for the  *)
(* revision that was uploaded; there is nothing of the kind for rules.     *)
(*                                                                         *)
(* A rule is a record of what matters here: whether it is enabled, the     *)
(* folder its move or copy names, whether a condition looks at the body    *)
(* (the compiler never requires the extension, so that the server refuses  *)
(* the whole script), and the request that wrote it.  Settings are known   *)
(* by their revision.  Statements on the database do not fail; a command   *)
(* to the ManageSieve server fails before or after its effect, and has no  *)
(* effect after its connection was given up.                               *)
(***************************************************************************)
EXTENDS UserLocks

CONSTANTS
  Folders,    \* names of folders a rule may file into
  NoFolder,   \* a rule that files nowhere
  Contents,   \* rules a user may save: [on, folder, body]
  Asks,       \* bound: the kinds of request a request may be
  MaxFaults   \* bound: failing commands, and restarts

ASSUME SieveAssumption ==
  /\ Threads \subseteq Nat \ {0}
  /\ NoFolder \notin Folders
  /\ Contents \subseteq [on : BOOLEAN, folder : Folders \cup {NoFolder},
                         body : BOOLEAN]
  /\ MaxFaults \in Nat

Requests == Threads
Parts == {"forwarding", "autoreply"}
RuleChanges == {"create", "update", "delete"}
Kinds == Parts \cup RuleChanges \cup {"sync", "mkdir", "rmdir"}

VARIABLES
  settings,   \* mail_forwarding_settings and mail_autoreply_settings, by user
  rules,      \* sieve_rules, by the request that created the row
  folders,    \* of a user's mailbox
  server,     \* the uploaded script of a user, and whether it is the active one
  pc,
  job,        \* what a request asks for
  read,       \* what a synchronisation uploads
  cut,        \* history: a restart cut a change of this user short
  raced,      \* history: a folder went while a rule was being saved
  faults

tables == <<settings, rules>>
mail   == <<folders, server>>
vars == <<lockVars, tables, mail, pc, job, read, cut, raced, faults>>

Rules == [on : BOOLEAN, folder : Folders \cup {NoFolder}, body : BOOLEAN,
          by : Requests]
NoRule == [on |-> FALSE, folder |-> NoFolder, body |-> FALSE, by |-> 0]

(* What a user without a row has.                                          *)
NoSettings == [rev |-> 0, on |-> FALSE, shown |-> "nothing"]

(* Revisions of the two settings, 0 for "off", and the enabled rules. *)
NoScript == [forwarding |-> 0, autoreply |-> 0, rules |-> {}]
Scripts == [forwarding : Nat, autoreply : Nat, rules : SUBSET (Requests \X Rules)]

NoJob == [kind |-> "none", on |-> FALSE, rule |-> NoRule, id |-> 0,
          folder |-> NoFolder]
NoRead == [script |-> NoScript, forwarding |-> 0, autoreply |-> 0, ok |-> FALSE]

Steps == {"validate", "write", "lock", "wait", "set", "again", "read", "put",
          "activate", "forwarding", "autoreply", "inner", "unlock", "leave",
          "rmdir"}

(* Tables, mailbox and threads' locals keep their shape. *)
TypeOK ==
  /\ LocksTypeOK
  /\ settings \in [Users -> [Parts -> [rev : Nat, on : BOOLEAN,
                             shown : {"nothing", "applied", "unavailable"}]]]
  /\ rules \in [Requests -> Rules \cup {NoRule}]
  /\ folders \in [Users -> SUBSET Folders]
  /\ server \in [Users -> [text : Scripts, active : BOOLEAN]]
  /\ pc \in [Requests -> Steps \cup {"idle", "done"}]
  /\ job \in [Requests -> [kind : Kinds \cup {"none"}, on : BOOLEAN,
                           rule : Rules \cup {NoRule}, id : Requests \cup {0},
                           folder : Folders \cup {NoFolder}]]
  /\ read \in [Requests -> [script : Scripts, forwarding : Nat,
                            autoreply : Nat, ok : BOOLEAN]]
  /\ cut \in [Users -> BOOLEAN] /\ raced \in [Users -> BOOLEAN]
  /\ faults \in 0..MaxFaults

-----------------------------------------------------------------------------
(* Helpers. *)

Goto(r, step) == pc' = [pc EXCEPT ![r] = step]

(* Like Goto, for steps that touch no local: a request that ends forgets. *)
Proceed(r, step) ==
  /\ Goto(r, step)
  /\ job' = [job EXCEPT ![r] = IF step = "done" THEN NoJob ELSE @]
  /\ read' = [read EXCEPT ![r] = IF step = "done" THEN NoRead ELSE @]

At(r, step) == pc[r] = step
User(r) == UserOf[r]
Fault == faults < MaxFaults /\ faults' = faults + 1

RulesOf(u) == {i \in Requests : rules[i] # NoRule /\ UserOf[i] = u}

(* _compile_sieve_script of what the tables hold. *)
Compiled(u) ==
  LET Text(part) == IF settings[u][part].on THEN settings[u][part].rev ELSE 0
  IN  [forwarding |-> Text("forwarding"), autoreply |-> Text("autoreply"),
       rules |-> {<<i, rules[i]>> : i \in {j \in RulesOf(u) : rules[j].on}}]

(* The server compiles a script before it stores it. *)
Compiles(script) == \A x \in script.rules : ~x[2].body

(* The page shows the settings as in force.                                *)
Shown(u, part) == settings[u][part].shown = "applied"

Running(u) == IF server[u].active THEN server[u].text ELSE NoScript

-----------------------------------------------------------------------------
(* Handlers on the event loop. *)

Begin(r, j, step) ==
  /\ At(r, "idle") /\ \A q \in Requests : q < r => ~At(q, "idle")
  /\ j.kind \in Asks[r]
  /\ job' = [job EXCEPT ![r] = IF step = "done" THEN NoJob ELSE j]
  /\ Goto(r, step)
  /\ UNCHANGED <<lockVars, tables, mail, read, cut, raced, faults>>

(* Settings that do not pass the checks are answered with 400. *)
BeginSettings(r) ==
  \E part \in Parts, on, good \in BOOLEAN :
    Begin(r, [NoJob EXCEPT !.kind = part, !.on = on], IF good THEN "lock" ELSE "done")

BeginSync(r) == Begin(r, [NoJob EXCEPT !.kind = "sync"], "lock")

(* The folders of a rule are looked up before the rule is written.         *)
BeginRule(r) ==
  \E c \in Contents, i \in RulesOf(User(r)) \cup {r} :
    Begin(r, [NoJob EXCEPT !.kind = IF i = r THEN "create" ELSE "update", !.id = i,
                !.rule = [on |-> c.on, folder |-> c.folder, body |-> c.body,
                          by |-> r]],
          IF c.folder = NoFolder THEN "write" ELSE "validate")

BeginDelete(r) ==
  \E i \in RulesOf(User(r)) :
    Begin(r, [NoJob EXCEPT !.kind = "delete", !.id = i], "write")

Validate(r) ==
  /\ At(r, "validate")
  /\ Proceed(r, IF job[r].rule.folder \in folders[User(r)] THEN "write" ELSE "done")
  /\ UNCHANGED <<lockVars, tables, mail, cut, raced, faults>>

(* Mutation: any rule, enabled or not, of another folder. *)
UsedByOther(u, f) == \E i \in RulesOf(u) : rules[i].folder # f

UsedByRule(u, f) == \E i \in RulesOf(u) : rules[i].on /\ rules[i].folder = f

(* Mutation: only a rule that is enabled is uploaded. *)
AfterWriteEnabled(r, found) == IF found /\ job[r].rule.on THEN "lock" ELSE "done"

AfterWrite(r, found) == IF found THEN "lock" ELSE "done"

(* INSERT, UPDATE or DELETE, committed before the lock is asked for.  A    *)
(* row that is gone ends the request with 404.                             *)
Write(r) ==
  LET j == job[r]
      found == j.kind = "create" \/ rules[j.id] # NoRule
  IN  /\ At(r, "write")
      /\ rules' = IF ~found THEN rules
                  ELSE [rules EXCEPT ![j.id] = j.rule]
      /\ Proceed(r, AfterWrite(r, found))
      /\ raced' = [raced EXCEPT ![User(r)] =
                    @ \/ \E q \in Requests : At(q, "rmdir") /\ User(q) = User(r)]
      /\ UNCHANGED <<lockVars, settings, mail, cut, faults>>

(* A folder that an enabled rule files into is not removed: 409. *)
BeginRemoveFolder(r) ==
  \E f \in folders[User(r)] :
    Begin(r, [NoJob EXCEPT !.kind = "rmdir", !.folder = f],
          IF UsedByRule(User(r), f) THEN "done" ELSE "rmdir")

RemoveFolder(r) ==
  /\ At(r, "rmdir")
  /\ folders' = [folders EXCEPT ![User(r)] = @ \ {job[r].folder}]
  /\ Proceed(r, "done")
  /\ raced' = [raced EXCEPT ![User(r)] =
                @ \/ \E q \in Requests : At(q, "write") /\ User(q) = User(r)]
  /\ UNCHANGED <<lockVars, tables, server, cut, faults>>

CreateFolder(r) ==
  /\ At(r, "idle") /\ \A q \in Requests : q < r => ~At(q, "idle")
  /\ \E f \in Folders : folders' = [folders EXCEPT ![User(r)] = @ \cup {f}]
  /\ "mkdir" \in Asks[r]
  /\ Goto(r, "done")
  /\ UNCHANGED <<lockVars, tables, server, job, read, cut, raced, faults>>

-----------------------------------------------------------------------------
(* The thread that synchronises, under the lock of the user. *)

Locking(r) ==
  \/ At(r, "lock") /\ Take(r) /\ Proceed(r, "wait")
  \/ At(r, "wait") /\ Enter(r)
       /\ Proceed(r, IF job[r].kind \in Parts THEN "set" ELSE "read")
  \/ At(r, "again") /\ Reenter(r) /\ Proceed(r, "read")
  \/ At(r, "inner") /\ LeaveInner(r) /\ Proceed(r, "unlock")
  \/ At(r, "unlock") /\ Unlock(r) /\ Proceed(r, "leave")
  \/ At(r, "leave") /\ PutBack(r) /\ Proceed(r, "done")

Lock(r) == Locking(r) /\ UNCHANGED <<tables, mail, cut, raced, faults>>

(* Mutation: the outcome of an earlier upload stays on show. *)
NewSettingsShown(old, on) == [rev |-> old.rev + 1, on |-> on, shown |-> old.shown]

NewSettings(old, on) == [rev |-> old.rev + 1, on |-> on, shown |-> "nothing"]

Set(r) ==
  /\ At(r, "set")
  /\ settings' = [settings EXCEPT ![User(r)][job[r].kind] = NewSettings(@, job[r].on)]
  /\ Goto(r, "again")
  /\ UNCHANGED <<lockVars, rules, mail, job, read, cut, raced, faults>>

Read(r) ==
  /\ At(r, "read")
  /\ read' = [read EXCEPT ![r] =
               [script |-> Compiled(User(r)), ok |-> FALSE,
                forwarding |-> settings[User(r)].forwarding.rev,
                autoreply |-> settings[User(r)].autoreply.rev]]
  /\ Goto(r, "put")
  /\ UNCHANGED <<lockVars, tables, mail, job, cut, raced, faults>>

(* PUTSCRIPT replaces the text, also of a script that is active. *)
PutScript(r) ==
  LET stored == [server EXCEPT ![User(r)].text = read[r].script]
      good == Compiles(read[r].script)
  IN  /\ At(r, "put")
      /\ \/ good /\ server' = stored /\ Goto(r, "activate") /\ UNCHANGED faults
         \/ ~good /\ Goto(r, "forwarding") /\ UNCHANGED <<server, faults>>
         \/ Fault /\ Goto(r, "forwarding")
              /\ (UNCHANGED server \/ (good /\ server' = stored))
      /\ UNCHANGED <<lockVars, tables, folders, job, read, cut, raced>>

SetActive(r) ==
  LET active == [server EXCEPT ![User(r)].active = TRUE]
  IN  /\ At(r, "activate")
      /\ \/ server' = active /\ read' = [read EXCEPT ![r].ok = TRUE] /\ UNCHANGED faults
         \/ Fault /\ server' \in {server, active} /\ UNCHANGED read
      /\ Goto(r, "forwarding")
      /\ UNCHANGED <<lockVars, tables, folders, job, cut, raced>>

Outcome(r) == IF read[r].ok THEN "applied" ELSE "unavailable"

(* db_record_forwarding_sync, db_record_autoreply_sync: for the revision   *)
(* that was uploaded.  "active" is "applied" of enabled settings.          *)
Recorded(r, part) ==
  LET now == settings[User(r)][part]
  IN  IF now.rev = read[r][part] THEN [now EXCEPT !.shown = Outcome(r)] ELSE now

Record(r, part, step) ==
  /\ At(r, part)
  /\ settings' = [settings EXCEPT ![User(r)][part] = Recorded(r, part)]
  /\ Goto(r, step)
  /\ cut' = IF part = "autoreply" THEN [cut EXCEPT ![User(r)] = FALSE] ELSE cut
  /\ UNCHANGED <<lockVars, rules, mail, job, read, raced, faults>>

Synchronise(r) ==
  \/ Set(r) \/ Read(r) \/ PutScript(r) \/ SetActive(r)
  \/ Record(r, "forwarding", "autoreply")
  \/ Record(r, "autoreply", IF job[r].kind \in Parts THEN "inner" ELSE "unlock")

-----------------------------------------------------------------------------

(* The server is killed and started again; nothing is resumed. *)
Crash ==
  /\ Fault
  /\ Forget
  /\ cut' = [u \in Users |-> cut[u] \/ \E r \in Requests :
               User(r) = u /\ pc[r] \in Steps \ {"validate", "write", "rmdir"}]
  /\ pc' = [r \in Requests |-> IF At(r, "idle") THEN "idle" ELSE "done"]
  /\ job' = [r \in Requests |-> NoJob] /\ read' = [r \in Requests |-> NoRead]
  /\ UNCHANGED <<tables, mail, raced>>

Init ==
  /\ LocksInit
  /\ settings = [u \in Users |-> [part \in Parts |-> NoSettings]]
  /\ rules = [r \in Requests |-> NoRule]
  /\ folders = [u \in Users |-> Folders]
  /\ server = [u \in Users |-> [text |-> NoScript, active |-> FALSE]]
  /\ pc = [r \in Requests |-> "idle"]
  /\ job = [r \in Requests |-> NoJob] /\ read = [r \in Requests |-> NoRead]
  /\ cut = [u \in Users |-> FALSE] /\ raced = [u \in Users |-> FALSE]
  /\ faults = 0

Arrive(r) ==
  \/ BeginSettings(r) \/ BeginSync(r) \/ BeginRule(r) \/ BeginDelete(r)
  \/ BeginRemoveFolder(r) \/ CreateFolder(r)

Continue(r) ==
  \/ Validate(r) \/ Write(r) \/ RemoveFolder(r) \/ Lock(r) \/ Synchronise(r)

(* Nothing is left to do.  Every other step but a restart brings a request *)
(* nearer to its answer, so that a request that waits for ever would be a  *)
(* deadlock.                                                               *)
Finished == (\A r \in Requests : pc[r] \in {"idle", "done"}) /\ UNCHANGED vars

Next ==
  \/ \E r \in Requests : Arrive(r) \/ Continue(r)
  \/ Crash \/ Finished

Spec == Init /\ [][Next]_vars

-----------------------------------------------------------------------------
(* Properties. *)

Quiet(u) == \A r \in Requests : User(r) = u => pc[r] \in {"idle", "done"}

(* What the settings page shows as applied is what the server runs, at     *)
(* every moment, whatever uploads fail, end half-way or are cut by a       *)
(* restart: the outcome of an upload is never shown for other settings.    *)
ShownIsRunning ==
  \A u \in Users, part \in Parts :
    Shown(u, part) => Running(u)[part] = Compiled(u)[part]

(* When the requests of a user have ended, the server runs all that the    *)
(* tables say, or the settings page does not show "applied", or a restart  *)
(* cut the last change short.  Two changes of rules and settings may       *)
(* overlap in any way.                                                     *)
QuietMeansSynced ==
  \A u \in Users :
    Quiet(u) /\ ~cut[u] /\ (\A part \in Parts : Shown(u, part))
      => Running(u) = Compiled(u)

(* An enabled rule files into a folder that exists, except where its       *)
(* folder was removed at the very time the rule was saved.                 *)
RuleFolderExists ==
  \A u \in Users : ~raced[u] =>
    \A i \in RulesOf(u) : rules[i].on => rules[i].folder \in folders[u] \cup {NoFolder}
=============================================================================
