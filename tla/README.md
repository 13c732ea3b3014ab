# RuPochta in TLA+

RuPochta is a webmail and mail-administration service: a single Python process
(`rupochta_server.py`, about 18 500 lines) serves the HTTP interface on an
asyncio event loop, runs blocking calls in an executor's threads, keeps its own
state in one SQLite database, and drives other services — an IMAP and SMTP
server, a ManageSieve server, an LDAP directory, and the SOC control plane that
owns the accounts. A background thread (`background_worker_loop`) polls the
database and finishes what the handlers left.

Nothing in it is transactional across those services. What makes the program
right is therefore the *order* of its steps: what is written before a call,
what is checked again after it, what a compensation undoes, and what the worker
may redo. That is what these modules model.

Paths below are relative to the repository; a bare number is a line of
`rupochta_server.py`.

## 1. Inventory

| Component | State | Operations | Hard behaviour |
|---|---|---|---|
| Delivery queue | table `scheduled_sends` (status, attempts, `imap_pass_enc`) | schedule, immediate send, cancel, retry, worker | three actors claim one row; ambiguous SMTP outcome; UPDATE by id |
| Snoozed messages | table `snoozed_messages`, IMAP folders | snooze, move, cancel, wake | `MOVE` fallback is three commands; move before INSERT |
| Mailbox lifecycle | `mailbox_lifecycle`, `mailbox_lifecycle_operations`, password at the control plane | suspend, restore, password change, delete, create, reconcile | compensation, crash between the two stores, lock held in executor threads |
| Web sessions | dict `SESSIONS` under `_session_lock`, table `web_sessions` | login, lookup, guarded save, logout, cleanup | restore from the row races logout, refresh and cleanup |
| Managed addresses | `shared_mailboxes`, `managed_address_operations`, directory owners, control plane | create, update, password, delete, resync, reconcile | saga with queued compensations; worker without the handlers' lock |
| Mail filters (ManageSieve) | `sieve_rules`, `mail_forwarding_settings`, `mail_autoreply_settings` with revision and sync outcome, the user's one script, a bounded table of per-user locks | rule and settings changes, folders, synchronisation | rules are written without the lock; an upload comes after the change, or never; commands fail before or after their effect |
| Mailbox bindings of the central sign-in | `sso_mailbox_bindings`, `sso_external_mailbox_bindings` | bind, bulk bind, revoke, disconnect, drop with the account | password tried in one step, row written in another; re-created accounts |
| Ticket intake | `ticket_intake_mailboxes` with a cursor | register, take in at a start, visit, hand over, save the cursor | `SEARCH n:*`, lost answers, rows of deleted mailboxes |
| Sign-in (password, SSO with PKCE, Telegram link) | state, PKCE and link cookies of a browser, the transaction of a session | start, callback, link, password login | late, repeated and misdirected callbacks; cookies read before an await and cleared after it |
| Rate limits, sign-up | sliding windows in memory | count, reset, register a mailbox | looked at before and counted after an await; two registrations of one name |
| Account file of docker-mailserver | `postfix-accounts.cf`, the maps built from it, `_mailserver_lock` | add, reset, delete, rebuild, roll back | scripts that fail before or after their effect; a second program on the same file |
| Mail control agent | the same file | create, reset, delete | no lock in common with the server |
| Aliases, employee cache | `mail_aliases`, cached list | alias changes, lookups | conflict with managed addresses |
| Administration portal | none of its own | accounts, audit, statistics, Postfix queue | reads of other services |
| IMAP access, search, drafts, threads | none of its own | folder and message calls | pure query and subject functions |
| SMTP send and composition | none | `smtp_send` | outcome after `DATA` (in the delivery queue) |
| Secrets at rest | encrypted columns | migrate at start-up | interrupted migration |
| Directory and contacts, calendar, assistant, Web Push, settings | caches or single rows | lookups, single statements | none beyond one statement |
| `utils/*` | none | normalisation, validation | pure functions |
| IMAP container proxy, web client, MCP server, start page (Rust), desktop shells, deployment scripts | — | clients of, or scaffolding around, the server | — |

**Interactions.** Handlers and the worker meet only in the database, in two
in-memory locks (the lifecycle lock of a mailbox, the session lock) and in the
external services. Scheduling and snoozing share the IMAP/SMTP credential kept
in their rows; the session supplies it to the handlers. Suspension and password
change meet at the control plane. Web client, desktop shells and MCP server are
clients of the HTTP interface: in the models they are the requests.

**What makes each component correct.**

- *Delivery queue*: a letter is not submitted twice; "sent" is only written for
  a letter the relay took; a confirmed cancellation stands; the attempts stay in
  their budget; the stored password goes when the row ends; every row ends.
- *Snoozed messages*: no interleaving of moves destroys the last copy; what sleeps
  is scheduled and returns; a cancelled row is left alone.
- *Mailbox lifecycle*: with nothing open, "suspended" means that no known
  password opens the mailbox and "active" means that the kept one does; an open
  operation is completed; a completed one is not redone.
- *Web sessions*: a logout is final; an open session survives a restart; an
  expired one is forgotten.
- *Managed addresses*: with nothing pending, row, account, and directory owner
  agree; what a failure or a restart leaves open is finished; a login that has a
  row is claimed again.
- *Mail filters*: settings shown as in force are those the server runs; when a
  user's requests have ended, it runs all that the tables say, or the page says
  it does not; enabled rules file into folders that exist; the lock table gives
  each user one mutex and stays bounded.
- *Bindings*: the mailbox the cabinet shows is the one the sign-in opens; nothing
  stored for a mailbox outlives its account or serves the next one of its name
  (two of the three deletions do not see to that).
- *Ticket intake*: the cursor passes no letter by, and every letter is handed over.
- *Sign-in*: a browser's session, and a Telegram link, belong to the flow that
  browser began and to the person who signed in there.
- *Rate limits, sign-up*: the limit is exceeded by attempts under way, and anew after
  what empties the counter; registrations never exceed it; a registered name has one
  owner.
- *Account file*: file and maps are what the last definite answer about an account
  said; a creation takes no other account away (the agent's rollback of one does).

The hazards behind these, each at its line, are listed in `PROJECT.json`
(`hazards`) with the properties that would catch them.

## 2. Modules

| Module | Extends / instances | Contents |
|---|---|---|
| `DeliveryPromise` | — | abstract: what the queue promises of a message |
| `ScheduledSends` | instance of `DeliveryPromise` | the delivery queue |
| `MailboxLifecycle` | — | suspension and restoration of one mailbox |
| `Snooze` | — | snoozed messages over an IMAP mailbox |
| `Sessions` | — | web sessions |
| `ManagedAddress` | — | one shared mailbox or distribution list |
| `UserMutex` | — | abstract: one thread of a user at a time |
| `UserLocks` | instance of `UserMutex` | the bounded table of re-entrant locks, `_sieve_user_lock` |
| `SieveSync` | `UserLocks` | rules, forwarding, auto-reply and the upload of the script, composed with the locks |
| `AccountFile` | — | accounts of docker-mailserver, written by server and control agent |
| `MailboxBindings` | — | bindings of the central sign-in, and the ticket intake |
| `SignIn` | — | sign-in, Telegram link, password forms, rate limits, registration |
| `MC…` | the module of that name | instances and symmetry sets for TLC |
| `…Proofs` | the module of that name, `TLAPS` | theorems for every value of the constants; `SignInProofs` also those of `MailboxBindings` |

In each module the variables come first, then `TypeOK` and `Init`, helpers for
control (`Goto`, `Answer`, `Raise`), the actions in the order of a handler's
steps, the environment (clock, restart, other clients), `Next`, fairness, and
the properties. An action is the code between two points where another thread
can run: an `await`, a call to another service, a committed statement, an
acquisition of a lock. Definitions with the comment `mutation` are
alternative bodies of the definition that follows or precedes them, each a
plausible slip (a lost guard, an off-by-one, a missing reset); no action uses
them.

### ScheduledSends

| State | Code |
|---|---|
| `status`, `attempts`, `due`, `cred`, `origin` | a row of `scheduled_sends`: `status`, `attempts`, `scheduled_at`, whether `imap_pass_enc` is set, immediate or scheduled |
| `pc`, `cur`, `seen`, `pass`, `batch` | a thread's place in `_deliver_scheduled_send_row`, its row, the status and the password it read, the worker's batch |
| `submitted`, `cancelled`, `retried` | history: submissions accepted by the relay, confirmed cancellations, retries by a user |

`Schedule`, `Cancel`, `StartImmediate`, `StartRetry` are the handlers;
`Claim` is the UPDATE that still asks for the status read before (4446),
`Send` is `smtp_send`, `MarkSent` and `MarkFailed` the final UPDATEs, `Requeue`
the worker's except branch (6897–6909), which asks for the id only.
`SmtpOutcome` has three branches: taken, refused, and (with "smtp" in `Faults`)
taken although the call raised; "db" in `Faults` lets the statements raise.

`DeliveryPromise` is the queue as its user and the relay see it: which messages are
stored, withdrawn, asked for again and shown as sent, and how many copies the relay
has. It knows no statuses, attempts or threads. The refinement (`KeepsPromise`) maps
`copies` to `submitted`, `withdrawn` to `cancelled`, `repeated` to `retried`, `losses`
to `faults`, and `stored`, `direct` and `shown` to the rows with a status, with the
origin "immediate", and with the status "sent". `Unshow` is a weakness the code has:
of two deliveries of a retried row, the one that fails may write last (4476), and
worker or retry then sends again.

### MailboxLifecycle

| State | Code |
|---|---|
| `live`, `stored` | the password in force and the recovery credential at the control plane |
| `state` | the row of `mailbox_lifecycle` |
| `opAction`, `opPass`, `opStatus` | the rows of `mailbox_lifecycle_operations` |
| `lock`, `pc`, `act`, `op`, `got`, `verdict` | the lifecycle lock and the handler's locals |

`Acquire` … `Finish` follow the suspend and restore handlers; `Undo` is the
compensation; `ClaimStale`, `WorkerLock` and the shared `Reset`, `Mark`,
`Finish` are the worker. `BeginChange`/`Change`, `Delete`/`Purge` and `Create`
are the account handlers, which take no lock. `CanRun` models the executor: a
handler's blocking step needs one of `PoolSize` threads, and waiting for the lock
occupies one. `Exhausted` is the state this can end in: the lock has a holder that
needs a thread, and those who wait for it have all of them; `Hung` is its only step
but a restart. `Faults` selects which calls may raise: the control plane (before
or after its effect), the database, and the SELECT that follows a commit.

### Snooze

`box` is the set of copies (message, UID, folder, `\Deleted`), `nextUid` the
next UID, `exists` the folders; a row of `snoozed_messages` is named after the
request that inserts it (`status`, `cred`, `mid`, `home`, `wakeAt`). A move is
`Move`, or, when the server lacks `MOVE`, `CopyCommand`, `Store`, `Expunge`, one
IMAP command each (3340–3352); each may drop the connection. `Select`/`Find`
look for the message and make the folder Snoozed, whose refusal the code does not
look at (12451); `Insert` writes the row after the move, `SelectDue`,
`Claim`, `MarkWoken`, `MarkFailed` are the worker. `RemoveFolder` is another
client.

Abstractions: one message per snooze request (the code loops over the UIDs);
UIDs are unique across folders and `UIDVALIDITY` does not change; `\Seen` is
left out.

### Sessions

A session is an object (`mem`, an identity out of `Objects`) and a row (`row`,
`expires`). Identity matters: a guarded save compares the object in memory with
the one it holds (2173). `Lookup`, `Install`, `DropRow` are `session_get` with
its restore under the lock; `CheckActive`, `Write` the guarded save; `LogoutPop`,
`LogoutDelete` the two halves of `session_delete`; `SweepMemory`, `SweepTable`
the cleanup thread, which reads the clock before it takes the lock. `Loop` is
the event loop (one handler step at a time), `Pollers` are status polls running
in threads, `Refreshers` background refreshes that hold a session object across
an `await`. The contents of a session (its mailbox cache) are left out, except
that copying it may fail, which the model shows as a save that writes nothing.

### ManagedAddress

| State | Code |
|---|---|
| `account` | the password of the mailbox, or the recipients of the list, at the control plane |
| `owner` | who has the login in the panel's registry |
| `row`, `lastId` | the row of `shared_mailboxes`: id, `imap_pass_enc` or the recipients, `revision` |
| `ops` | `managed_address_operations`, in the order of their ids |
| `pc`, `job`, `batch` | what a handler or the worker is doing, what it has read, the operations the worker has claimed |
| `raced` | history: two changes met that the code does not keep apart (below) |

One address, whose `kind` is fixed. Mailboxes are changed at the mail server of the
same node (`_mail_admin_available`), lists at the control plane. `BeginCreate` …
`BeginResync` take the asyncio lock of the e-mail (creation) or the id (the others)
and read the row; `StartOperation` logs the intent; `ClaimOwner`, `Entity`, `Row`,
`Undo`, `Finish`, `Release` are the steps of the saga. The worker (`ClaimStale`,
`Pick`, `Load`) runs the same steps for an operation it has claimed, without undoing
and without the lock; `SyncList`, `SyncClaim` are the synchronisation of owners. A
request's number stands for the password it generates or the recipients it was sent,
so that contents of different requests are different. A call to the control plane or
the registry may fail before or after its effect. A resync that tries to reset and
then to create (10794–10806) is one step: only a redo of the worker could come between
the two, and that sets `raced`.

`raced` is set in four cases and the property that uses it says nothing
afterwards: the worker is redoing an operation while a handler of the address is
at work; the worker claims an operation whose handler still runs (slower than
`MANAGED_OPERATION_STALE_SECONDS`); an update or password change makes the
worker drop an open operation it does not replace (`Drops`); an address is
created again while the handler that deletes it has not released its login.
Each of the four breaks the agreement in a few steps (below); there is no
fifth (`AddressesAgree`).

### UserMutex, UserLocks, SieveSync

| State | Code |
|---|---|
| `table` | `_sieve_user_locks`: the entry of a user, known by the thread that made it |
| `mine`, `at` | the entry a thread has in hand, and how far it is with it; the count `refs` of an entry is the number of threads that have it |
| `holder` | the owner of an entry's `RLock` |
| `settings`, `rules` | `mail_forwarding_settings`, `mail_autoreply_settings`, `sieve_rules` |
| `folders`, `server` | the user's folders; the text stored at the ManageSieve server and whether it is active |
| `pc`, `job`, `read` | a request, what it asks for, what its synchronisation compiled |
| `cut`, `raced` | history: a restart cut a change short; a folder went while a rule was being saved |

`Take` looks an entry up or makes one under `_sieve_user_locks_guard`, giving up
an idle one when the table is full; `Enter`, `Reenter`, `LeaveInner`, `Unlock`
and `PutBack` are the context manager (1757–1806). The refinement
`ImplementsMutex == Mutex!MutexSpec` maps the set of threads that are inside to
`UserMutex`'s variable: seen from outside, entries that come and go behave like
one lock per user that is never thrown away.

`Set` writes settings under the lock, `Write` a rule without it; `Read`,
`PutScript`, `SetActive`, `Record` are the synchronisation (11965–12075), whose
two `UPDATE`s name the revision that was uploaded. A rule carries what matters:
enabled or not, its folder, whether a condition looks at the body, and who wrote
it. A script with a body condition does not compile at the server.

### AccountFile

`file` is `postfix-accounts.cf`, `live` the maps Postfix and Dovecot use. A
hash is named by the request whose password it is of. `Append`, `ReadOld`,
`Copy`, `Write`, `Delete` are the scripts (a rewrite copies the file and writes
the copy back, in two steps), `Apply` rebuilds the maps, `Copy`/`Write` with
"back" and `ApplyBack` are the rollback (14739–15150, and the same
in `rupochta_control_agent.py`). `Server` requests exclude each other by
`_mailserver_lock`, `Agent` requests because the agent's handlers never yield.
`word` records what the last definite answer said of an account, `crossed` that
changes of the two programs met. Two more history variables name the accounts whose
line is missing although the last answer said otherwise, until they have one again:
`wiped`, those the agent's rollback of a creation took, which empties the file, and
`phantom`, those the agent answered "updated" for without there being a line. `word`
is not touched by either: no answer said anything of them.

### MailboxBindings

| State | Code |
|---|---|
| `managed`, `external` | the rows of the two binding tables, by subject |
| `intake` | the rows of `ticket_intake_mailboxes` (password, cursor, first visit) |
| `real`, `born`, `inbox`, `uidNext` | the mailboxes: password in force, since when they exist, letters |
| `pc`, `job`, `worker` | requests, and the worker in a round of visits |
| `tickets` | letters handed to the ticket service, a set (the service knows a letter by its identity) |
| `raced` | history: a deletion met a registration that was proven before it or stored while it ran, a fault or a restart |
| `leftover` | history: mailboxes whose rows a deletion that drops nothing left behind, until a deletion drops them |
| `misplaced` | history: mailboxes in whose row the worker, visiting an earlier mailbox of that name, wrote the cursor of that one |

`ProvePassword` and `Store` are apart in the code (the password is tried on the IMAP
server, then the row is written). A mailbox is deleted in three places: `BeginRemove`
is `/api/admin/delete_account`, whose `Delete` at the control plane is followed by
`Forget` (15552); `BeginDiscard` is the portal's (17181–17240) and that of a managed
address (11220–11317), whose `Delete` is followed by nothing: bindings and intake rows
stay. `SelectRows` … `EndRound` are
`_worker_process_ticket_intake` (7052–7190); `RestartServer` includes what `db_init`
does: every bound managed mailbox joins the intake. `Status` is what the cabinet
shows (2856), `Lookup` what the sign-in opens.

### SignIn

| State | Code |
|---|---|
| `flow` | a visit to the sign-in service: its state and PKCE verifier, who began it, its code, who signed in |
| `mark`, `linkMark`, `sid` | the cookies of a browser |
| `sess` | a session of the sign-in: whose it is, whether it is open, its link transaction |
| `req` | handlers at an `await`, with what they have read before it |
| `fails`, `signups` | the counters, by age in ticks |
| `linked`, `starter` | history: the session a link was confirmed to, the session that began it |
| `missed`, `emptied` | history, by age: the failures of an address at a door, and when a success or a restart emptied its counter |
| `admitted`, `creator` | history: admitted registrations, who registered a mailbox |

`LoginCallback`, `LinkCallback` check the cookies and start a handler;
`Exchange` (token and user), `Open`, `Answer` are its steps after each `await`,
and change the cookies as they are by then. `Try`/`Prove` is a password form,
`SignUp`/`Add` the registration. A URL of a callback may be opened at any time,
again, and in any browser. The session object itself is the subject of
`Sessions`; here a session is open or not.

## 3. Runs

Passing runs are exhaustive within their bounds.

| Run | Bounds | Shows |
|---|---|---|
| `sends_hold` | 2 rows, 1 immediate send, 2 requests + worker, 2 attempts, batch 1, 1 restart, 1 ambiguous SMTP outcome or failing UPDATE, fairness | `PendingWithinBudget`, `SentWasSubmitted`, `CredentialGone`, `SubmittedOnce`, `WorkerNeverSendsCancelled`, `QueueSettles`, `KeepsPromise` |
| `lifecycle_blocks` | 3 suspend/restore requests, 2 faults, 1 restart | `SuspendedMeansBlocked`, `ActiveMeansUsable` |
| `lifecycle_settle` | 3 requests of every kind, 2 executor threads, 1 fault of any kind, 1 restart, fairness | `CompletedStaysCompleted`, `OperationsComplete`, `RequestsAnswered` |
| `managed_agrees` | 1 address of either kind, 2 requests, 1 fault or restart, fairness | `QuietMeansAgreed`, `OperationsEnd`, `OwnerReclaimed` |
| `snooze_keeps` | 1 message, 2 requests + worker, `MOVE` or fallback, drops, failing statements, 1 restart | `NoMessageLost`, `CancelledIsNotWoken` |
| `snooze_returns` | 1 message, 3 requests + worker, no faults, fairness | `SnoozedIsScheduled`, `SnoozedComesBack` |
| `snooze_lost` | the home folder is removed while the message sleeps | **violated**: `NoMessageLost` |
| `sessions_hold` | 2 logins, 1 poll, 1 refresh, failing table, 1 restart, fairness | `OpenSessionsAreStored`, `LogoutIsFinal`, `ExpiredAreForgotten` |
| `sieve_synced` | 3 requests (2 of one user), a table for 1 lock, 1 folder, 1 failing command or restart | `ShownIsRunning`, `QuietMeansSynced`, `RuleFolderExists`, `TableBounded`, `ImplementsMutex` |
| `accounts_kept` | 2 accounts, 2 requests to the server and 2 to the agent, 2 failing scripts or restarts | `FileAsSaid`, `LiveAsSaid`, `CreationKeepsAccounts` |
| `bindings_kept` | 2 subjects, 1 managed and 1 external mailbox, 2 requests (the second disconnects, registers or deletes in either way), 2 letters, 2 passwords, 1 fault or restart, fairness | `ShownIsOpened`, `DeletedAreForgotten`, `NothingSkipped`, `HandedOver` |
| `signin_own` | 2 browsers, 2 persons, 3 flows, 2 handlers at once, 4 beginnings, window of 2 ticks | `SessionIsOwnFlow`, `LinkIsOwn`, `GuessesBounded`, `SignUpsBounded`, `RegisteredItself` |

Type invariants are proved (section 4) and not part of the runs.

**Why these bounds are enough to see the interesting cases.** A row of a table
is touched by at most three actors in any of these races (the worker and two
requests), so two or three requests give every pair and, where it is affordable,
every triple. Two rows and a batch of one make rows compete for the worker.
`MaxAttempts` 2 lets a row fail once, be tried again, and reach its limit. One
restart is enough for every place to be cut; a second one meets only the states
the first left. `TTL` 1 and `MaxTime` 2 give the second in which a session
ends, one before and one after. `PoolSize` 2 with three requests lets two of them
wait for the lock and take all threads while the third holds it; with `PoolSize` 4, in
`lifecycle_blocks`, three requests never do. A lock table for one
lock and three threads of two users makes entries be given up, made anew and
shared. Two server and two agent requests give a change, the one after it, and
both of the other program. Three flows are what a late callback needs: an older
flow, a newer one of the same browser, and one of the other browser; two handlers
give every overlap of two awaits. In `bindings_kept` two passwords are one change
or one re-creation, two letters the one at the cursor and the one after it.

Some runs stop early to stay short. Larger ones were made by hand and found
nothing more: `managed_agrees` with two faults (352 000 states), and its
invariants with three requests (3.8 million); `sieve_synced` with two faults;
`sends_hold` with one row, three requests and two faults, and with two faults;
`signin_own` with two password forms.

**Bounds by name**: `MaxTime`, `MaxCrashes`, `MaxFaults`, `NumRequests`, `MaxFlows`,
`MaxBegun`, `MaxPass`, `MaxUid`, `Asks`, `Changing`, `Contents`, and the sizes of
`Rows`, `Requests`, `Calls`, `Identities`, `Server`, `Agent`, `Ops`, `Messages`,
`Tokens`, `Objects`, `Threads`, `Browsers`, `Subjects`. `MaxAttempts`, `BatchLimit`,
`Batch`, `PoolSize`, `TTL`, `MaxLocks`, `MaxFails`, `PerHour` and `Window` are
constants of the code with smaller values.

Deadlock is checked in every run: the state with nothing left to do has a step of
its own (`Finished`, or a clock or a worker that never stops), so that any other
state without a successor is reported. In `SieveSync` every other step but a
restart brings a request nearer to its answer, so that threads waiting on each
other for ever would be such a state.

**Fairness.** Weak fairness of a thread's steps: CPython and the event loop resume
whatever can run. Weak fairness of the clock. The sweep of the sessions has strong
fairness, because a thread acquires `threading.Lock` only at moments when it is free,
and other threads take it again and again. So has the acquisition of the lifecycle
lock: a worker that redoes an operation in vain tries again only after
`MAILBOX_LIFECYCLE_STALE_SECONDS` (1494), and leaves the lock free until then. The
ticket worker's steps are weakly fair: it is a loop in a thread of its own. Users,
restarts, other clients and faults have no fairness; faults are finite by their bound,
which the liveness properties mean when they say "in the end".

### Disagreements between the code and what is said of it

Shown by a run:

- `snooze_lost`: `_move_uids` does not look at the answer of `COPY` (3348).

Seen while modelling, and why the passing runs leave the case out:

- The worker's delivery fails, a user retries the failed row, and the retry is in
  `smtp_send` when the worker's except branch makes the row `pending` again by its
  id (6909). A cancellation now finds a pending row, is confirmed, and the
  retry delivers the letter, although
  `rupochta-mcp-server/src/tools/scheduling.ts:155` says it never is.
  `WorkerNeverSendsCancelled` is therefore about the worker, which sends no row it
  saw cancelled.
- Handlers wait for the lifecycle lock in threads of the loop's executor, without a
  timeout (16955, 17101), and the holder needs a thread of the same executor for its
  next call (16859). When as many requests wait for one mailbox as the executor has
  threads, nothing moves any more, for the whole service, and the worker waits for
  the lock as well. `RequestsAnswered` and `OperationsComplete` except this state
  (`Exhausted`), which the run reaches; without the exception both are violated by
  three requests and a pool of two. The default pool has `min(32, cpus + 4)` threads.
- A password reset passes its "suspended" check without the lock, awaits, and
  overwrites the blocking password (17265). `lifecycle_blocks` and the theorem have
  no password changes.
- `session_delete` drops memory and row in two steps (2235), and a status poll in
  a thread restores the session in between, although
  `docs/SECURITY_AND_RELEASE_CHECKLIST.md:15` wants a logout to be final:
  `LogoutIsFinal` excepts the logouts a poll met, and says that nothing else
  brings a session back.
- A row that is `sending` at a restart, or when the UPDATE after SMTP fails, stays
  so (4447, 6881): `QueueSettles` allows that after a crash or fault, and nothing
  else.
- The requeue by id (6909) may reopen a row another delivery holds, so that two
  deliveries run at once. `SubmittedOnce` shows that an untouched row is submitted
  once, and once more for each ambiguous outcome or failed UPDATE.
- A send or a wake-up that fails for good keeps `imap_pass_enc` in its row, while
  `docs/SECURITY_AND_RELEASE_CHECKLIST.md:10` wants all terminal rows empty.
  `CredentialGone` speaks of sent and cancelled rows.
- A SELECT that raises after the commit of a lifecycle row (1359–1388) makes the
  handler undo the password and not the row: `lifecycle_blocks` and the theorems
  exclude the fault `"read"`.
- An operation whose account is deleted is retried for ever (17227):
  `OperationsComplete` excepts it.
- A restart between the move to Snoozed and the INSERT leaves a message no row
  wakes (12464), and any exception while waking gives the row up (6974):
  `snooze_returns` has no faults.
- A message snoozed again is woken by its earlier row, if that is due first
  (6950).
- Any later operation of an address supersedes an open one (9481). A password
  change that failed after its effect, followed by an edit of the description, is
  closed as superseded: the address is shown active, and the password the row
  keeps is not the one in force. The same drops a deletion. Comparing the actions
  would not do: a queued release must yield to a later creation, which is what
  `SupersededBySame` shows.
- The worker does not take the lock of the handlers (9504) and does not look again
  whether the operation is open. A password change beside its redo of an older
  one leaves the account with one password and the row with the other; so does a
  synchronisation that read the row before.
- Deletion holds the lock of the id, creation the one of the e-mail (11212,
  10499): an address created while its deletion is about to release the login
  loses it until the next synchronisation, and for good if an employee gets it.
- An update that committed before a restart is redone with the revision it has
  raised (9563-9571), answered with 409, and tried for ever; for a list each attempt
  sets its recipients again. `OperationsEnd` excepts it.
- A restart between the closing of an undone creation and its release (10690), or
  a deletion between the listing and the claim of the synchronisation (9635),
  leaves a login owned by no row, which nothing releases.
- The control agent's deletion fails for a missing account
  (`rupochta_control_agent.py:187`), the direct one does not: with the agent a
  deletion that failed after its effect is never finished. `ManagedAddress` models the
  server that changes mailboxes itself.
- Two snoozes of one message at a server without `MOVE` duplicate it (12463). No
  property speaks of the number of copies: with `MOVE` it is the server's doing.
- The answer to `CREATE "Snoozed"` is not looked at (12451–12453). When the server
  refuses it, the move answers `NO`, and the fallback deletes the messages for good,
  as in `snooze_lost`. `MessagesAreKept` assumes that nothing is refused.
- *Filters.* Comments promise a fallback pass over fetched messages that does not
  exist (948, 11600). A rule with a body condition is compiled without
  `require "body"`, so that the server refuses every later script of the user.
  The answer to a rule change says synchronised whatever the upload did (12050). A
  restart between the settings and the upload leaves the server with the old
  script, and nothing uploads again (`cut`). A folder can go between the check and
  the saving of a rule (`raced`). The upload's effects after its connection was
  given up, and failing database statements, are not modelled.
- *Account file.* The agent's rollback of a creation removes lines by
  `grep -v "^…\|"` (`rupochta_control_agent.py:432`), and with GNU grep the `\|` is an
  alternative that matches every line: it empties the file, and every account is gone
  with the next rebuild. The agent answers "updated" to the reset of an account that
  has no line (458–471: `awk … && mv` in a list does not end a script under `set -e`),
  and does not rebuild the maps after a rollback. The properties name both (`wiped`,
  `phantom`) and hold for every other line; `CreationKeepsAccounts` allows one step
  that takes the lines of others, this rollback. Nothing in the repository says what
  the agent's rollback should leave, so that no run refutes a sentence of it.
  Server and agent do not exclude each other (`crossed`). The agent's change of a
  distribution list overrides its environment with empty arguments and changes
  nothing. `_queue_mailserver_apply_account_changes` is never reached. A script
  that ends after its client timed out is not modelled.
- *Bindings and intake.* `SEARCH n:*` answers with the last letter again and again,
  and the cursor may move back after deletions: letters are handed over again,
  never passed by. Registering an address again keeps its cursor, so that a mailbox
  created anew, whose row survived a failed deletion, skips letters (`raced`).
  Only `/api/admin/delete_account` drops what is stored for a mailbox. After the
  portal's deletion (17181–17240), or that of a managed address (11220–11317), its
  bindings and its intake row stay, and the next mailbox of that name has them:
  its letters up to the old cursor are passed by (`leftover`). The docstring of the
  drop (15537) and `tests/test_ticket_intake.py:55` speak of the first path alone. The
  worker writes a cursor by e-mail only (2920–2926, called at 7055): still on its visit
  to a mailbox deleted meanwhile, it writes that one's cursor into the row of the next,
  whose first letters are passed by (`misplaced`). The run reaches both.
  Every restart takes every bound managed mailbox into the intake, and unbinding
  does not take it out. A user's disconnection reads the provider and then drops
  whatever that provider has. The migration to a new key (2399–2508) leaves out
  the bindings and the intake, whose subjects are hashed with the key, so that
  every binding reads as absent afterwards (known:
  `docs/PROJECT_NEXT_STEPS.md:26`); it is not modelled.
- *Sign-in.* A callback that fails, or ends, clears the cookies of whatever newer
  flow the browser has by then, and the callback of a link pops a newer
  transaction: the newer flow must be begun again. A candidate mailbox whose
  server does not answer hides the refusal of another, which is then not counted.
  A success resets the counter of the whole address (7187, 16096), a restart every
  counter: `GuessesBounded` counts failures, not the counter, and grants the limit anew
  for each time the counter was emptied in the window.
  `telegram_issue_allowed` (16106) and `_complete_admin_sso_callback` (7519) are
  called by nothing, or not reached. PKCE is taken as enabled, the default.
- Operations of one statement that may repeat or be lost and that no property
  speaks of: a failed delivery keeps the password in its row (4386), the cleanup
  thread ends for good when the table raises (2294), a wake-up that raises gives
  its row up (6974), concurrent claims of a login (9172).

## 4. Proofs

All theorems are proved by TLAPS from the named assumptions of their module (the
sets are finite where the code's are, the special values are no members of them,
bounds are naturals) and hold for every value of the constants.

| Theorem | States | Argument |
|---|---|---|
| `ScheduledSendsProofs!TypeCorrect` | `TypeOK` | inductive by itself |
| `…!PendingStaysWithinBudget` | `PendingWithinBudget` | inductive by itself, given types: only `Requeue` and `Schedule` make rows pending, and the former compares first |
| `…!CredentialsAreWiped` | `CredentialGone` | needs `Ownership`: what a thread about to write "sent" knows of its row |
| `…!SentMeansSubmitted` | `SentWasSubmitted` | a thread at its final UPDATE has submitted the row it holds |
| `…!WorkerRespectsCancellation` | `WorkerNeverSendsCancelled` | `WorkerInv`: a worker that read a password before the cancellation fails its claim, one that reads after finds none |
| `…!CopiesArePaidFor` | `SubmittedOnce` | who is past the claim of a row nobody retried is alone there (`Hands`, `OnePastClaim`); while the message can still be submitted, each copy so far goes with a failure (`Paid`) |
| `…!PromiseIsKept` | `KeepsPromise`: `ScheduledSends` implements `DeliveryPromise` | step by step from the invariants above: what they say of a thread at its place is the guard of the step of the promise it takes; a status is written over "sent" only in a row the user retried (`Unsettled`) |
| `MailboxLifecycleProofs!TypeCorrect` | `TypeOK` | inductive by itself |
| `…!CompletedForGood`, `…!SuspensionHasAnOperation` | `CompletedStaysCompleted`, `SuspendedOnlyByOpenOperation` | `Custody`: who works on an operation holds the lock, and it is the one open operation |
| `…!SuspensionBlocks` | `SuspendedMeansBlocked`, without password changes, re-creation and the fault "read" | `Blocking`: where row and password disagree, an operation of the kind that will make them agree is open |
| `…!ActivityIsUsable` | `ActiveMeansUsable`, without deletion and the fault "read" | `Usability`, the same for restoration |
| `SnoozeProofs!TypeCorrect` | `TypeOK` | with the lemma that every move continues at one of five places |
| `…!MessagesAreKept` | `NoMessageLost`, if target folders stay and neither `COPY` nor `CREATE` is refused | UIDs only grow (`UidsGrow`); a copy about to be flagged has an unflagged later copy (`Guarded`) — the copy with the greatest UID is never destroyed |
| `…!CancelledStaysCancelled` | `CancelledIsNotWoken` | `RowsBegin`: a row that is being inserted has no status yet, so no insert touches a cancelled one; the claim compares |
| `…!SnoozedAreScheduled` | `SnoozedIsScheduled`, while nothing fails and nobody files into Snoozed by hand (`Undisturbed`) | `Covered`: every copy in Snoozed has a row that brings it back, or one who is about to write it; `Aimed`: only a snooze moves to Snoozed, and it moves the message of its row |
| `SessionsProofs!TypeCorrect` | `TypeOK`, with the ownership of the lock | inductive by itself |
| `…!SessionsAreStored` | `OpenSessionsAreStored` | who is about to delete a row under the lock has seen it expired |
| `…!LogoutHolds` | `LogoutIsFinal` | a save of an object that is not in memory writes nothing; only the event loop installs, and it is in the logout |
| `SieveSyncProofs!LocksAreMutexes` | `UserLocks` implements `UserMutex` | who is inside owns the lock of its entry, and the entry of a thread in hand is its user's entry in the table; every step of the table is a step of the mutex or a stutter |
| `…!UploadsExclude` | `Exclusion` | the same invariant, at one state |
| `…!TableStaysBounded` | `TableBounded` | over the limit every entry is in use (cardinalities of finite sets) |
| `…!SyncUsesMutexes` | `ImplementsMutex`, for the whole of `SieveSync` | every step of `SieveSync` takes a step of the locks or none |
| `…!SyncTypeCorrect` | `TypeOK` of `SieveSync` | inductive with what a request at each place carries (`Types`) |
| `…!SettingsShownAreRunning`, `…!QuietUsersAreSynced` | `ShownIsRunning`, `QuietMeansSynced` | `SyncInv`: who uploads carries what the tables say, but for rules whose request is still to read (`Carries`); what is shown runs (`Honest`); unless somebody is still to read, or uploads, or something is not shown as applied, all runs (`Synced`) |
| `…!RulesHaveFolders` | `RuleFolderExists` | `Filed`: while nobody raced a rule against its folder, a rule about to be written names a folder that is there, and a folder about to be removed is named by no enabled rule |
| `SignInProofs!TypeCorrect` | `TypeOK` | inductive with `Shape`: what a handler at an `await` carries |
| `…!SessionsAreOwn` | `SessionIsOwnFlow` | `Persons`: cookies, handlers and sessions only name flows of their browser; a flow keeps its kind and owner (`FlowsStand`), and its person once its code is spent |
| `…!LinksAreOwn` | `LinkIsOwn` | `Persons`, and `Started`: the transaction of a session names a flow that this session began (`starter`), and so does what a link's handler carries over its awaits |
| `…!RegistrantsOnly` | `RegisteredItself` | the creator of a name never changes |
| `…!SignUpsAreBounded` | `SignUpsBounded` | the counter and the registrations are one list, compared and lengthened in one step |
| `…!GuessesAreBounded` | `GuessesBounded` | `GuessesCounted`: the failures in the counter and the attempts under way together stay below the limit and the number of handlers; `FailuresHeld`: the failures in the window are at most those in the counter, and as many again as it can hold for each time it was emptied; lemmas say what recording, ageing and forgetting do to the length of a list |
| `…!BindingsTypeCorrect` | `BindingsTypeOK` | inductive with what a request or the worker carries at each place (`AllTyped`) |
| `…!ShownMailboxOpens` | `ShownIsOpened` | of the two reads of the tables, in every state |
| `…!StoredIsForgotten` | `DeletedAreForgotten` | `Forgotten`: unless a deletion met what `raced` names, or was one that drops nothing (`leftover`), what is stored for a mailbox, and what a request has proven and will store, is a password of the mailbox that exists now (`Standing`), but between the deletion and its `Forget` |
| `…!LettersAreNotSkipped` | `NothingSkipped` | `Followed`, beside `Forgotten`: of a row, and of the worker's copy of one, either the password is older than the mailbox or all letters up to the cursor were handed over (`Passed`); what the worker does not hold of its search was handed over or came later (`Held`), so that a copy of an outdated row is harmless while its mailbox is the same: its password no longer opens the mailbox, or its cursor is only behind; across mailboxes it is not, which `misplaced` notes |
| `ManagedAddressProofs!TypeCorrect` | `TypeOK` | inductive with: only handlers log operations, and the worker has only claimed what is in the log |
| `…!AddressesAgree` | `QuietMeansAgreed` | `Kept`, until changes meet that the code does not keep apart (`raced`): the operation that no later one supersedes (`Last`) answers for the address — while it is open, redoing it mends account and row (`Mends`), closed, they agree; two handlers only meet when one creates the row, and either it is through with it or the other is (`Meet`); the worker redoes only the last operation, with no handler beside it |
| `AccountFileProofs!TypeCorrect` | `TypeOK` | inductive by itself |
| `…!FileIsAsSaid`, `…!LiveIsAsSaid` | `FileAsSaid`, `LiveAsSaid` | `Kept`: while the programs do not meet, a request under way is alone with its account, a copy about to be written back differs from the file in that account's line only, and what was last said of every other account is still true, or its line is among those the agent took or never had |
| `…!CreationsKeep` | `CreationKeepsAccounts` | the same invariant: a step of a creation or of its rollback writes back a copy that holds the others' lines, unless it is the agent's rollback, which writes an empty file |

Invariants like `SentWasSubmitted` are not inductive as they stand: a state in
which a thread is about to write "sent" for a row nobody submitted satisfies
them. Each strengthening adds what the threads in flight know.

Checked by TLC only: liveness under fairness (`QueueSettles`,
`OperationsComplete`, `RequestsAnswered`, `SnoozedComesBack`,
`ExpiredAreForgotten`, `OperationsEnd`, `OwnerReclaimed`, `HandedOver`), which needs
ENABLED and is beyond the prover. Every safety property of a passing run has a
theorem.

`SignInProofs` holds the proofs about `MailboxBindings` too, and extends both modules,
which share no name (`BindingsInit`, `BindingsNext`, …): both are about the central
sign-in, and the theorems of either speak of its own module only. `Max` and `Min` of
the intake's searches are `CHOOSE`s; that they name a greatest and a least letter
follows from the well-founded order of the naturals (`LeastNumber`, `LeastUid`).

## 5. Not modelled

Listed in `PROJECT.json` (`components`) with reasons. In short:

- stateless proxies and readers: IMAP access, calendar, directory, portal
  statistics, assistant;
- single-statement tables: settings, signatures, Web Push, aliases;
- formatting: MIME composition, the text of a Sieve script;
- the migration of secrets to a new key, one transaction at a start;
- of modelled components: the custom endpoints of external mailboxes
  (2759–2795), the administrator's central sign-in, which is the same exchange
  again, aliases, distribution lists and queries of the control agent, the status
  pages of managed addresses;
- other programs: web client, desktop shells, MCP server, start page, deployment
  scripts.

## 6. Further work

1. `AccountFile` as the control plane behind `MailboxLifecycle` and
   `ManagedAddress`.
2. `SecretMigration` — old keys to the current one in one transaction.
3. Pure algorithms against reference definitions over bounded inputs: modified
   UTF-7, address normalisation, search queries, thread subjects.
