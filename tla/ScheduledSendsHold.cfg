CONSTANTS
  Rows = {m1, m2}
  Senders = {s1}
  Requests = {r1, r2}
  Worker = worker
  MaxAttempts = 2
  BatchLimit = 1
  MaxTime = 1
  MaxCrashes = 1
  Faults = {"smtp", "db"}
  MaxFaults = 1
SPECIFICATION FairSpec
INVARIANTS PendingWithinBudget SentWasSubmitted CredentialGone SubmittedOnce
PROPERTIES WorkerNeverSendsCancelled QueueSettles KeepsPromise
