CONSTANTS
  Messages = {m1}
  Requests = {r1, r2, r3}
  Worker = worker
  Folders = {inbox, work, snoozed}
  Inbox = inbox
  Snoozed = snoozed
  SnoozeSources = {inbox}
  MoveTargets = {inbox, work}
  Removable = {}
  BatchLimit = 1
  Faults = {}
  MaxTime = 2
  MaxCrashes = 0
SPECIFICATION FairSpec
INVARIANTS SnoozedIsScheduled
PROPERTIES SnoozedComesBack
