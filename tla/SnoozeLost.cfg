CONSTANTS
  Messages = {m1}
  Requests = {r1}
  Worker = worker
  Folders = {inbox, work, snoozed}
  Inbox = inbox
  Snoozed = snoozed
  SnoozeSources = {work}
  MoveTargets = {}
  Removable = {work}
  BatchLimit = 1
  Faults = {}
  MaxTime = 1
  MaxCrashes = 0
SPECIFICATION Spec
INVARIANTS NoMessageLost
