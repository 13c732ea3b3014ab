CONSTANTS
  Messages = {m1}
  Requests = {r1, r2}
  Worker = worker
  Folders = {inbox, work, snoozed}
  Inbox = inbox
  Snoozed = snoozed
  SnoozeSources = {inbox}
  MoveTargets = {inbox}
  Removable = {work}
  BatchLimit = 1
  Faults = {"drop", "nomove", "db"}
  MaxTime = 1
  MaxCrashes = 1
SPECIFICATION Spec
SYMMETRY Symmetry
INVARIANTS NoMessageLost
PROPERTIES CancelledIsNotWoken
