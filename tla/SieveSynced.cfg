CONSTANTS
  ann = ann
  bob = bob
  work = work
  Threads = {1, 2, 3}
  Users = {ann, bob}
  UserOf <- McUserOf
  Nobody = 0
  MaxLocks = 1
  Folders = {work}
  NoFolder = nowhere
  Contents <- McContents
  Asks <- McAsks
  MaxFaults = 1
SPECIFICATION Spec
INVARIANTS ShownIsRunning QuietMeansSynced RuleFolderExists TableBounded
PROPERTIES ImplementsMutex
