CONSTANTS
  NumRequests = 2
  Worker = worker
  First = first
  Gone = gone
  Kinds = {"mailbox", "distribution"}
  MaxFaults = 1
SPECIFICATION FairSpec
INVARIANT QuietMeansAgreed
PROPERTIES OperationsEnd OwnerReclaimed
