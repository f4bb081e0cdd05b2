CONSTANTS
  EventCount = 2
  a = a
  b = b
  w1 = w1
  w2 = w2
  p = p
  Worker = {w1, w2}
  Consumer = {a, b}
  Partition = {p}
  PartitionOf <- OnePartition
  Interested <- TwoConsumers
  Malformed = {2}
  MaxAttempts = 2
  BatchSize = 2
  MaxFaults = 2
  NoEvent = NoEvent
  Replica = {w1, w2}
  Job = {requeue}
  Exclusive = {requeue}
  RequeueJob = requeue
  MaxFailures = 1
  MaxKills = 1
  Nobody = Nobody
SPECIFICATION FairServiceSpec
INVARIANTS EffectOnce PublishedIsConsumed OneRunAtATime
PROPERTIES SettledUnlessLost JobsGoOn
CHECK_DEADLOCK FALSE
