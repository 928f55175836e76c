SPECIFICATION MCSpec
CONSTANTS
  Tasks = {t1}
  Joinable = {t1}
  Threads = {a, b}
  NoTask = NoTask
  Body = Body
  Groups = {g1}
  GroupOf <- MC_OneGroup
  Budget = 1
  Senders = {a, b}
  Capacity = 2
  MaxSends = 3
  MaxWakers = 3
  Jobs = {t1, t2}
  MaxGroups = 2
  ShareCounts = {2, 3}
  DefaultShares = 2
  PollTimes = {2, 3}
  MaxCharges = 4
  NoJob = NoJob
INVARIANTS
  WakeNotLost
  NoSleepThroughWork
  TaskCountExact
  JoinNotLost
  ReceiverNotStranded
  
PROPERTY
  ImplementsChannel
CHECK_DEADLOCK FALSE
