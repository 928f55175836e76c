SPECIFICATION MCLiveSpec
CONSTANTS
  Tasks = {t1, t2}
  Joinable = {}
  Threads = {a}
  NoTask = NoTask
  Body = Body
  Groups = {g1}
  GroupOf <- MC_OneGroup
  Budget = 1
  Senders = {a, b, c}
  Capacity = 1
  MaxSends = 1
  MaxWakers = 4
  Jobs = {}
  MaxGroups = 1
  ShareCounts = {2}
  DefaultShares = 2
  PollTimes = {2}
  MaxCharges = 0
  NoJob = NoJob
PROPERTIES
  WokenIsPolled
  DrainEnds
  SendCompletes
CHECK_DEADLOCK FALSE
