SPECIFICATION FairSpec
CONSTANTS
  o1 = o1
  o2 = o2
  s1 = s1
  c1 = c1
  c2 = c2
  Orgs = {o1, o2}
  SystemTasks = {s1}
  NoTask = NoTask
  Interval = 2
  Backoffs = {1}
  BufferSize = 1
  Consumers = {c1}
  MaxChanges = 2
INVARIANTS NeverUnscheduled ScheduledOnce
 
