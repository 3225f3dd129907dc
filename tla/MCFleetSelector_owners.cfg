SPECIFICATION FairSpec
CONSTANTS
  f1 = f1  f2 = f2  d1 = d1  d2 = d2  p = p  q = q  w1 = w1  w2 = w2
  NoFleet = NoFleet
  Fleets <- TwoFleets
  Devices <- OneDevice
  Pairs <- TwoPairs
  Labellings <- SomeLabels
  Workers <- OneWorker
  MaxChanges = 3
  MaxFaults = 1
INVARIANTS TypeOK OwnersRight RetiredUnowned 
 
CHECK_DEADLOCK FALSE
