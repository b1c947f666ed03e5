SPECIFICATION FairSpec
CONSTANTS
  Drone = {1, 2, 3}
  Source = {1}
  Link <- MCLink
  Lossy <- MCLossy
  Relay = {2, 3}
  OnDuty = {2}
  MaxHops = 2
  Transit = 1
  DedupeTtl = 3
  ForwardTtl = 3
  MaxSends = 1
INVARIANTS TypeOK ForwardedOnce DeliveredOnce
PROPERTIES Implements Reached
CHECK_DEADLOCK FALSE
