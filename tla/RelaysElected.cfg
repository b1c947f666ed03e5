SPECIFICATION FairSpec
CONSTANTS
  Drone = {1, 2, 3}
  Phase <- MCPhase
  Radio <- MCRadio
  Opinions <- MCOpinions
  MaxChanges = 2
  Fresh = 2
  Retention = 6
  VoteTimeout = 2
  Grace = 4
  Trigger = 1
  Persist = 1
  Recover = 1
  MinHold = 2
  Cooldown = 1
  NoImprove = 3
  MaxActive = 3
  Handoff = 1
  Margin = 0
  MinVotes = 2
  MinStale = 1
  MinSide = 2
INVARIANTS TypeOK BoundedDuty Elected
PROPERTIES Backed Reunited

