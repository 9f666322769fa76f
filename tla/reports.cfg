\* Two reports; the reporter is started twice.
CONSTANTS
  Report = {r1, r2}
  Optional = {silent}
  Nobody = Nobody
  MaxInits = 2
SPECIFICATION FairSpec
\* All reports may have been freed.
CHECK_DEADLOCK FALSE
INVARIANTS
  OnePacketAtATime
PROPERTIES
  DispatchedIsFreed
