\* Two groups, two matching boards among three, enable and kzalloc faults,
\* four drm_get_handle calls with frees in between.  An install routine
\* stops calling once it has its boards, so a state with no call left ends
\* the behaviour.
CONSTANTS
  d1 = d1
  d2 = d2
  d3 = d3
  g1 = g1
  g2 = g2
  Groups <- MCGroups
  Bus <- MCBus
  DevId <- MCDevId
  IdInputs <- MCIds
  EnableFaults = TRUE
  AllocFaults = TRUE
  MaxCalls = 4
SPECIFICATION MCSpec
INVARIANTS
  TypeOK
  EnableBalanced
  AssertMsbIsBigEndian
CHECK_DEADLOCK FALSE
