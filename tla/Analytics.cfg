\* Searches of depth 1 to 3 with room for two or four nodes.
SPECIFICATION Spec
CONSTANTS
  a1 = a1
  a2 = a2
  a3 = a3
  a4 = a4
  a5 = a5
  Addresses <- MCAddresses
  Limits <- MCLimits
  Chains <- MCChains
  Depths = {1, 2, 3}
  NodeLimits = {2, 4}
  FanOut = 20
  TokenFanOut = 10
  ClusterFanOut = 10
  MinCount = 2
INVARIANTS GraphExact ClusterExact LabelsAgree
CHECK_DEADLOCK FALSE
