CONSTANTS
  Tenants = {a, b, c}
  Pool = {w1, w2}
  MaxTenantStates = 2
  TenantStateTTL = 1
  MaxTenantQueueSlack = 1
  MaxGlobalQueueSlack = 1
  HalveAbove = 3
  Loads <- MCLoads
SPECIFICATION TenantSpec
SYMMETRY Symmetry
INVARIANTS TableBounded ShareRespected
