SPECIFICATION Spec
CONSTANTS
  Audio = {a1, a2}
  Models = {m1, m2}
  NoModel = none
  AutoPolicy = m1
  CacheSize = 1
  MaxRequests = 2
  MaxSwitches = 2
  MaxUserOps = 3
  MaxActivities = 2
  MaxDeaths = 1
SYMMETRY Symmetry
INVARIANTS ServiceOwnsEngine EngineObeysUser PageTellsTruth
  StaleAnswerNeedsKeptCache CacheSound
