CONSTANTS
  p1 = p1
  p2 = p2
  big = big
  Big = Big
  mid = mid
  small = small
  ag = ag
  rule1 = rule1
  rule2 = rule2
  none = none
  Provider = {p1, p2}
  NoProvider = noProvider
  Record <- MCRecords
  Ranking <- MCRanking
  Model <- MCModels
  NoModel = noModel
  Spelling <- MCSpelling
  Tier <- MCTier
  Agent = {ag}
  NoAgent = noAgent
  Chain <- MCChain
  Rule <- MCRules
  NoRule = noRule
  NoRoute = none
  Guard <- MCGuards
  Unrestricted = unrestricted
  MaxAttempts = 3
SPECIFICATION Spec
INVARIANTS PlanOrderly RulesAreNoWayAround WorksWithoutRule
