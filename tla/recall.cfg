SPECIFICATION Spec
CONSTANTS
  PlanLength = 5
  Worker = {w1, w2}
  Corpora <- MCCorpora
  Totals <- MCTotals
  MaxFaults = 2
  Text <- MCText
  TargetWords = 60
  MaxSentences = 3
INVARIANTS TypeOK PromptCoversPast ExcerptIsLead FullTextReachable
PROPERTIES DoneMeansRead LikeEphemeral EndsWithinPlan
