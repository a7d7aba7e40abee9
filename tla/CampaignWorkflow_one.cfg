SPECIFICATION FairSpec
CONSTANTS
  Runner = {r1}
  NoRow = NoRow
  MaxRetries = 1
  MaxLLMCalls = 4
  WorkflowLimit = 2
  VersionLimit = 2
  InterruptLimit = 1
INVARIANTS CampaignFollowsWorkflow ContentIsReviewed   DecisionsStand AgentRunsClosed
 
CHECK_DEADLOCK FALSE
