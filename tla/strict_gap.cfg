SPECIFICATION MCSpec
CONSTANTS
  Scenes = {"workflow"}
  DDCount <- MCDDCount
  DDGroupOf <- MCAllInOne
  DDVulnOf <- MCAllInOne
  DDModes = {"both", "vulnerability"}
  DDMaxSend = 2
  DDCheckpoint = 1
  DDRetries = 1
  DDMaxFaults = 2
  DDMaxChanges = 2
  JPNodes = {1, 2, 3}
  JPParent <- MCParent
  JPLinked = {3}
  JPTargets = {1}
  JPMaxCreate = 2
  JPRetries = 1
  JPMaxFaults = 2
  JPMaxChanges = 1
  JPFlatModes = {TRUE, FALSE}
  JPFilters = {{}, {2}}
  JPLimits = {0, 2}
  DSVersions = {1, 2, 3}
  DSProjectOf <- MCProjectOf
  DSBoms <- MCBoms
  DSExcluded = {3}
  DSUnmarked = {2}
  DSMaxFaults = 2
  DSMaxChanges = 1
  PWRuns = {1, 2}
  PWRetain = 1
  PWArgs <- MCCommands
  PPNodes = {1, 2}
  PPParent <- MCEpic
  PPPlans = {{1}, {1, 2}}
  PPMaxCreate = 1
  PPMaxFaults = 4
  PPMaxRuns = 4
  PVVersions = {1, 2}
  PVEvery = 1
  PVShards = 2
  PVMaxContent = 1
  PVMaxFaults = 1
  PVMaxChanges = 1
  CSOccurrences <- MCOccurrences
  CSFixedAt <- MCFixedAt
  CSMaximum = 2
  CSPageSize = 3
  CSMaxOccurrences = 3
  CSMaxDecided = 1
  CSMaxFaults = 1
  RCReaders = {1, 2}
  RCUrls = {1, 2}
  RCMaxEntries = 1
  RCCheckpoint = 2
  RCMaxAsks = 4
  RCMaxAges = 1
  RCMaxFaults = 1
  ScRepos = {1, 2}
  ScExcluded = {}
  ScVersionsOf <- MCScmVersions
  ScWorlds <- MCWorlds
  ScCuts = {0, 1}
  ScRetain = 2
  ScPast = {1, 2}
  ScMaxIds = 3
  ScMaxFaults = 1
  ScMaxChanges = 1
  GHIds = {1, 2, 3, 4}
  GHFirstNames <- MCGitHubNames
  GHNames = 4
  GHArchived = {2}
  GHPageSize = 2
  GHRulesets <- MCRulesets
  GHFirstRules <- MCFirstRules
  GHRetries = 1
  GHMaxFaults = 1
  GHMaxChanges = 3
  GLIds = {1, 2, 3, 4}
  GLFirstPaths <- MCGitLabPaths
  GLPaths = 4
  GLArchived = {3}
  GLPageSize = 2
  GLTrees <- MCTrees
  GLFirstHeads <- MCFirstHeads
  GLFileLimits = {1, 2}
  GLMaxFaults = 2
  GLMaxChanges = 1
  RUVersions = {1, 2, 3, 4}
  RUProjectOf <- MCRollupProjects
  RUEdges <- MCAdded
  RUExtra <- MCMayBeAdded
  RUNamed <- MCByNameAlone
  RUFindings <- MCRollupFindings
  RUNameless = {"b"}
  RUMarked = {2}
  RUArgs <- MCRollups
  RUExcluded = {3}
  RUHeld = {4}
  RUMaxFaults = 1
  RUMaxChanges = 1
  RUMaxRuns = 2
PROPERTIES
  StrictPublishesComplete
CHECK_DEADLOCK FALSE
