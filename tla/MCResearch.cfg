SPECIFICATION ResearchSideSpec
CONSTANTS
  Studied = {"campaign", "counterpilot", "scheduler", "money", "consent",
             "offerlab", "seller"}
  h1 = h1
  Cases = {1, 2, 3, 4, 5, 6, 7}
  Pilot = {}
  Trials = {4}
  Untargeted = {}
  Campaigns = {"g1", "g2"}
  Models = {"m1", "m2"}
  Clients = {"a", "b"}
  HiddenBudget = 1
  ProspectiveBudget = 1
  Scenarios <- MCScenarios
  Tries = 2
  Callers = {"p", "q"}
  Offers = {"o1", "o2", "o3"}
  Experiments = {"e1"}
  Exposure = {"e1"}
  Control <- MCControl
  Plans = {1, 2}
  Configs = {"v1", "v2"}
  Values = {0, 1}
  Files <- MCFiles
  PilotScenarios <- MCPilotScenarios
  Workers = {"w1", "w2"}
  Designs = {"d1"}
  AdHoc = {h1}
  Planned <- MCPlanned
  Attempts = 2
  MaxPreregs = 2
  MaxAdHoc = 2
  MaxOutcomes = 1
  Bookkeepers = {"k1", "k2"}
  Decisions = {"d1"}
  Forecasts = {"f1", "f2"}
  Outcomes = {"v1"}
  MaxEntries = 3
  Stores = {1, 2}
  MerchantOf <- MCMerchantOf
  Purposes = {"train", "cross"}
  CrossPurpose = "cross"
  Sales = {"s1", "s2"}
  StoreOf <- MCStoreOf
  Exporters = {"x"}
  MaxTime = 1
  MaxConsents = 3
  Agents = {"a1", "a2"}
  Topics = {"g", "h"}
  Agendas <- MCAgendas
  DevBudget = 1
  HidBudget = 1
  Folders = {"f1", "f2", "bad"}
  Orders <- MCOrders
  Wellformed = {"f1", "f2"}
  Importers = {"i1", "i2"}
  Reporters = {"r"}
  MinMature = 1
  MinMeaningful = 2
  MaxDays = 2
  MaxEdits = 2
  MaxCuts = 1
INVARIANTS
  FreezeSound
  HiddenPaidOnce
  ProtocolKept
  ImportedIsOnRecord
  SchedulerSound
  HistoryLinked
  ConsentKept
  CampaignSound
  ReportOfOneImport
CHECK_DEADLOCK FALSE
