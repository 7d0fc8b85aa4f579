SPECIFICATION LegacyApiSpec
CONSTANTS
  Sources = {e1, e2}
  Urls = {sheet}
  TabChoices <- MCTabs
  Editions <- MCEditions
  Queries <- MCQueries
  Saves = {w1, w2}
  Syncs = {w1, w2}
  Answers = {answer}
  Freshness <- MCFresh
  MaxTime = 2
  MaxFaults = 1
  NoKey = NoKey
  None = None
  CustMsgs = {"m1","r"}
  Ratings = {"r"}
  Threads = {"c1"}
  ThreadOf <- TOf
  Hooks = {w1,w2}
  Batches <- Bc
  LReplies = {"auto","urgent"}
  DeskJobs = {takeover}
  DeskStatuses = {"assigned","resolved"}
  LTickets = {e1,e2}
  TestSenders = {}
  NoTicket = NoTicket
  Articles = {e1, e2}
  ChangeAsks = {q1}
  LkJobs = {w1, w2}
  ReviewStates = {"rejected"}
  Escalated = {escalated}
  NoArticle = NoArticle
  Entries = {e1, e2}
  Makers = {w1, w2}
  Origins = {"o1"}
  EntryBatches = {{"o1"}}
  NoEntry = NoEntry
  Senders = {"a1", "a2", "b1"}
  TenantOf <- MCTenantOf
  MaxMarkChanges = 3
  NoSender = NoSender
  Pages = {e1, e2}
  MaxLinks = 2
  MaxEdits = 2
  LinkJobs = {w1, w2}
  NoPage = NoPage
  MaxDay = 3
  PolicyDays = {1, 2}
  LiveDays = 2
  ComplianceJobs = {w1, w2}
  MaxUpdates = 3
INVARIANTS
  LegacyInvariant
PROPERTIES
  WorkIsNotUndone
SYMMETRY PoolSymmetry
CHECK_DEADLOCK FALSE
