SPECIFICATION WebAppSpec
CONSTANTS
  PortalTickets = {e1, e2}
  MaxPortalOps = 2
  NoCase = NoCase
  Asks = {e1, e2}
  Loads = {l1, l2}
  ReviewSaving = save
  Moves = {"published", "rejected"}
  MaxMoves = 1
  NoAsk = NoAsk
  Libraries = {c1, c2}
  Items = {e1, e2}
  Fetches = {l1}
  Saving = saving
  Importing = importing
  UrlImporting = url
  Filters = {"all", "draft"}
  MaxWrites = 1
  NoItem = NoItem
  Talks = {e1, e2}
  Words = {"", "due", "refund"}
  Searches = {w1, w2}
  MaxTyping = 2
  NoTalk = NoTalk
  Shops = {k1, k2}
  MaxRecord = 2
  MaxDrafts = 1
  NoShop = NoShop
  Urgents = {e1, e2, x3}
  Polls = {w1, w2}
  Stack = 1
  Kept = 2
  MaxAlertOps = 4
  Articles = {k1}
  NewArticle = newk
  Fetchers = {l1, l2}
  MaxAsks = 2
  MaxPageOps = 3
  sa = sa
  sb = sb
  q1 = q1
  q2 = q2
  q3 = q3
  PromptShops = {sa,sb}
  Prompts = {q1,q2,q3}
  NoPrompt = noprompt
  OwnedAtFirst <- MCOwned
  PromptLoads = {l1, l2}
  MaxPromptOps = 3
  Chats = {h1, h2}
  QueueLimit = 1
  QueueLoads = {q1, q2}
  MaxQaOps = 2
INVARIANTS
  ScreenInvariant
PROPERTIES
  ScreensKeepTheirSubject
SYMMETRY PoolSymmetry
CHECK_DEADLOCK FALSE
