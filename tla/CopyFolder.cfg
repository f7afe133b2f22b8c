SPECIFICATION FairSpec
CONSTANTS
  tmd = tmd
  app = app
  cert = cert
  code = code
  title = title
  Files = {tmd, app, cert}
  Folders = {title, code}
  Root = title
  Dir <- TitleDir
  Up <- TitleUp
  Size <- TitleSize
  Large = {app}
  MaxDirs = 5
  MaxCalls = 2
  Leftovers = {1}
  Faults = TRUE
INVARIANTS TrueMeansCopied FilesClosed FailsForCause
PROPERTIES ReturnsOrHangs
CHECK_DEADLOCK FALSE
