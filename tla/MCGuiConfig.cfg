SPECIFICATION GuiSpec
CONSTANTS
  Builds = {"local"}
  Logins = {}
  Users = {"anonymous", "ann"}
  Anonymous = "anonymous"
  Passwords = {"pa", "*"}
  Star = "*"
  Unknown = Unknown
  Nobody = Nobody
  Files <- MCFiles
  Broken = Broken
  MaxEdits = 0
  MaxLoads = 1
  Typed = {"pa"}
  MaxUsers = 2
INVARIANTS GuiTypeOK WindowMatchesFile
PROPERTIES DeletesWhatWasConfirmed KeepsAccounts
