SPECIFICATION Spec
CONSTANTS
  Builds = {"full", "local"}
  Logins = {l1}
  Users <- MCUsers
  Anonymous = "anonymous"
  Passwords <- MCPasswords
  Star = "*"
  Unknown = Unknown
  Nobody = Nobody
  Files <- MCFiles
  Broken = Broken
  MaxEdits = 2
  MaxLoads = 2
CHECK_DEADLOCK FALSE
INVARIANTS TypeOK HashingKeepsPasswords VerdictIsRight NothingPlainLeft
