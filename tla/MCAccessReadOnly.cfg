SPECIFICATION Spec
CONSTANTS
  Sessions = {s1, s2}
  MaxReloads = 1
  Contents <- MCContents
  Users <- MCUsers
  Bases <- MCBases
  Passwords <- MCPasswords
  Undecodable = Undecodable
  Nobody = Nobody
  WebAnswers <- MCWebAnswers
  Realm <- MCRealm
  NoFs = NoFs
  NoOne = NoOne
CHECK_DEADLOCK FALSE
INVARIANT ReadOnlyBlocksWrites
