SPECIFICATION FairSpec
CONSTANTS
  Sessions = {s1, s2}
  MaxReloads = 2
  Contents <- MCContents
  Users <- MCUsers
  Bases <- MCBases
  Passwords <- MCPasswords
  Undecodable = Undecodable
  Nobody = Nobody
  WebAnswers <- MCWebAnswers
  Realm <- MCRealm
  NoFs = NoFs
  NoOne = NoOne
CHECK_DEADLOCK FALSE
INVARIANTS TypeOK SharedLoadedOnce ServedOwnAccess
PROPERTIES LoginsEnd KeepsRegistry
