SPECIFICATION Spec
CONSTANTS
  Sessions = {s1, s2}
  Versions = {v1, v2}
  NoFile = NoFile
  NotLoaded = NotLoaded
  MaxChanges = 1
  Names = {n}
  Accesses <- MCAccesses
  MaxOpens = 2
  MaxChunks = 2
CHECK_DEADLOCK FALSE
INVARIANTS TypeOK OneWholeCertificate MailsAreUploads RepliesAreTrue
