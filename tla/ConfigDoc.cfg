CONSTANTS
  k1 = k1
  cn = cn
  KeyIDs = {k1}
  EnvKeys = {k1}
  Settings <- TwoSettings
  EnvSettings <- Env
  Requests = {r1}
  NoKey = NoKey
  NoFile = NoFile
  Idle = Idle
  Unread = Unread
SPECIFICATION Spec
PROPERTIES
  FileIsSourceOfTruth
