SPECIFICATION Spec
CONSTANTS
  Base = 10
  KindByte <- MCKindByte
  MinStatus = 10
  MaxStatus = 59
  ValidText <- MCValidText
  SecretSize = 2
  DefaultListen <- MCDefaultListen
  DefaultQueueTimeout = 10
  DefaultPriority = 50
  MaxPort = 9
  OsHostname <- MCOsHostname
  Files <- MCFiles
  FileNames <- MCFileNames
  Written <- MCWritten
  Contended <- MCContended
  SignalBuffer = 2
  MaxSignals = 3
  MaxEdits = 1
INVARIANTS
  AllThereOrNotAtAll
  AcceptedCanAnnounce
  ReloadKeepsAConf
PROPERTY
  ReloadIsObeyed
