SPECIFICATION Spec
CONSTANTS
  NonceReserved = 3
  MaxPlaintext = 25
  Base = 10
  KindByte <- MCKindByte
  MinStatus = 10
  MaxStatus = 59
  ValidText <- MCValidText
  HopByHop <- MCHopByHop
  Connection <- MCConnection
  ContentLength <- MCContentLength
  Canonical <- MCCanonical
  TokensOf <- MCTokensOf
  Itoa <- MCItoa
  Peerings <- MCPeerings
  Says <- MCSays
  Strays <- MCStrays
  MaxSaid <- MCMaxSaid
  MaxFaults = 1
INVARIANTS
  KeysAgree
  DeliveredAsSaid
  RefusedOnlyIfHarmed
  TakenAsEncoded
  NonceNeverReused
  HeadersTravel
