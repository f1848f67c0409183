CONSTANTS
  Owners = {o}
  Commanders = {c}
  Cancellable <- OutsideTeardown
  CHUNKS = 2
  READS = 2
  MaxClients = 3
SPECIFICATION LinkSpec
INVARIANTS
  OnlyTheClientInUseIsOpen
  OneNotifySession
PROPERTIES
  FrameStaysOnItsLink
  EstablishedMeansSubscribed
