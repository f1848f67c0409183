CONSTANTS
  Owners = {o}
  Commanders = {}
  Cancellable <- Nowhere
  CHUNKS = 2
  READS = 2
  MaxClients = 1
SPECIFICATION LinkSpec
INVARIANT ConnectStartsNotify
