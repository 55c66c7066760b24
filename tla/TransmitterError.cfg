\* The transmitter may end with an error status
SPECIFICATION Spec
CONSTANTS
  Installed <- InstalledMC
  MayFail <- TransmitterFails
INVARIANTS
  ServesEndedOperation
