\* A second terminal
SPECIFICATION Spec
CONSTANTS
  Installed <- TwoTerminals
  MayFail <- NoFailure
INVARIANTS
  InstalledDeviceUsable
