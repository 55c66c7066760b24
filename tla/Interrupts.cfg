\* Two disks, a printer and a terminal; a disk and the receiver may fail
SPECIFICATION Spec
CONSTANTS
  Installed <- InstalledMC
  MayFail <- MayFailMC
INVARIANTS
  TypeOK
  DeviceNumbersDistinct
  ServesEndedOperation
PROPERTIES
  EveryInterruptServed
