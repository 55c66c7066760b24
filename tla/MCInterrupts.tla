---------------------------- MODULE MCInterrupts ---------------------------
(* Instances of Interrupts: devices on several lines, two on one line, and *)
(* a terminal with its two halves.                                         *)
EXTENDS Interrupts
InstalledMC ==
  {<<DISK_INTLINE, 0>>, <<DISK_INTLINE, 7>>, <<PRINTER_INTLINE, 0>>, <<TERM_INTLINE, 0>>}
MayFailMC == {DEVADDR(DISK_INTLINE, 7), Receiver(0)}
TwoTerminals == {<<TERM_INTLINE, 0>>, <<TERM_INTLINE, 1>>}
NoFailure == {}
TransmitterFails == {Transmitter(0)}
=============================================================================
