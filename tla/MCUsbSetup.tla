-------------------------------- MODULE MCUsbSetup --------------------------------
(* UsbSetup for TLC: the keys are interchangeable.                          *)
EXTENDS UsbSetup, TLC

MCSymmetry == Permutations(Keys)

=============================================================================
