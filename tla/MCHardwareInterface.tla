------------------------ MODULE MCHardwareInterface -------------------------
EXTENDS HardwareInterface
=============================================================================
