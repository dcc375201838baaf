----------------------------- MODULE MCSettings -----------------------------
EXTENDS Settings, TLC

CONSTANTS hci0, hci1, d1, d2, tty0, tty1, b9600, b19200, b38400

MCBaudRates == <<b9600, b19200, b38400>>

Symmetry == Permutations(Controllers) \cup Permutations(Devices)
            \cup Permutations(SerialDevices)
=============================================================================
