-------------------------- MODULE MCEdgetpuFirmware --------------------------
\* Instances of EdgetpuFirmware for TLC.
EXTENDS EdgetpuFirmware

CONSTANTS c1, c2
=============================================================================
