---------------------------- MODULE MCEdgetpuIkv ----------------------------
\* Instances of EdgetpuIkv for TLC: a command without and one with a fence.
EXTENDS EdgetpuIkv

CONSTANTS d1, f1
=============================================================================
