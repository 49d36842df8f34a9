---------------------------- MODULE MCConnectivity ----------------------------
EXTENDS Connectivity

\* Every system on a small parallelogram of the lattice.
MCSystems == SUBSET ((0..2) \X (0..1)) \ {{}}
=============================================================================
