--------------------------- MODULE MC_BinaryLogger --------------------------
(* Instances of BinaryLogger for TLC.                                      *)
EXTENDS BinaryLogger

\* the owner calls both entry points
MCAllLogOps == {"log", "log_batch"}
MCLogOnly == {"log"}
=============================================================================
