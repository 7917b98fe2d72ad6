----------------------------- MODULE MCPsockWork -----------------------------
(* The instance of PsockWork: the constants are given in the configuration.   *)
EXTENDS PsockWork
==============================================================================
