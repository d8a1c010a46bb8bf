---------------------------- MODULE MCReliability ----------------------------
(* Instances of Reliability for TLC; the constants are in the .cfg files.  *)
EXTENDS Reliability
=============================================================================
