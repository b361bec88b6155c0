---------------------------- MODULE MCScreenshots ----------------------------
(* Instances of Screenshots for TLC.                                      *)
EXTENDS Screenshots
=============================================================================
