-------------------------- MODULE MCDirectXDevice --------------------------
(* Instances of DirectXDevice for TLC.                                      *)
EXTENDS DirectXDevice
=============================================================================
