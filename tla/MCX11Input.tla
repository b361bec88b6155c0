----------------------------- MODULE MCX11Input -----------------------------
(* Instances of X11Input for TLC.                                           *)
EXTENDS X11Input
=============================================================================
