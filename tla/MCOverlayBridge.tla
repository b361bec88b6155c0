-------------------------- MODULE MCOverlayBridge --------------------------
(* Instances of OverlayBridge for TLC: which API the game presents with.    *)
EXTENDS OverlayBridge

AllOpenGL == [g \in GameThreads |-> "glx"]
AllVulkan == [g \in GameThreads |-> "vk"]
BothUsable == {"glx", "vk"}
=============================================================================
