-------------------------- MODULE MCVulkanTextures --------------------------
(* Instances of VulkanTextures for TLC: resources, images and textures are  *)
(* interchangeable.                                                         *)
EXTENDS VulkanTextures, TLC

DataSymmetry == Permutations(Resources) \cup Permutations(Images)
                  \cup Permutations(Textures)
=============================================================================
