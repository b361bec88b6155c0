-------------------------- MODULE MCImageResources --------------------------
(* Instances of ImageResources for TLC: resources, images and textures are  *)
(* interchangeable.                                                         *)
EXTENDS ImageResources, TLC

DataSymmetry == Permutations(Resources) \cup Permutations(Images)
                  \cup Permutations(Textures)
=============================================================================
