------------------------------ MODULE MCVolume ------------------------------
(* Instances of VolumeService for TLC.                                      *)
EXTENDS VolumeService, TLC

(* Puts of one key, of two, overwrites that grow and shrink, and an         *)
(* overwrite and a new key that can never fit.                              *)
MixedWrites == [c \in Calls |->
  CASE c = 1 -> "a" :> 2
    [] c = 2 -> "b" :> 1
    [] c = 3 -> "c" :> 1 @@ "a" :> 3
    [] c = 4 -> "b" :> 2
    [] c = 6 -> "a" :> 5
    [] OTHER -> "d" :> 5]

(* Four puts of one key each, two of which fill the volume.                *)
CrowdedWrites == [c \in Calls |->
  CASE c = 1 -> "a" :> 2 [] c = 2 -> "b" :> 2 [] c = 3 -> "c" :> 2 [] OTHER -> "d" :> 2]
=============================================================================
