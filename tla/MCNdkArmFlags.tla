----------------------------- MODULE MCNdkArmFlags ------------------------------
(* The cpuinfo files of MCArmInfo, seen through the NDK interface. *)
EXTENDS MCArmInfo, NdkArmFlags
===============================================================================
