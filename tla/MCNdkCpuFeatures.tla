--------------------------- MODULE MCNdkCpuFeatures ----------------------------
(* A processor with two feature flags whose CPU count cannot be read, and *)
(* two different settings to force.                                        *)
EXTENDS NdkCpuFeatures

CONSTANTS t1, t2, t3, neon, aes

MCFlags == {neon, aes}

MCSetArgs == {[count |-> 0, features |-> {},     id |-> 7],
              [count |-> 2, features |-> {aes}, id |-> 8]}

===============================================================================
