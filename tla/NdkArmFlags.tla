------------------------------ MODULE NdkArmFlags -------------------------------
(***************************************************************************)
(* The ANDROID_CPU_ARM_FEATURE_* flags that android_cpuInit derives from   *)
(* ArmInfo (src/ndk_compat/cpu-features.c:104-128), without their prefix.  *)
(***************************************************************************)
EXTENDS ArmInfo

\* The flags that each feature of ArmInfo stands for.
AndroidFlagsOf(f) ==
  CASE f = "vfpv3"    -> {"VFPv3"}
    [] f = "neon"     -> {"NEON", "VFP_D32"}
    [] f = "vfpv3d16" -> {"VFP_FP16"}
    [] f = "idiva"    -> {"IDIV_ARM"}
    [] f = "idivt"    -> {"IDIV_THUMB2"}
    [] f = "iwmmxt"   -> {"iWMMXt"}
    [] f = "aes"      -> {"AES"}
    [] f = "pmull"    -> {"PMULL"}
    [] f = "sha1"     -> {"SHA1"}
    [] f = "sha2"     -> {"SHA2"}
    [] f = "crc32"    -> {"CRC32"}
    [] f = "vfp"      -> {"VFPv2"}
    [] f = "vfpv4"    -> {"VFP_FMA", "NEON_FMA"}
    [] OTHER          -> {}

\* What g_cpuFeatures holds after android_cpuInit.
g_cpuFeatures ==
  LET arch == number["CPU architecture"]
  IN  (UNION {AndroidFlagsOf(f) : f \in features})
        \cup {f \in {"ARMv7"} : arch >= 7}
        \cup {f \in {"LDREX_STREX"} : arch >= 6}

\* cpu-features.h:70-71, 86-91: VFPv2 is set whenever VFPv3 is, NEON mandates
\* VFP_D32 and, as the -mfpu=neon note has it, VFPv3; whatever the kernel
\* reported and GetArmInfo corrected.
NeonAndVfpImplications ==
  Done =>
    /\ "VFPv3" \in g_cpuFeatures => "VFPv2" \in g_cpuFeatures
    /\ "NEON" \in g_cpuFeatures => {"VFP_D32", "VFPv3"} \subseteq g_cpuFeatures

\* An ARMv6 whose kernel says 7 is not sold to the application as an ARMv7
\* (impl_arm_linux_or_android.c:131-135), and has LDREX all the same.
Armv6IsNotArmv7 ==
  (Done /\ proc_info.armv6) =>
    /\ "ARMv7" \notin g_cpuFeatures
    /\ number["CPU architecture"] > 5 => "LDREX_STREX" \in g_cpuFeatures
===============================================================================
