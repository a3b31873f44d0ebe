----------------------------- MODULE NdkCpuFeatures -----------------------------
(***************************************************************************)
(* The process-wide state of src/ndk_compat/cpu-features.c, the one part   *)
(* of the repository that threads share: four globals, of which            *)
(* pthread_once protects some accesses and not others.  Every access to a  *)
(* global is a step of its own, so that the calls of several threads       *)
(* interleave between any two of them.                                     *)
(***************************************************************************)
EXTENDS Integers, FiniteSets

CONSTANTS
  Thread,         \* The threads that call the library.
  DetectedCount,  \* What get_cpu_count() finds; 0 when /sys cannot be read.
  DetectedFlags,  \* The ANDROID_CPU_*_FEATURE_* flags of this processor.
  DetectedId,     \* What GetArmCpuId finds.
  SetArgs,        \* The arguments client code passes to android_setCpu(Arm).
  Serialised      \* Do clients keep android_setCpu(Arm) apart from other calls?

ASSUME NdkAssumption ==
  /\ DetectedCount \in Nat /\ DetectedId \in Nat
  /\ \A a \in SetArgs :
       /\ a = [count |-> a.count, features |-> a.features, id |-> a.id]
       /\ a.count \in Int /\ a.id \in Nat
  /\ Serialised \in BOOLEAN

VARIABLES
  g_once,         \* "new", "running" or "done"
  g_inited, g_cpuFeatures, g_cpuCount, g_cpuIdArm,
  pc, call,       \* Per thread: where it is, and the API function it is in.
  todo,           \* The flags the running android_cpuInit has still to set.
  seen,           \* The features it has read, to set another flag in them.
  ret,            \* Per thread: what its last call returned, until the next.
  forced          \* The arguments of the android_setCpu calls that returned 1.

globals == <<g_inited, g_cpuFeatures, g_cpuCount, g_cpuIdArm>>
routine == <<todo, seen>>
history == <<ret, forced>>
vars == <<g_once, globals, pc, call, routine, history>>

GetOps == {"getCpuFeatures", "getCpuCount", "getCpuIdArm"}
SetOps == {"setCpu", "setCpuArm"}
Nothing == [op |-> "none"]

Goto(t, from, to) == pc[t] = from /\ pc' = [pc EXCEPT ![t] = to]

Return(t, from, value) ==
  /\ Goto(t, from, "idle")
  /\ ret' = [ret EXCEPT ![t] = [op |-> call[t].op, value |-> value]]
  /\ call' = [call EXCEPT ![t] = Nothing]

Setting(t) == call[t].op \in SetOps

Init ==
  /\ g_once = "new"
  /\ g_inited = 0 /\ g_cpuFeatures = {} /\ g_cpuCount = 0 /\ g_cpuIdArm = 0
  /\ pc = [t \in Thread |-> "idle"]
  /\ call = [t \in Thread |-> Nothing]
  /\ todo = {} /\ seen = {}
  /\ ret = [t \in Thread |-> Nothing]
  /\ forced = {}

-------------------------------------------------------------------------------
(***************************************************************************)
(* Clients.  cpu-features.h:296-297 wants android_setCpu called once and   *)
(* before any getter, "any other case will fail".  Serialised clients may  *)
(* call it late and more than once, but not while another call is running. *)
(***************************************************************************)

CallGet(t, op) ==
  /\ Serialised => \A u \in Thread : ~Setting(u)
  /\ Goto(t, "idle", "once")
  /\ call' = [call EXCEPT ![t] = [op |-> op]]
  /\ ret' = [ret EXCEPT ![t] = Nothing]
  /\ UNCHANGED <<g_once, globals, routine, forced>>

CallSet(t, op, arg) ==
  /\ Serialised => \A u \in Thread : pc[u] = "idle"
  /\ Goto(t, "idle", "check")
  /\ call' = [call EXCEPT ![t] = [op |-> op, arg |-> arg]]
  /\ ret' = [ret EXCEPT ![t] = Nothing]
  /\ UNCHANGED <<g_once, globals, routine, forced>>

-------------------------------------------------------------------------------
(* pthread_once(&g_once, routine): the first caller runs its routine, the  *)
(* others wait until it is done.                                           *)

\* Where a thread goes on after pthread_once.
AfterOnce(t) == IF Setting(t) THEN "published" ELSE "read"

\* Mutant: android_setCpu hands android_cpuInit to pthread_once.
OnceRunInit(t) ==
  /\ g_once = "new"
  /\ g_once' = "running"
  /\ Goto(t, "once", "init")
  /\ UNCHANGED <<globals, call, routine, history>>

OnceRun(t) ==
  /\ g_once = "new"
  /\ g_once' = "running"
  /\ Goto(t, "once", IF Setting(t) THEN "dummy" ELSE "init")
  /\ UNCHANGED <<globals, call, routine, history>>

\* Mutant: a thread that finds the routine running does not wait for it.
OnceSkipNoWait(t) ==
  /\ g_once # "new"
  /\ Goto(t, "once", AfterOnce(t))
  /\ UNCHANGED <<g_once, globals, call, routine, history>>

OnceSkip(t) ==
  /\ g_once = "done"
  /\ Goto(t, "once", AfterOnce(t))
  /\ UNCHANGED <<g_once, globals, call, routine, history>>

\* Mutant: the waiting threads are not told that the routine is over.
OnceDoneForgotten(t) ==
  /\ Goto(t, "init_done", AfterOnce(t))
  /\ UNCHANGED <<g_once, globals, call, routine, history>>

OnceDone(t) ==
  /\ g_once' = "done"
  /\ Goto(t, "init_done", AfterOnce(t))
  /\ UNCHANGED <<globals, call, routine, history>>

-------------------------------------------------------------------------------
(* android_cpuInit and android_cpuInitDummy, access by access.             *)

InitFeatures(t) ==
  /\ Goto(t, "init", "init_count1")
  /\ g_cpuFeatures' = {}
  /\ UNCHANGED <<g_once, g_inited, g_cpuCount, g_cpuIdArm, call, routine, history>>

InitCountOne(t) ==
  /\ Goto(t, "init_count1", "init_inited")
  /\ g_cpuCount' = 1
  /\ UNCHANGED <<g_once, g_inited, g_cpuFeatures, g_cpuIdArm, call, routine, history>>

\* Mutant: the state is published together with g_inited.
InitInitedPublished(t) ==
  /\ Goto(t, "init_inited", "init_count")
  /\ g_inited' = 1
  /\ g_once' = "done"
  /\ UNCHANGED <<g_cpuFeatures, g_cpuCount, g_cpuIdArm, call, routine, history>>

InitInited(t) ==
  /\ Goto(t, "init_inited", "init_count")
  /\ g_inited' = 1
  /\ UNCHANGED <<g_once, g_cpuFeatures, g_cpuCount, g_cpuIdArm, call, routine, history>>

InitCount(t) ==
  /\ Goto(t, "init_count", "init_count0")
  /\ g_cpuCount' = DetectedCount
  /\ UNCHANGED <<g_once, g_inited, g_cpuFeatures, g_cpuIdArm, call, routine, history>>

\* Mutant: the count of a machine whose /sys cannot be read stays 0.
InitCountZeroKept(t) ==
  /\ Goto(t, "init_count0", "init_flags")
  /\ todo' = DetectedFlags
  /\ UNCHANGED <<g_once, globals, call, seen, history>>

\* The test of the count, and the store where it is 0.
InitCountTest(t) ==
  /\ Goto(t, "init_count0", IF g_cpuCount = 0 THEN "init_repair" ELSE "init_flags")
  /\ todo' = DetectedFlags
  /\ UNCHANGED <<g_once, globals, call, seen, history>>

InitCountRepair(t) ==
  /\ Goto(t, "init_repair", "init_flags")
  /\ g_cpuCount' = 1
  /\ UNCHANGED <<g_once, g_inited, g_cpuFeatures, g_cpuIdArm, call, routine, history>>

\* One "g_cpuFeatures |= ...": the read, and the write of what was seen with one
\* flag more.  The flags come in any order, as no property depends on it.
InitFlagRead(t) ==
  /\ todo # {}
  /\ Goto(t, "init_flags", "init_or")
  /\ seen' = g_cpuFeatures
  /\ UNCHANGED <<g_once, globals, call, todo, history>>

InitFlagWrite(t) ==
  /\ Goto(t, "init_or", "init_flags")
  /\ \E f \in todo :
       /\ g_cpuFeatures' = seen \cup {f}
       /\ todo' = todo \ {f}
  /\ UNCHANGED <<g_once, g_inited, g_cpuCount, g_cpuIdArm, call, seen, history>>

InitId(t) ==
  /\ todo = {}
  /\ Goto(t, "init_flags", "init_done")
  /\ g_cpuIdArm' = DetectedId
  /\ UNCHANGED <<g_once, g_inited, g_cpuFeatures, g_cpuCount, call, routine, history>>

CpuInitDummy(t) ==
  /\ Goto(t, "dummy", "init_done")
  /\ g_inited' = 1
  /\ UNCHANGED <<g_once, g_cpuFeatures, g_cpuCount, g_cpuIdArm, call, routine, history>>

CpuInit(t) ==
  \/ InitFeatures(t) \/ InitCountOne(t) \/ InitInited(t) \/ InitCount(t)
  \/ InitCountTest(t) \/ InitCountRepair(t)
  \/ InitFlagRead(t) \/ InitFlagWrite(t) \/ InitId(t)

-------------------------------------------------------------------------------
\* The getters: read one global after pthread_once.
Read(t) ==
  /\ pc[t] = "read"
  /\ Return(t, "read", CASE call[t].op = "getCpuFeatures" -> g_cpuFeatures
                         [] call[t].op = "getCpuCount"    -> g_cpuCount
                         [] call[t].op = "getCpuIdArm"    -> g_cpuIdArm)
  /\ UNCHANGED <<g_once, globals, routine, forced>>

(* android_setCpu: the check of g_inited and the writes come before        *)
(* pthread_once.                                                           *)

\* Mutant: the check is dropped.
SetCheckNothing(t) ==
  /\ Goto(t, "check", "set_count")
  /\ UNCHANGED <<g_once, globals, call, routine, history>>

SetCheck(t) ==
  /\ IF g_inited = 1
     THEN Return(t, "check", 0)
     ELSE Goto(t, "check", "set_count") /\ UNCHANGED <<call, ret>>
  /\ UNCHANGED <<g_once, globals, routine, forced>>

SetCount(t) ==
  /\ Goto(t, "set_count", "set_features")
  /\ g_cpuCount' = IF call[t].arg.count <= 0 THEN 1 ELSE call[t].arg.count
  /\ UNCHANGED <<g_once, g_inited, g_cpuFeatures, g_cpuIdArm, call, routine, history>>

SetFeatures(t) ==
  /\ Goto(t, "set_features", "once")
  /\ g_cpuFeatures' = call[t].arg.features
  /\ UNCHANGED <<g_once, g_inited, g_cpuCount, g_cpuIdArm, call, routine, history>>

\* android_setCpu returns 1; android_setCpuArm then stores the id.
SetReturn(t) ==
  /\ Return(t, "published", 1)
  /\ forced' = forced \cup {[call[t].arg EXCEPT !.id =
                               IF call[t].op = "setCpuArm" THEN @ ELSE 0]}
  /\ IF call[t].op = "setCpuArm"
     THEN g_cpuIdArm' = call[t].arg.id
     ELSE UNCHANGED g_cpuIdArm
  /\ UNCHANGED <<g_once, g_inited, g_cpuFeatures, g_cpuCount, routine>>

-------------------------------------------------------------------------------
Library(t) ==
  \/ OnceRun(t) \/ OnceSkip(t) \/ OnceDone(t)
  \/ CpuInit(t) \/ CpuInitDummy(t)
  \/ Read(t)
  \/ SetCheck(t) \/ SetCount(t) \/ SetFeatures(t) \/ SetReturn(t)

Client(t) ==
  \/ \E op \in GetOps : CallGet(t, op)
  \/ \E op \in SetOps, arg \in SetArgs : CallSet(t, op, arg)

Next == \E t \in Thread : Library(t) \/ Client(t)

Spec == Init /\ [][Next]_vars

\* Threads are scheduled; nobody has to call the library.
FairSpec == Spec /\ \A t \in Thread : WF_vars(Library(t))

-------------------------------------------------------------------------------
PCs == {"idle", "once", "init", "init_count1", "init_inited", "init_count",
        "init_count0", "init_repair", "init_flags", "init_or", "init_done",
        "dummy", "read", "check", "set_count", "set_features", "published"}

\* t runs the routine that it gave to pthread_once.
InOnce(t) == pc[t] \in {"init", "init_count1", "init_inited", "init_count",
                        "init_count0", "init_repair", "init_flags", "init_or",
                        "init_done", "dummy"}

Calls == {Nothing} \cup [op : GetOps] \cup [op : SetOps, arg : SetArgs]

\* The function a thread is in and its place in it belong together.
AtCall(t) ==
  /\ pc[t] = "idle" <=> call[t].op = "none"
  /\ pc[t] \in {"check", "set_count", "set_features", "dummy", "published"}
       => Setting(t)
  /\ pc[t] = "read" => ~Setting(t)

TypeOK ==
  /\ g_once \in {"new", "running", "done"}
  /\ g_inited \in {0, 1}
  /\ g_cpuCount \in Nat /\ g_cpuIdArm \in Nat
  /\ pc \in [Thread -> PCs]
  /\ call \in [Thread -> Calls]
  /\ \A t \in Thread : AtCall(t)
  /\ todo \subseteq DetectedFlags

\* The configuration that clients are to see.
Detected == [count |-> IF DetectedCount = 0 THEN 1 ELSE DetectedCount,
             features |-> DetectedFlags, id |-> DetectedId]
Expected == IF forced = {} THEN Detected ELSE CHOOSE a \in forced : TRUE
ExpectedCount == IF Expected.count <= 0 THEN 1 ELSE Expected.count

\* Whatever threads call the getters, and when, none ever returns a half
\* initialised value: all return what was forced, if anything was, and what
\* was detected otherwise (cpu-features.c:95-155, 175-183, 198-201).
GettersAgree ==
  \A t \in Thread :
    /\ ret[t].op = "getCpuFeatures" => ret[t].value = Expected.features
    /\ ret[t].op = "getCpuCount"    => ret[t].value = ExpectedCount
    /\ ret[t].op = "getCpuIdArm"    => ret[t].value = Expected.id

\* Once pthread_once is done no call changes the features or the count, a late
\* android_setCpu included.  (The id of android_setCpuArm is stored later.)
SettledForGood ==
  [][g_once = "done" => UNCHANGED <<g_cpuFeatures, g_cpuCount>>]_vars

\* android_cpuInit and android_cpuInitDummy together run at most once, in one
\* thread, and any thread past pthread_once finds the routine over.
OnceExclusive ==
  /\ \A t, u \in Thread : InOnce(t) /\ InOnce(u) => t = u
  /\ g_once = "running" <=> \E t \in Thread : InOnce(t)
  /\ \A t \in Thread : pc[t] \in {"read", "published"} => g_once = "done"

\* No settled state says that there are no CPUs, whatever /sys or the caller
\* says, in any interleaving (cpu-features.c:101-103, 190).
CountPositive == g_once = "done" => g_cpuCount >= 1

\* cpu-features.h:296-297: "It _must_ be called only once, and before any
\* android_getCpuXXX function, any other case will fail."  A second call that
\* succeeds leaves a mixture of the arguments of the two.
OnlyOneSetSucceeds == Cardinality(forced) <= 1

\* The same comment: once a getter has been called, android_setCpu fails.
\* Here: a setter that succeeds finds its values in place, not a detected one
\* that a getter was computing meanwhile.
SetSticks ==
  \A t \in Thread :
    (ret[t].op \in SetOps /\ ret[t].value = 1
       /\ \A u \in Thread : ~Setting(u)) =>
      \E a \in forced : g_cpuFeatures = a.features

\* Every call returns: nobody waits in pthread_once for good.
CallsReturn == \A t \in Thread : pc[t] # "idle" ~> pc[t] = "idle"
===============================================================================
