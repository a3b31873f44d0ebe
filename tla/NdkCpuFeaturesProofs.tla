------------------------- MODULE NdkCpuFeaturesProofs --------------------------
(***************************************************************************)
(* Proofs about NdkCpuFeatures, for any number of threads, any processor,  *)
(* and clients that keep to the documented use or do not.                  *)
(***************************************************************************)
EXTENDS NdkCpuFeatures, TLAPS, FiniteSetTheorems

\* What a thread may write to a global of Nat is one.
LEMMA SetArgsTyped ==
  \A a \in SetArgs : a.count \in Int /\ a.id \in Nat
  BY NdkAssumption DEF NdkAssumption

\* A thread inside a setter carries arguments of SetArgs.
LEMMA SettingHasArgs ==
  ASSUME TypeOK, NEW t \in Thread, Setting(t)
  PROVE  call[t].arg \in SetArgs
  BY DEF TypeOK, Calls, Nothing, Setting, GetOps, SetOps

-------------------------------------------------------------------------------
\* TypeOK is inductive by itself.
LEMMA InitTypeOK == Init => TypeOK
  <1> SUFFICES ASSUME Init PROVE TypeOK
    OBVIOUS
  <1>1. call \in [Thread -> Calls]
    BY DEF Init, Calls
  <1>2. ASSUME NEW t \in Thread PROVE AtCall(t)
    <2>1. pc[t] = "idle" /\ call[t].op = "none"
      BY DEF Init, Nothing
    <2> QED BY <2>1 DEF AtCall
  <1>3. pc \in [Thread -> PCs]
    BY DEF Init, PCs
  <1> QED BY <1>1, <1>2, <1>3 DEF Init, TypeOK

\* No step of a client or of the library leaves the types.
LEMMA StepTypeOK == TypeOK /\ [Next]_vars => TypeOK'
  <1> SUFFICES ASSUME TypeOK, [Next]_vars PROVE TypeOK'
    OBVIOUS
  <1> USE DEF TypeOK, Goto, Return, globals, routine, history, PCs, AtCall, Setting
  <1>1. CASE UNCHANGED vars
    BY <1>1 DEF vars
  <1>2. ASSUME NEW t \in Thread, NEW op \in GetOps, CallGet(t, op)
        PROVE  TypeOK'
    <2>1. [op |-> op] \in Calls
      BY DEF Calls
    <2> QED BY <1>2, <2>1 DEF CallGet, GetOps, SetOps
  <1>3. ASSUME NEW t \in Thread, NEW op \in SetOps, NEW arg \in SetArgs,
               CallSet(t, op, arg)
        PROVE  TypeOK'
    <2>1. [op |-> op, arg |-> arg] \in Calls
      BY DEF Calls
    <2> QED BY <1>3, <2>1 DEF CallSet, SetOps
  <1>4. ASSUME NEW t \in Thread, OnceRun(t) PROVE TypeOK'
    BY <1>4 DEF OnceRun
  <1>5. ASSUME NEW t \in Thread, OnceSkip(t) PROVE TypeOK'
    BY <1>5 DEF OnceSkip, AfterOnce
  <1>6. ASSUME NEW t \in Thread, OnceDone(t) PROVE TypeOK'
    BY <1>6 DEF OnceDone, AfterOnce
  <1>7. ASSUME NEW t \in Thread, CpuInit(t) PROVE TypeOK'
    <2> USE NdkAssumption DEF NdkAssumption
    <2>1. CASE InitFeatures(t)   BY <2>1 DEF InitFeatures
    <2>2. CASE InitCountOne(t)   BY <2>2 DEF InitCountOne
    <2>3. CASE InitInited(t)     BY <2>3 DEF InitInited
    <2>4. CASE InitCount(t)      BY <2>4 DEF InitCount
    <2>5. CASE InitCountTest(t)    BY <2>5 DEF InitCountTest
    <2>6. CASE InitCountRepair(t)  BY <2>6 DEF InitCountRepair
    <2>7. CASE InitFlagRead(t)     BY <2>7 DEF InitFlagRead
    <2>8. CASE InitFlagWrite(t)    BY <2>8 DEF InitFlagWrite
    <2>9. CASE InitId(t)           BY <2>9 DEF InitId
    <2> QED BY <1>7, <2>1, <2>2, <2>3, <2>4, <2>5, <2>6, <2>7, <2>8, <2>9 DEF CpuInit
  <1>8. ASSUME NEW t \in Thread, CpuInitDummy(t) PROVE TypeOK'
    BY <1>8 DEF CpuInitDummy
  <1>9. ASSUME NEW t \in Thread, Read(t) PROVE TypeOK'
    BY <1>9 DEF Read, Calls, Nothing, SetOps
  <1>10. ASSUME NEW t \in Thread, SetCheck(t) PROVE TypeOK'
    BY <1>10 DEF SetCheck, Calls, Nothing, SetOps
  <1>11. ASSUME NEW t \in Thread, SetCount(t) PROVE TypeOK'
    BY <1>11, SettingHasArgs, SetArgsTyped DEF SetCount
  <1>12. ASSUME NEW t \in Thread, SetFeatures(t) PROVE TypeOK'
    BY <1>12 DEF SetFeatures
  <1>13. ASSUME NEW t \in Thread, SetReturn(t) PROVE TypeOK'
    BY <1>13, SettingHasArgs, SetArgsTyped DEF SetReturn, Calls, Nothing, SetOps
  <1> QED
    BY <1>1, <1>2, <1>3, <1>4, <1>5, <1>6, <1>7, <1>8, <1>9, <1>10, <1>11,
       <1>12, <1>13 DEF Next, Library, Client

\* Where a thread is and what it called always fit, for any number of threads.
THEOREM TypeCorrect == Spec => []TypeOK
  BY InitTypeOK, StepTypeOK, PTL DEF Spec

-------------------------------------------------------------------------------
\* Nobody is in pthread_once to start with.
LEMMA InitOnceExclusive == Init => OnceExclusive
  BY DEF Init, OnceExclusive, InOnce

\* Only OnceRun enters a routine, and only while none has run.
LEMMA StepOnceExclusive ==
  TypeOK /\ OnceExclusive /\ [Next]_vars => OnceExclusive'
  <1> SUFFICES ASSUME TypeOK, OnceExclusive, [Next]_vars
               PROVE  OnceExclusive'
    OBVIOUS
  <1>0. pc \in [Thread -> PCs]
    BY DEF TypeOK
  \* Only the routine of pthread_once is told apart from the rest.
  <1>1. ASSUME NEW t \in Thread, NEW from, NEW to, Goto(t, from, to),
               InOnce(t) => to \in {"init", "init_count1", "init_inited",
                 "init_count", "init_count0", "init_repair", "init_flags", "init_or",
                 "init_done", "dummy"},
               ~InOnce(t) => to \notin {"init", "init_count1", "init_inited",
                 "init_count", "init_count0", "init_repair", "init_flags", "init_or",
                 "init_done", "dummy"},
               to \in {"read", "published"} => g_once = "done",
               g_once' = g_once
        PROVE  OnceExclusive'
    BY <1>0, <1>1 DEF OnceExclusive, InOnce, Goto
  <1>2. CASE UNCHANGED vars
    BY <1>2 DEF vars, OnceExclusive, InOnce
  <1>3. ASSUME NEW t \in Thread, NEW op \in GetOps, CallGet(t, op)
        PROVE  OnceExclusive'
    BY <1>1, <1>3 DEF CallGet, InOnce, Goto
  <1>4. ASSUME NEW t \in Thread, NEW op \in SetOps, NEW arg \in SetArgs,
               CallSet(t, op, arg)
        PROVE  OnceExclusive'
    BY <1>1, <1>4 DEF CallSet, InOnce, Goto
  <1>5. ASSUME NEW t \in Thread, OnceRun(t) PROVE OnceExclusive'
    BY <1>0, <1>5 DEF OnceRun, OnceExclusive, InOnce, Goto
  <1>6. ASSUME NEW t \in Thread, OnceSkip(t) PROVE OnceExclusive'
    BY <1>1, <1>6 DEF OnceSkip, AfterOnce, InOnce, Goto
  <1>7. ASSUME NEW t \in Thread, OnceDone(t) PROVE OnceExclusive'
    BY <1>0, <1>7 DEF OnceDone, AfterOnce, OnceExclusive, InOnce, Goto
  <1>8. ASSUME NEW t \in Thread, CpuInit(t) PROVE OnceExclusive'
    <2> USE <1>1 DEF InOnce, Goto
    <2>1. CASE InitFeatures(t)   BY <2>1 DEF InitFeatures
    <2>2. CASE InitCountOne(t)   BY <2>2 DEF InitCountOne
    <2>3. CASE InitInited(t)     BY <2>3 DEF InitInited
    <2>4. CASE InitCount(t)      BY <2>4 DEF InitCount
    <2>5. CASE InitCountTest(t)    BY <2>5 DEF InitCountTest
    <2>6. CASE InitCountRepair(t)  BY <2>6 DEF InitCountRepair
    <2>7. CASE InitFlagRead(t)     BY <2>7 DEF InitFlagRead
    <2>8. CASE InitFlagWrite(t)    BY <2>8 DEF InitFlagWrite
    <2>9. CASE InitId(t)           BY <2>9 DEF InitId
    <2> QED BY <1>8, <2>1, <2>2, <2>3, <2>4, <2>5, <2>6, <2>7, <2>8, <2>9 DEF CpuInit
  <1>9. ASSUME NEW t \in Thread, CpuInitDummy(t) PROVE OnceExclusive'
    BY <1>1, <1>9 DEF CpuInitDummy, InOnce, Goto
  <1>10. ASSUME NEW t \in Thread, Read(t) PROVE OnceExclusive'
    BY <1>1, <1>10 DEF Read, Return, InOnce, Goto
  <1>11. ASSUME NEW t \in Thread, SetCheck(t) PROVE OnceExclusive'
    BY <1>1, <1>11 DEF SetCheck, Return, InOnce, Goto
  <1>12. ASSUME NEW t \in Thread, SetCount(t) PROVE OnceExclusive'
    BY <1>1, <1>12 DEF SetCount, InOnce, Goto
  <1>13. ASSUME NEW t \in Thread, SetFeatures(t) PROVE OnceExclusive'
    BY <1>1, <1>13 DEF SetFeatures, InOnce, Goto
  <1>14. ASSUME NEW t \in Thread, SetReturn(t) PROVE OnceExclusive'
    BY <1>1, <1>14 DEF SetReturn, Return, InOnce, Goto
  <1> QED
    BY <1>2, <1>3, <1>4, <1>5, <1>6, <1>7, <1>8, <1>9, <1>10, <1>11, <1>12,
       <1>13, <1>14 DEF Next, Library, Client

\* pthread_once runs one routine, once, and nobody gets past it early, for
\* any number of threads and whatever they call.
THEOREM OnceExclusiveCorrect == Spec => []OnceExclusive
  BY InitOnceExclusive, StepOnceExclusive, TypeCorrect, PTL DEF Spec

-------------------------------------------------------------------------------
\* Why the count cannot be 0: android_cpuInit may store a 0, but only the
\* thread inside the routine does, and it repairs the count before the routine
\* is over; everybody else stores at least 1.
Repairing == \E u \in Thread : pc[u] \in {"init_count0", "init_repair"}

CountInv ==
  /\ \A t \in Thread :
       pc[t] \in {"init_flags", "init_or", "init_done"} => g_cpuCount >= 1
  /\ \A t \in Thread :
       (pc[t] \in {"set_features", "dummy"} \/ (pc[t] = "once" /\ Setting(t)))
         => g_cpuCount >= 1 \/ Repairing
  /\ CountPositive

\* The invariant speaks of threads inside a routine: there are none yet.
LEMMA InitCountInv == Init => CountInv
  BY DEF Init, CountInv, CountPositive

\* Each routine leaves a count of at least 1 behind.
LEMMA StepCountInv ==
  TypeOK /\ TypeOK' /\ OnceExclusive /\ CountInv /\ [Next]_vars => CountInv'
  <1> SUFFICES ASSUME TypeOK, TypeOK', OnceExclusive, CountInv, [Next]_vars
               PROVE  CountInv'
    OBVIOUS
  <1>0. /\ pc \in [Thread -> PCs] /\ call \in [Thread -> Calls]
        /\ g_cpuCount \in Nat
        /\ \A t \in Thread : AtCall(t)
    BY DEF TypeOK
  \* A step that leaves the count alone and moves one thread is harmless,
  \* unless it ends the repair or enters a place that relies on the count.
  <1>1. ASSUME NEW t \in Thread, NEW from, NEW to, Goto(t, from, to),
               UNCHANGED <<g_cpuCount, g_once>>,
               \A u \in Thread : u # t => call'[u] = call[u],
               from \notin {"init_count0", "init_repair"},
               to \in {"init_flags", "init_or", "init_done"} => g_cpuCount >= 1,
               (to \in {"set_features", "dummy"} \/ (to = "once" /\ Setting(t)'))
                 => g_cpuCount >= 1 \/ Repairing
        PROVE  CountInv'
    BY <1>0, <1>1 DEF CountInv, CountPositive, Repairing, Goto, Setting
  \* So is a step after which the count is positive.
  <1>2. ASSUME g_cpuCount' >= 1 PROVE CountInv'
    BY <1>2 DEF CountInv, CountPositive
  <1>3. CASE UNCHANGED vars
    BY <1>3 DEF vars, globals, CountInv, CountPositive, Repairing, Setting
  <1>4. ASSUME NEW t \in Thread, NEW op \in GetOps, CallGet(t, op)
        PROVE  CountInv'
    BY <1>0, <1>1, <1>4 DEF CallGet, Goto, globals, Setting, GetOps, SetOps
  <1>5. ASSUME NEW t \in Thread, NEW op \in SetOps, NEW arg \in SetArgs,
               CallSet(t, op, arg)
        PROVE  CountInv'
    BY <1>0, <1>1, <1>5 DEF CallSet, Goto, globals
  <1>6. ASSUME NEW t \in Thread, OnceRun(t) PROVE CountInv'
    BY <1>0, <1>6 DEF OnceRun, Goto, globals, CountInv, CountPositive, Repairing,
                      Setting
  <1>7. ASSUME NEW t \in Thread, OnceSkip(t) PROVE CountInv'
    BY <1>0, <1>1, <1>7 DEF OnceSkip, AfterOnce, Goto, globals, Setting
  <1>8. ASSUME NEW t \in Thread, OnceDone(t) PROVE CountInv'
    BY <1>0, <1>2, <1>8 DEF OnceDone, Goto, globals, CountInv
  <1>9. ASSUME NEW t \in Thread, CpuInit(t) PROVE CountInv'
    <2>1. CASE InitFeatures(t)
      BY <1>0, <1>1, <2>1 DEF InitFeatures, Goto
    <2>2. CASE InitCountOne(t)
      BY <1>2, <2>2 DEF InitCountOne
    <2>3. CASE InitInited(t)
      BY <1>0, <1>1, <2>3 DEF InitInited, Goto
    <2>4. CASE InitCount(t)
      <3>1. g_once' = "running"
        BY <1>0, <2>4 DEF InitCount, Goto, OnceExclusive, InOnce
      <3>2. Repairing'
        BY <1>0, <2>4 DEF InitCount, Goto, Repairing
      <3>3. \A u \in Thread : pc'[u] \notin {"init_flags", "init_or", "init_done"}
        BY <1>0, <2>4 DEF InitCount, Goto, OnceExclusive, InOnce
      <3> QED BY <3>1, <3>2, <3>3 DEF CountInv, CountPositive
    <2>5. CASE InitCountTest(t)
      <3>1. CASE g_cpuCount = 0
        <4>1. /\ pc[t] = "init_count0" /\ pc' = [pc EXCEPT ![t] = "init_repair"]
              /\ UNCHANGED <<g_once, g_cpuCount>>
          BY <2>5, <3>1 DEF InitCountTest, Goto, globals
        <4>2. g_once' = "running"
          BY <1>0, <4>1 DEF OnceExclusive, InOnce
        <4>3. Repairing'
          BY <1>0, <4>1 DEF Repairing
        <4>4. \A u \in Thread : pc'[u] \notin {"init_flags", "init_or", "init_done"}
          BY <1>0, <4>1 DEF OnceExclusive, InOnce
        <4> QED BY <4>2, <4>3, <4>4 DEF CountInv, CountPositive
      <3>2. CASE g_cpuCount # 0
        BY <1>0, <1>2, <2>5, <3>2 DEF InitCountTest, globals
      <3> QED BY <3>1, <3>2
    <2>6. CASE InitCountRepair(t)
      BY <1>2, <2>6 DEF InitCountRepair
    <2>7. CASE InitFlagRead(t)
      BY <1>0, <1>2, <2>7 DEF InitFlagRead, Goto, CountInv, globals
    <2>8. CASE InitFlagWrite(t)
      BY <1>0, <1>2, <2>8 DEF InitFlagWrite, Goto, CountInv
    <2>9. CASE InitId(t)
      BY <1>0, <1>2, <2>9 DEF InitId, Goto, CountInv
    <2> QED BY <1>9, <2>1, <2>2, <2>3, <2>4, <2>5, <2>6, <2>7, <2>8, <2>9 DEF CpuInit
  <1>10. ASSUME NEW t \in Thread, CpuInitDummy(t) PROVE CountInv'
    \* No other thread can be repairing: it would be in the routine as well.
    <2>1. ~Repairing
      BY <1>10 DEF CpuInitDummy, Goto, Repairing, OnceExclusive, InOnce
    <2>2. g_cpuCount' >= 1
      BY <1>10, <2>1 DEF CpuInitDummy, Goto, CountInv
    <2> QED BY <1>2, <2>2
  <1>11. ASSUME NEW t \in Thread, Read(t) PROVE CountInv'
    BY <1>0, <1>1, <1>11 DEF Read, Return, Goto, globals
  <1>12. ASSUME NEW t \in Thread, SetCheck(t) PROVE CountInv'
    BY <1>0, <1>1, <1>12 DEF SetCheck, Return, Goto, globals
  <1>13. ASSUME NEW t \in Thread, SetCount(t) PROVE CountInv'
    <2>1. call[t].arg.count \in Int
      BY <1>0, <1>13, SettingHasArgs, SetArgsTyped DEF SetCount, Goto, AtCall
    <2> QED BY <1>2, <1>13, <2>1 DEF SetCount
  <1>14. ASSUME NEW t \in Thread, SetFeatures(t) PROVE CountInv'
    BY <1>0, <1>1, <1>14 DEF SetFeatures, Goto, CountInv
  <1>15. ASSUME NEW t \in Thread, SetReturn(t) PROVE CountInv'
    BY <1>0, <1>1, <1>15 DEF SetReturn, Return, Goto
  <1> QED
    BY <1>3, <1>4, <1>5, <1>6, <1>7, <1>8, <1>9, <1>10, <1>11, <1>12, <1>13,
       <1>14, <1>15 DEF Next, Library, Client

\* android_getCpuCount never settles on 0, in any interleaving of getters and
\* setters, serialised or not.
THEOREM CountPositiveCorrect == Spec => []CountPositive
  <1>1. Spec => []CountInv
    BY InitCountInv, StepCountInv, TypeCorrect, OnceExclusiveCorrect, PTL DEF Spec
  <1>2. CountInv => CountPositive
    BY DEF CountInv
  <1> QED BY <1>1, <1>2, PTL

-------------------------------------------------------------------------------
(***************************************************************************)
(* Clients that keep android_setCpu(Arm) apart from other calls, late and  *)
(* repeated ones included: any number of threads and any arguments.        *)
(***************************************************************************)
AtLeastOne(count) == IF count <= 0 THEN 1 ELSE count

\* The whole library is idle but for the one thread that is in a setter.
SetterAlone == \A t, u \in Thread : Setting(t) /\ u # t => pc[u] = "idle"

\* Before and while the routine runs nothing is forced; afterwards g_inited is set.
OnceInv ==
  /\ g_once \in {"new", "running"} => forced = {}
  /\ g_once = "new" => g_inited = 0 /\ g_cpuIdArm = 0
  /\ g_once = "done" => g_inited = 1

\* A setter past its check has the routine before it, and its values stay.
SetterAt(t) ==
  /\ pc[t] \in {"idle", "check", "set_count", "set_features", "once", "dummy",
                "init_done", "published"}
  /\ pc[t] \in {"set_count", "set_features", "once"} => g_once = "new"
  /\ pc[t] \in {"set_features", "once", "dummy", "init_done", "published"}
       => g_cpuCount = AtLeastOne(call[t].arg.count)
  /\ pc[t] \in {"once", "dummy", "init_done", "published"}
       => g_cpuFeatures = call[t].arg.features
  /\ pc[t] \in {"dummy", "init_done", "published"} => forced = {} /\ g_cpuIdArm = 0
  /\ pc[t] = "init_done" => g_inited = 1

\* How far android_cpuInit has come, in a thread that called a getter.
GetterAt(t) ==
  /\ pc[t] \in {"init_count1", "init_inited", "init_count", "init_count0", "init_repair"}
       => g_cpuFeatures = {}
  /\ pc[t] \in {"init_count", "init_count0", "init_repair", "init_flags", "init_or",
                "init_done"} => g_inited = 1
  /\ pc[t] \in {"init_count0", "init_repair"} => g_cpuCount = DetectedCount
  /\ pc[t] = "init_repair" => DetectedCount = 0 /\ todo = DetectedFlags
  /\ pc[t] \in {"init_flags", "init_or", "init_done"} => g_cpuCount = Detected.count
  /\ pc[t] \in {"init_flags", "init_or"} => g_cpuFeatures = DetectedFlags \ todo
  /\ pc[t] = "init_or" => seen = g_cpuFeatures
  /\ pc[t] = "init_done" => g_cpuFeatures = DetectedFlags /\ g_cpuIdArm = DetectedId

ThreadsAt == \A t \in Thread : IF Setting(t) THEN SetterAt(t) ELSE GetterAt(t)

\* No thread is between the end of the routine and the end of its setter.
NonePublished == \A t \in Thread : pc[t] # "published"

\* What clients are to see is there.
Settled ==
  /\ g_once = "done" /\ NonePublished
  /\ g_cpuFeatures = Expected.features
  /\ g_cpuCount = ExpectedCount
  /\ g_cpuIdArm = Expected.id

SettledInv ==
  /\ g_once = "done" /\ NonePublished => Settled
  /\ \A a, b \in forced : a = b
  /\ \A t \in Thread : ret[t].op \in GetOps => Settled

\* There is one entry per thread in ret.
RetTyped == ret = [t \in Thread |-> ret[t]]

SerialisedInv ==
  SetterAlone /\ OnceInv /\ ThreadsAt /\ SettledInv /\ GettersAgree /\ RetTyped

\* None of this is promised for clients that call setters at any time.
IInv == TypeOK /\ OnceExclusive /\ SerialisedInv

-------------------------------------------------------------------------------
\* At first every thread is idle and nothing has been initialised.
LEMMA InitOK == Init => SerialisedInv
  <1> SUFFICES ASSUME Init PROVE SerialisedInv
    OBVIOUS
  <1>1. \A t \in Thread : pc[t] = "idle" /\ call[t].op = "none" /\ ret[t].op = "none"
    BY DEF Init, Nothing
  <1> QED BY <1>1 DEF Init, SerialisedInv, SetterAlone, OnceInv, ThreadsAt, GetterAt,
             SetterAt, Setting, SetOps, SettledInv, Settled, GettersAgree, GetOps,
             RetTyped

\* Expected depends on what was forced only.
LEMMA ExpectedSame ==
  ASSUME forced' = forced PROVE Expected' = Expected /\ ExpectedCount' = ExpectedCount
  BY DEF Expected, ExpectedCount, Detected

\* A step that moves one thread and writes no global disturbs nobody else.
LEMMA QuietStep ==
  ASSUME TypeOK, SerialisedInv, SetterAlone', RetTyped',
         NEW t \in Thread, NEW from, NEW to, Goto(t, from, to),
         UNCHANGED <<g_once, globals, routine, forced>>,
         \A u \in Thread \ {t} : call'[u] = call[u] /\ ret'[u] = ret[u],
         from # "published", to # "published",
         IF Setting(t)' THEN SetterAt(t)' ELSE GetterAt(t)',
         ret'[t].op \in GetOps => Settled,
         /\ ret'[t].op = "getCpuFeatures" => ret'[t].value = Expected.features
         /\ ret'[t].op = "getCpuCount"    => ret'[t].value = ExpectedCount
         /\ ret'[t].op = "getCpuIdArm"    => ret'[t].value = Expected.id
  PROVE  SerialisedInv'
  <1>1. pc' = [pc EXCEPT ![t] = to] /\ pc[t] = from /\ pc \in [Thread -> PCs]
    BY DEF Goto, TypeOK
  <1>2. Expected' = Expected /\ ExpectedCount' = ExpectedCount
    BY ExpectedSame
  <1>3. NonePublished' = NonePublished
    BY <1>1 DEF NonePublished
  <1>4. Settled' = Settled
    BY <1>2, <1>3 DEF Settled, globals
  <1>5. OnceInv'
    BY DEF SerialisedInv, OnceInv, globals
  <1>6. ThreadsAt'
    <2>1. ASSUME NEW u \in Thread \ {t}
          PROVE  IF Setting(u)' THEN SetterAt(u)' ELSE GetterAt(u)'
      BY <1>1 DEF SerialisedInv, ThreadsAt, SetterAt, GetterAt, Setting, globals,
                  routine, Detected
    <2> QED BY <2>1 DEF ThreadsAt
  <1>7. SettledInv'
    BY <1>3, <1>4 DEF SerialisedInv, SettledInv
  <1>8. GettersAgree'
    BY <1>2 DEF SerialisedInv, GettersAgree
  <1> QED BY <1>5, <1>6, <1>7, <1>8 DEF SerialisedInv

\* Nor does one that writes globals while nothing is settled, for then all other
\* threads are idle or wait for the routine.
LEMMA UnsettledStep ==
  ASSUME TypeOK, OnceExclusive, SerialisedInv,
         NEW t \in Thread, NEW to \in PCs, pc' = [pc EXCEPT ![t] = to],
         \A u \in Thread \ {t} : ~InOnce(u), pc[t] # "idle", to # "idle",
         g_once # "done", g_once' # "done", OnceInv',
         UNCHANGED <<call, history>>,
         IF Setting(t) THEN SetterAt(t)' ELSE GetterAt(t)'
  PROVE  SerialisedInv'
  <1>1. pc \in [Thread -> PCs]
    BY DEF TypeOK
  <1>2. \A u \in Thread : Setting(u)' = Setting(u)
    BY DEF Setting
  <1>3. SetterAlone'
    BY <1>1, <1>2 DEF SerialisedInv, SetterAlone
  <1>4. ASSUME NEW u \in Thread \ {t}
        PROVE  ~Setting(u) /\ GetterAt(u)'
    BY <1>1 DEF SerialisedInv, SetterAlone, GetterAt, InOnce
  <1>5. ThreadsAt'
    BY <1>2, <1>4 DEF ThreadsAt
  <1>6. SettledInv' /\ GettersAgree' /\ RetTyped'
    BY DEF SerialisedInv, SettledInv, Settled, GettersAgree, GetOps, RetTyped, history
  <1> QED BY <1>3, <1>5, <1>6 DEF SerialisedInv

-------------------------------------------------------------------------------
\* The calls: a getter starts while nobody is in a setter, a setter while all
\* are idle.
LEMMA CallGetOK ==
  ASSUME Serialised, IInv, NEW t \in Thread, NEW op \in GetOps, CallGet(t, op)
  PROVE  SerialisedInv'
  <1>1. pc \in [Thread -> PCs] /\ call \in [Thread -> Calls] /\ TypeOK /\ SerialisedInv
    BY DEF IInv, TypeOK
  <1>2. /\ Goto(t, "idle", "once") /\ UNCHANGED <<g_once, globals, routine, forced>>
        /\ call' = [call EXCEPT ![t] = [op |-> op]]
        /\ ret' = [ret EXCEPT ![t] = Nothing]
        /\ \A u \in Thread : ~Setting(u)
    BY DEF CallGet
  <1>3. \A u \in Thread : ~Setting(u)'
    BY <1>1, <1>2 DEF Setting, GetOps, SetOps
  <1>4. SetterAlone' /\ RetTyped'
    BY <1>1, <1>2, <1>3 DEF SetterAlone, RetTyped, SerialisedInv
  <1>5. GetterAt(t)'
    BY <1>1, <1>2 DEF GetterAt, Goto
  <1>6. ret'[t] = Nothing
    BY <1>1, <1>2 DEF RetTyped, SerialisedInv
  <1>7. \A u \in Thread \ {t} : call'[u] = call[u] /\ ret'[u] = ret[u]
    BY <1>1, <1>2 DEF RetTyped, SerialisedInv
  <1> QED BY <1>1, <1>2, <1>3, <1>4, <1>5, <1>6, <1>7, QuietStep DEF Nothing, GetOps

\* A setter starts alone: no thread is in the library.
LEMMA CallSetOK ==
  ASSUME Serialised, IInv, NEW t \in Thread, NEW op \in SetOps, NEW arg \in SetArgs,
         CallSet(t, op, arg)
  PROVE  SerialisedInv'
  <1>1. pc \in [Thread -> PCs] /\ call \in [Thread -> Calls] /\ TypeOK /\ SerialisedInv
    BY DEF IInv, TypeOK
  <1>2. /\ Goto(t, "idle", "check") /\ UNCHANGED <<g_once, globals, routine, forced>>
        /\ call' = [call EXCEPT ![t] = [op |-> op, arg |-> arg]]
        /\ ret' = [ret EXCEPT ![t] = Nothing]
        /\ \A u \in Thread : pc[u] = "idle"
    BY DEF CallSet
  <1>3. Setting(t)' /\ \A u \in Thread \ {t} : ~Setting(u)' /\ pc'[u] = "idle"
    BY <1>1, <1>2 DEF Setting, Goto, SetOps, TypeOK, AtCall
  <1>4. SetterAlone' /\ RetTyped'
    BY <1>1, <1>2, <1>3 DEF SetterAlone, RetTyped, SerialisedInv
  <1>5. SetterAt(t)'
    BY <1>1, <1>2 DEF SetterAt, Goto
  <1>6. ret'[t] = Nothing
    BY <1>1, <1>2 DEF RetTyped, SerialisedInv
  <1>7. \A u \in Thread \ {t} : call'[u] = call[u] /\ ret'[u] = ret[u]
    BY <1>1, <1>2 DEF RetTyped, SerialisedInv
  <1> QED BY <1>1, <1>2, <1>3, <1>4, <1>5, <1>6, <1>7, QuietStep DEF Nothing, GetOps

-------------------------------------------------------------------------------
\* pthread_once: a setter never finds the routine done, as it checked g_inited.
LEMMA OnceRunOK ==
  ASSUME IInv, NEW t \in Thread, OnceRun(t) PROVE SerialisedInv'
  <1>1. pc \in [Thread -> PCs] /\ TypeOK /\ OnceExclusive /\ SerialisedInv
    BY DEF IInv, TypeOK
  <1>2. PICK to \in {"init", "dummy"} :
          /\ pc' = [pc EXCEPT ![t] = to] /\ pc[t] = "once"
          /\ to = "dummy" <=> Setting(t)
    BY DEF OnceRun, Goto
  <1>3. g_once = "new" /\ g_once' = "running" /\ UNCHANGED <<globals, call, history>>
    BY DEF OnceRun
  <1>4. OnceInv'
    BY <1>1, <1>3 DEF OnceInv, SerialisedInv, history, globals
  <1>5. IF Setting(t) THEN SetterAt(t)' ELSE GetterAt(t)'
    BY <1>1, <1>2, <1>3 DEF SerialisedInv, ThreadsAt, SetterAt, GetterAt, OnceInv,
         globals, history
  <1>6. \A u \in Thread : ~InOnce(u)
    BY <1>1, <1>3 DEF OnceExclusive
  <1> QED BY <1>1, <1>2, <1>3, <1>4, <1>5, <1>6, UnsettledStep DEF PCs

\* pthread_once finds the routine done: only a getter comes here.
LEMMA OnceSkipOK ==
  ASSUME IInv, NEW t \in Thread, OnceSkip(t) PROVE SerialisedInv'
  <1>1. pc \in [Thread -> PCs] /\ TypeOK /\ SerialisedInv
    BY DEF IInv, TypeOK
  <1>2. g_once = "done" /\ UNCHANGED <<g_once, globals, call, routine, history>>
    BY DEF OnceSkip
  <1>3. ~Setting(t) /\ Goto(t, "once", "read")
    BY <1>1, <1>2 DEF OnceSkip, AfterOnce, Goto, SerialisedInv, ThreadsAt, SetterAt
  <1>4. \A u \in Thread : Setting(u)' = Setting(u)
    BY <1>2 DEF Setting
  <1>5. SetterAlone' /\ RetTyped'
    BY <1>1, <1>2, <1>3, <1>4 DEF SetterAlone, RetTyped, SerialisedInv, Goto, history
  <1>6. GetterAt(t)'
    BY <1>1, <1>3 DEF GetterAt, Goto
  <1> QED BY <1>1, <1>2, <1>3, <1>4, <1>5, <1>6, QuietStep
          DEF SerialisedInv, SettledInv, GettersAgree, history

\* The routine is over: what android_cpuInit found is there, or what the setter
\* forced, which goes into forced when the setter returns.
LEMMA OnceDoneOK ==
  ASSUME IInv, NEW t \in Thread, OnceDone(t) PROVE SerialisedInv'
  <1>1. pc \in [Thread -> PCs] /\ TypeOK /\ OnceExclusive /\ SerialisedInv
    BY DEF IInv, TypeOK
  <1>2. /\ g_once' = "done" /\ UNCHANGED <<globals, call, routine, history>>
        /\ pc[t] = "init_done" /\ pc' = [pc EXCEPT ![t] = AfterOnce(t)]
    BY DEF OnceDone, Goto
  <1>3. g_once = "running" /\ \A u \in Thread \ {t} : ~InOnce(u)
    BY <1>1, <1>2 DEF OnceExclusive, InOnce
  <1>4. forced = {} /\ forced' = {} /\ \A u \in Thread : ret[u].op \notin GetOps
    BY <1>1, <1>2, <1>3 DEF SerialisedInv, OnceInv, SettledInv, Settled, history
  <1>5. \A u \in Thread : Setting(u)' = Setting(u)
    BY <1>2 DEF Setting
  <1>6. OnceInv' /\ RetTyped' /\ SetterAlone'
    BY <1>1, <1>2, <1>4, <1>5 DEF OnceInv, RetTyped, SetterAlone, SerialisedInv,
         ThreadsAt, SetterAt, GetterAt, history, globals
  <1>7. ThreadsAt'
    <2>1. ASSUME NEW u \in Thread \ {t}
          PROVE  IF Setting(u)' THEN SetterAt(u)' ELSE GetterAt(u)'
      BY <1>1, <1>2, <1>3, <1>5 DEF SerialisedInv, SetterAlone, SetterAt, GetterAt, InOnce
    <2>2. IF Setting(t)' THEN SetterAt(t)' ELSE GetterAt(t)'
      BY <1>1, <1>2, <1>4, <1>5 DEF SerialisedInv, ThreadsAt, SetterAt, GetterAt,
           AfterOnce, globals
    <2> QED BY <2>1, <2>2 DEF ThreadsAt
  <1>8. CASE Setting(t)
    <2>1. ~NonePublished'
      BY <1>1, <1>2, <1>8 DEF NonePublished, AfterOnce
    <2> QED BY <1>2, <1>4, <1>6, <1>7, <2>1 DEF SerialisedInv, SettledInv, GettersAgree,
                GetOps, history
  <1>9. CASE ~Setting(t)
    <2>1. /\ g_cpuCount' = Detected.count /\ g_cpuFeatures' = Detected.features
          /\ g_cpuIdArm' = Detected.id
      BY <1>1, <1>2, <1>9 DEF SerialisedInv, ThreadsAt, GetterAt, Detected, globals
    <2>2. Expected' = Detected /\ ExpectedCount' = Detected.count
      BY <1>4, NdkAssumption DEF Expected, ExpectedCount, Detected, NdkAssumption
    <2>3. NonePublished'
      BY <1>1, <1>2, <1>3, <1>9 DEF NonePublished, AfterOnce, OnceExclusive
    <2>4. Settled'
      BY <1>2, <2>1, <2>2, <2>3 DEF Settled
    <2> QED BY <1>2, <1>4, <1>6, <1>7, <2>4 DEF SerialisedInv, SettledInv, GettersAgree,
                GetOps, history
  <1> QED BY <1>8, <1>9

-------------------------------------------------------------------------------
\* Write by write android_cpuInit makes the globals what was detected, and the
\* dummy leaves them what the setter has made them.
LEMMA RoutineOK ==
  ASSUME IInv, TypeOK', NEW t \in Thread, CpuInit(t) \/ CpuInitDummy(t)
  PROVE  SerialisedInv'
  <1>1. /\ pc \in [Thread -> PCs] /\ TypeOK /\ OnceExclusive /\ SerialisedInv
        /\ pc' \in [Thread -> PCs]
    BY DEF IInv, TypeOK
  <1>2. InOnce(t) /\ UNCHANGED <<g_once, call, history>>
    BY DEF CpuInit, CpuInitDummy, InitFeatures, InitCountOne, InitInited, InitCount,
           InitCountTest, InitCountRepair, InitFlagRead,
           InitFlagWrite, InitId, Goto, InOnce
  <1>3. /\ g_once = "running" /\ \A u \in Thread \ {t} : ~InOnce(u)
        /\ forced = {} /\ forced' = {}
    BY <1>1, <1>2 DEF OnceExclusive, SerialisedInv, OnceInv, history
  <1>4. OnceInv'
    BY <1>2, <1>3 DEF OnceInv
  <1>5. ASSUME NEW to \in PCs \ {"idle"}, pc' = [pc EXCEPT ![t] = to],
               IF Setting(t) THEN SetterAt(t)' ELSE GetterAt(t)'
        PROVE  SerialisedInv'
    <2>1. pc[t] # "idle" /\ g_once # "done" /\ g_once' # "done"
      BY <1>2, <1>3 DEF InOnce
    <2> HIDE DEF IInv
    <2> QED BY <1>1, <1>2, <1>3, <1>4, <1>5, <2>1, UnsettledStep
  <1>6. CASE CpuInitDummy(t)
    <2>1. pc[t] = "dummy" /\ pc' = [pc EXCEPT ![t] = "init_done"] /\ Setting(t)
      BY <1>1, <1>6 DEF CpuInitDummy, Goto, TypeOK, AtCall
    <2>2. SetterAt(t)'
      BY <1>1, <1>3, <1>6, <2>1 DEF CpuInitDummy, SerialisedInv, ThreadsAt, SetterAt
    <2> QED BY <1>5, <2>1, <2>2 DEF PCs
  <1>7. CASE CpuInit(t)
    <2>1. ~Setting(t) /\ GetterAt(t)
      <3>1. pc[t] \in {"init", "init_count1", "init_inited", "init_count",
                       "init_count0", "init_repair", "init_flags", "init_or"}
        BY <1>7 DEF CpuInit, InitFeatures, InitCountOne, InitInited, InitCount,
                    InitCountTest, InitCountRepair, InitFlagRead,
           InitFlagWrite, InitId, Goto
      <3> QED BY <1>1, <3>1 DEF SerialisedInv, ThreadsAt, SetterAt
    <2>2. ASSUME NEW to \in PCs \ {"idle"}, pc' = [pc EXCEPT ![t] = to], GetterAt(t)'
          PROVE  SerialisedInv'
      BY <1>5, <2>1, <2>2
    <2> USE <1>1, <2>1 DEF Goto, GetterAt, PCs
    <2>3. CASE InitFeatures(t)
      BY <2>2, <2>3 DEF InitFeatures
    <2>4. CASE InitCountOne(t)
      BY <2>2, <2>4 DEF InitCountOne
    <2>5. CASE InitInited(t)
      BY <2>2, <2>5 DEF InitInited
    <2>6. CASE InitCount(t)
      BY <2>2, <2>6 DEF InitCount
    <2>7. CASE InitCountTest(t)
      BY <2>2, <2>7 DEF InitCountTest, Detected, globals
    <2>8. CASE InitCountRepair(t)
      BY <2>2, <2>8 DEF InitCountRepair, Detected, routine
    <2>9. CASE InitFlagRead(t)
      BY <2>2, <2>9 DEF InitFlagRead, Detected, globals
    <2>10. CASE InitFlagWrite(t)
      <3>1. pc' = [pc EXCEPT ![t] = "init_flags"] /\ pc[t] = "init_or"
        BY <2>10 DEF InitFlagWrite
      <3>2. g_cpuFeatures' = DetectedFlags \ todo'
        BY <2>10, <3>1 DEF InitFlagWrite, TypeOK
      <3> QED BY <2>2, <2>10, <3>1, <3>2 DEF InitFlagWrite, Detected
    <2>11. CASE InitId(t)
      BY <2>2, <2>11 DEF InitId, Detected
    <2> QED BY <1>7, <2>3, <2>4, <2>5, <2>6, <2>7, <2>8, <2>9, <2>10, <2>11 DEF CpuInit
  <1> QED BY <1>6, <1>7

-------------------------------------------------------------------------------
\* A getter reads what is settled.
LEMMA ReadOK ==
  ASSUME IInv, NEW t \in Thread, Read(t) PROVE SerialisedInv'
  <1>1. /\ pc \in [Thread -> PCs] /\ call \in [Thread -> Calls]
        /\ TypeOK /\ OnceExclusive /\ SerialisedInv
    BY DEF IInv, TypeOK
  <1>2. /\ Goto(t, "read", "idle") /\ UNCHANGED <<g_once, globals, routine, forced>>
        /\ call' = [call EXCEPT ![t] = Nothing]
    BY DEF Read, Return
  <1>3. ~Setting(t) /\ call[t].op \in GetOps /\ g_once = "done"
    BY <1>1, <1>2 DEF TypeOK, AtCall, Goto, OnceExclusive, Calls, Nothing, Setting,
         GetOps, SetOps
  <1>4. ~Setting(t)' /\ \A u \in Thread \ {t} : Setting(u)' = Setting(u)
    BY <1>1, <1>2 DEF Setting, Nothing, SetOps
  <1>5. NonePublished
    <2>1. ASSUME NEW u \in Thread, pc[u] = "published" PROVE FALSE
      <3>1. Setting(u) /\ u # t
        BY <1>1, <1>2, <2>1 DEF TypeOK, AtCall, Goto
      <3> QED BY <1>1, <1>2, <3>1 DEF SerialisedInv, SetterAlone, Goto
    <2> QED BY <2>1 DEF NonePublished
  <1>6. Settled
    BY <1>1, <1>3, <1>5 DEF SerialisedInv, SettledInv
  <1>7. /\ ret'[t].op = call[t].op
        /\ call[t].op = "getCpuFeatures" => ret'[t].value = g_cpuFeatures
        /\ call[t].op = "getCpuCount" => ret'[t].value = g_cpuCount
        /\ call[t].op = "getCpuIdArm" => ret'[t].value = g_cpuIdArm
        /\ \A u \in Thread \ {t} : ret'[u] = ret[u]
    BY <1>1, <1>3 DEF Read, Return, SerialisedInv, RetTyped, GetOps
  <1>8. SetterAlone' /\ RetTyped'
    BY <1>1, <1>2, <1>4 DEF Read, Return, SetterAlone, RetTyped, SerialisedInv, Goto
  <1>9. GetterAt(t)'
    BY <1>1, <1>2 DEF GetterAt, Goto
  <1>10. \A u \in Thread \ {t} : call'[u] = call[u]
    BY <1>1, <1>2
  <1> QED BY <1>1, <1>2, <1>4, <1>6, <1>7, <1>8, <1>9, <1>10, QuietStep DEF Settled

\* A setter that finds g_inited set returns 0; otherwise nothing has run.
LEMMA SetCheckOK ==
  ASSUME IInv, NEW t \in Thread, SetCheck(t) PROVE SerialisedInv'
  <1>1. /\ pc \in [Thread -> PCs] /\ call \in [Thread -> Calls]
        /\ TypeOK /\ OnceExclusive /\ SerialisedInv
    BY DEF IInv, TypeOK
  <1>2. /\ pc[t] = "check" /\ Setting(t)
        /\ UNCHANGED <<g_once, globals, routine, forced>>
    BY <1>1 DEF SetCheck, Return, Goto, TypeOK, AtCall
  <1>3. \A u \in Thread \ {t} : pc[u] = "idle" /\ ~Setting(u)
    BY <1>1, <1>2 DEF SerialisedInv, SetterAlone, TypeOK, AtCall, Setting, SetOps
  <1>4. CASE g_inited = 1
    <2>1. /\ Goto(t, "check", "idle") /\ call' = [call EXCEPT ![t] = Nothing]
          /\ ret' = [ret EXCEPT ![t] = [op |-> call[t].op, value |-> 0]]
      BY <1>4 DEF SetCheck, Return
    <2>2. \A u \in Thread : ~Setting(u)'
      BY <1>1, <1>3, <2>1 DEF Setting, Nothing, SetOps
    <2>3. SetterAlone' /\ RetTyped'
      BY <1>1, <2>1, <2>2 DEF SetterAlone, RetTyped, SerialisedInv
    <2>4. GetterAt(t)'
      BY <1>1, <2>1 DEF GetterAt, Goto
    <2>5. ret'[t].op \notin GetOps
      BY <1>1, <1>2, <2>1 DEF SerialisedInv, RetTyped, Setting, GetOps, SetOps
    <2>6. \A u \in Thread \ {t} : call'[u] = call[u] /\ ret'[u] = ret[u]
      BY <1>1, <2>1 DEF SerialisedInv, RetTyped
    <2> QED BY <1>1, <1>2, <2>1, <2>2, <2>3, <2>4, <2>5, <2>6, QuietStep DEF GetOps
  <1>5. CASE g_inited # 1
    <2>1. Goto(t, "check", "set_count") /\ UNCHANGED <<call, ret>>
      BY <1>5 DEF SetCheck
    <2>2. \A u \in Thread : Setting(u)' = Setting(u)
      BY <2>1 DEF Setting
    <2>3. SetterAlone' /\ RetTyped'
      BY <1>1, <1>3, <2>1, <2>2 DEF SetterAlone, RetTyped, SerialisedInv, Goto
    <2>4. g_once = "new"
      BY <1>1, <1>2, <1>3, <1>5 DEF SerialisedInv, OnceInv, OnceExclusive, InOnce, TypeOK
    <2>5. SetterAt(t)'
      BY <1>1, <1>2, <2>1, <2>4 DEF SetterAt, Goto
    <2> QED BY <1>1, <1>2, <2>1, <2>2, <2>3, <2>5, QuietStep
            DEF SerialisedInv, SettledInv, GettersAgree
  <1> QED BY <1>4, <1>5

\* The writes before pthread_once.
LEMMA SetWriteOK ==
  ASSUME IInv, NEW t \in Thread, SetCount(t) \/ SetFeatures(t) PROVE SerialisedInv'
  <1>1. /\ pc \in [Thread -> PCs] /\ TypeOK /\ OnceExclusive /\ SerialisedInv
    BY DEF IInv, TypeOK
  <1>2. PICK to \in {"set_features", "once"} :
          /\ pc' = [pc EXCEPT ![t] = to] /\ pc[t] \in {"set_count", "set_features"}
          /\ to = "once" <=> pc[t] = "set_features"
    BY DEF SetCount, SetFeatures, Goto
  <1>3. UNCHANGED <<g_once, g_inited, g_cpuIdArm, call, history>> /\ Setting(t)
    BY <1>1, <1>2 DEF SetCount, SetFeatures, TypeOK, AtCall
  <1>4. g_once = "new" /\ SetterAt(t)
    BY <1>1, <1>2, <1>3 DEF SerialisedInv, ThreadsAt, SetterAt
  <1>5. SetterAt(t)'
    BY <1>1, <1>2, <1>3, <1>4 DEF SetCount, SetFeatures, SetterAt, Goto, AtLeastOne
  <1>6. OnceInv' /\ \A u \in Thread : ~InOnce(u)
    BY <1>1, <1>3, <1>4 DEF SerialisedInv, OnceInv, OnceExclusive, history
  <1> QED BY <1>1, <1>2, <1>3, <1>4, <1>5, <1>6, UnsettledStep DEF PCs

\* The setter returns: from now on its values are the expected ones.
LEMMA SetReturnOK ==
  ASSUME IInv, NEW t \in Thread, SetReturn(t) PROVE SerialisedInv'
  <1>1. /\ pc \in [Thread -> PCs] /\ call \in [Thread -> Calls]
        /\ TypeOK /\ OnceExclusive /\ SerialisedInv
    BY DEF IInv, TypeOK
  <1>2. /\ pc[t] = "published" /\ pc' = [pc EXCEPT ![t] = "idle"] /\ Setting(t)
        /\ call' = [call EXCEPT ![t] = Nothing]
        /\ ret' = [ret EXCEPT ![t] = [op |-> call[t].op, value |-> 1]]
        /\ UNCHANGED <<g_once, g_inited, g_cpuFeatures, g_cpuCount, routine>>
    BY <1>1 DEF SetReturn, Return, Goto, TypeOK, AtCall
  <1>3. SetterAt(t) /\ g_once = "done" /\ forced = {}
    BY <1>1, <1>2 DEF SerialisedInv, ThreadsAt, SetterAt, OnceExclusive
  <1>4. \A u \in Thread \ {t} : pc[u] = "idle" /\ ~Setting(u)
    BY <1>1, <1>2 DEF SerialisedInv, SetterAlone, TypeOK, AtCall, Setting, SetOps
  <1>5. \A u \in Thread : ~Setting(u)' /\ pc'[u] = "idle"
    BY <1>1, <1>2, <1>4 DEF Setting, Nothing, SetOps
  <1>6. \A u \in Thread : ret'[u].op \notin GetOps
    <2>1. \A u \in Thread : ret[u].op \notin GetOps
      BY <1>1, <1>2 DEF SerialisedInv, SettledInv, Settled, NonePublished
    <2> QED BY <1>1, <1>2, <2>1 DEF SerialisedInv, RetTyped, Setting, GetOps, SetOps
  <1>7. PICK a : /\ forced' = {a}
                 /\ a.count = call[t].arg.count /\ a.features = call[t].arg.features
                 /\ a.id = g_cpuIdArm'
    <2>1. call[t].arg \in SetArgs
      BY <1>1, <1>2, SettingHasArgs
    <2> DEFINE arg == call[t].arg
               a == [arg EXCEPT !.id = IF call[t].op = "setCpuArm" THEN @ ELSE 0]
    <2>2. arg = [count |-> arg.count, features |-> arg.features, id |-> arg.id]
      BY <2>1, NdkAssumption DEF NdkAssumption
    <2>3. forced' = {a}
      BY <1>3 DEF SetReturn
    <2>4. /\ a.count = arg.count /\ a.features = arg.features
          /\ a.id = IF call[t].op = "setCpuArm" THEN arg.id ELSE 0
      BY <2>2
    <2>5. g_cpuIdArm' = IF call[t].op = "setCpuArm" THEN arg.id ELSE 0
      BY <1>2, <1>3 DEF SetReturn, SetterAt
    <2> QED BY <2>3, <2>4, <2>5
  <1>8. /\ Expected'.count = call[t].arg.count
        /\ Expected'.features = call[t].arg.features
        /\ Expected'.id = g_cpuIdArm'
        /\ ExpectedCount' = AtLeastOne(call[t].arg.count)
    BY <1>7 DEF Expected, ExpectedCount, AtLeastOne
  <1>9. Settled'
    BY <1>2, <1>3, <1>5, <1>8 DEF Settled, NonePublished, SetterAt
  <1>10. SetterAlone' /\ RetTyped' /\ OnceInv' /\ ThreadsAt'
    BY <1>1, <1>2, <1>3, <1>5 DEF SerialisedInv, SetterAlone, RetTyped, OnceInv,
         ThreadsAt, GetterAt
  <1> QED BY <1>6, <1>7, <1>9, <1>10 DEF SerialisedInv, SettledInv, GettersAgree, GetOps

-------------------------------------------------------------------------------
\* The invariant is kept, if clients keep setters apart.
LEMMA StepOK ==
  ASSUME Serialised PROVE IInv /\ TypeOK' /\ [Next]_vars => SerialisedInv'
  <1> SUFFICES ASSUME IInv, TypeOK', [Next]_vars PROVE SerialisedInv'
    OBVIOUS
  <1>1. CASE UNCHANGED vars
    BY <1>1 DEF vars, globals, routine, history, IInv, SerialisedInv, SetterAlone, OnceInv,
         ThreadsAt, SetterAt, GetterAt, Setting, SettledInv, Settled, NonePublished,
         GettersAgree, RetTyped, Expected, ExpectedCount, Detected
  <1>2. ASSUME NEW t \in Thread, Client(t) PROVE SerialisedInv'
    BY <1>2, CallGetOK, CallSetOK DEF Client
  <1>3. ASSUME NEW t \in Thread, Library(t) PROVE SerialisedInv'
    BY <1>3, OnceRunOK, OnceSkipOK, OnceDoneOK, RoutineOK, ReadOK, SetCheckOK,
       SetWriteOK, SetReturnOK DEF Library
  <1> QED BY <1>1, <1>2, <1>3 DEF Next

\* The invariant holds in every state that such clients reach.
LEMMA Invariance ==
  ASSUME Serialised PROVE Spec => []IInv
  <1>1. IInv /\ TypeOK' /\ [Next]_vars => SerialisedInv'
    BY StepOK
  <1>2. TypeOK /\ OnceExclusive /\ SerialisedInv <=> IInv
    BY DEF IInv
  <1> QED BY InitOK, <1>1, <1>2, TypeCorrect, OnceExclusiveCorrect, PTL DEF Spec

\* Any number of threads, calling getters at any time, get what was forced, or
\* else what was detected, and never a half initialised value.
THEOREM GettersAgreeCorrect ==
  ASSUME Serialised PROVE Spec => []GettersAgree
  <1>1. IInv => GettersAgree
    BY DEF IInv, SerialisedInv
  <1> QED BY <1>1, Invariance, PTL

\* Of any number of late and repeated android_setCpu calls one at most succeeds.
THEOREM OnlyOneSetSucceedsCorrect ==
  ASSUME Serialised PROVE Spec => []OnlyOneSetSucceeds
  <1>1. ASSUME IInv PROVE OnlyOneSetSucceeds
    <2>1. CASE forced = {}
      BY <2>1, FS_EmptySet DEF OnlyOneSetSucceeds
    <2>2. CASE forced # {}
      <3>1. PICK a : forced = {a}
        BY <1>1, <2>2 DEF IInv, SerialisedInv, SettledInv
      <3>2. Cardinality({a}) = 1
        BY FS_Singleton, Zenon
      <3> QED BY <3>1, <3>2 DEF OnlyOneSetSucceeds
    <2> QED BY <2>1, <2>2
  <1> QED BY <1>1, Invariance, PTL

\* Once the routine is over nothing changes the features or the count again.
THEOREM SettledForGoodCorrect ==
  ASSUME Serialised PROVE Spec => SettledForGood
  <1>1. IInv /\ [Next]_vars => [g_once = "done" => UNCHANGED <<g_cpuFeatures, g_cpuCount>>]_vars
    <2> SUFFICES ASSUME IInv, [Next]_vars, g_once = "done"
                 PROVE  UNCHANGED <<g_cpuFeatures, g_cpuCount>>
      OBVIOUS
    <2>1. \A t \in Thread : ~InOnce(t)
      BY DEF IInv, OnceExclusive
    <2>2. \A t \in Thread : pc[t] \notin {"set_count", "set_features"}
      BY DEF IInv, TypeOK, AtCall, SerialisedInv, ThreadsAt, SetterAt
    <2>3. ASSUME NEW t \in Thread, Library(t)
          PROVE  UNCHANGED <<g_cpuFeatures, g_cpuCount>>
      BY <2>1, <2>2, <2>3 DEF Library, OnceRun, OnceSkip, OnceDone, CpuInit, InitFeatures,
         InitCountOne, InitInited, InitCount, InitCountTest, InitCountRepair, InitFlagRead,
           InitFlagWrite, InitId,
         CpuInitDummy, Read, SetCheck, SetCount, SetFeatures, SetReturn, Goto, InOnce,
         globals
    <2>4. ASSUME NEW t \in Thread, Client(t)
          PROVE  UNCHANGED <<g_cpuFeatures, g_cpuCount>>
      BY <2>4 DEF Client, CallGet, CallSet, globals
    <2> QED BY <2>3, <2>4 DEF Next, vars, globals
  <1> QED BY <1>1, Invariance, PTL DEF Spec, SettledForGood

\* When a setter has succeeded there is something forced.
SetterForced ==
  \A t \in Thread : ret[t].op \in SetOps /\ ret[t].value = 1 => forced # {}

\* Only the step in which a setter returns 1 could break this, and it records
\* its arguments.
LEMMA SetterForcedOK == IInv /\ SetterForced /\ [Next]_vars => SetterForced'
  <1> SUFFICES ASSUME IInv, SetterForced, [Next]_vars PROVE SetterForced'
    OBVIOUS
  <1>1. RetTyped /\ TypeOK
    BY DEF IInv, SerialisedInv
  <1>2. CASE UNCHANGED <<ret, forced>>
    BY <1>2 DEF SetterForced
  <1>3. ASSUME NEW t \in Thread, ret' = [ret EXCEPT ![t] = Nothing], forced' = forced
        PROVE  SetterForced'
    BY <1>1, <1>3 DEF SetterForced, RetTyped, Nothing, SetOps
  <1>4. ASSUME NEW t \in Thread, Read(t) PROVE SetterForced'
    <2>1. /\ \A u \in Thread : u # t => ret'[u] = ret[u]
          /\ ret'[t].op = call[t].op /\ forced' = forced
      BY <1>1, <1>4 DEF Read, Return, RetTyped
    <2>2. call[t].op \notin SetOps
      BY <1>1, <1>4 DEF Read, TypeOK, AtCall, Setting
    <2> QED BY <2>1, <2>2 DEF SetterForced
  <1>5. ASSUME NEW t \in Thread, Return(t, "check", 0), forced' = forced
        PROVE  SetterForced'
    <2>1. \A u \in Thread : (u # t => ret'[u] = ret[u]) /\ ret'[t].value = 0
      BY <1>1, <1>5 DEF Return, RetTyped
    <2> QED BY <1>5, <2>1 DEF SetterForced
  <1>6. ASSUME NEW t \in Thread, SetReturn(t) PROVE SetterForced'
    <2>1. forced' # {}
      BY <1>6 DEF SetReturn
    <2> QED BY <2>1 DEF SetterForced
  <1>7. ASSUME NEW t \in Thread, Library(t) PROVE SetterForced'
    BY <1>2, <1>4, <1>5, <1>6, <1>7 DEF Library, OnceRun, OnceSkip, OnceDone, CpuInit,
       InitFeatures, InitCountOne, InitInited, InitCount, InitCountTest,
       InitCountRepair, InitFlagRead, InitFlagWrite, InitId, CpuInitDummy, SetCheck, SetCount, SetFeatures, history
  <1>8. ASSUME NEW t \in Thread, Client(t) PROVE SetterForced'
    BY <1>3, <1>8 DEF Client, CallGet, CallSet
  <1> QED BY <1>2, <1>7, <1>8 DEF Next, vars, history

\* A setter that has succeeded finds its features in place, whatever is called
\* before, between and after.
THEOREM SetSticksCorrect ==
  ASSUME Serialised PROVE Spec => []SetSticks
  <1>1. Init => SetterForced
    BY DEF Init, SetterForced, Nothing, SetOps
  <1>2. ASSUME IInv, SetterForced PROVE SetSticks
    <2> SUFFICES ASSUME NEW t \in Thread, ret[t].op \in SetOps, ret[t].value = 1,
                        \A u \in Thread : ~Setting(u)
                 PROVE  \E a \in forced : g_cpuFeatures = a.features
      BY DEF SetSticks
    <2>1. forced # {}
      BY <1>2 DEF SetterForced
    <2>2. NonePublished
      BY <1>2 DEF IInv, TypeOK, AtCall, NonePublished
    <2>3. g_once = "done"
      BY <1>2, <2>1 DEF IInv, TypeOK, SerialisedInv, OnceInv
    <2>4. g_cpuFeatures = Expected.features
      BY <1>2, <2>2, <2>3 DEF IInv, SerialisedInv, SettledInv, Settled
    <2>5. Expected \in forced
      BY <2>1 DEF Expected
    <2> QED BY <2>4, <2>5
  <1> QED BY <1>1, <1>2, SetterForcedOK, Invariance, PTL DEF Spec
===============================================================================
