---------------------------- MODULE ParserProofs ----------------------------
(***************************************************************************)
(* Theorems about the parsers' two modules: ParserRegistry, for every      *)
(* number of threads, IDs, providers and calls, and, behind it,            *)
(* ParseService, for every set of providers, whatever they declare and     *)
(* answer, and every set of batches.                                       *)
(***************************************************************************)
EXTENDS ParserRegistry, ParseService, FiniteSetTheorems, NaturalsInduction, SequenceTheorems, TLAPS

-----------------------------------------------------------------------------
(* ParserRegistry *)

\* Where a call can be, and the lock: the write guard is owned exactly in
\* the two write-locked steps, so owning it excludes every other step.
ControlInv ==
  /\ poisoned = FALSE
  /\ \A t \in Threads :
       /\ writer = t <=> pc[t] \in {"commit", "release"}
       /\ pc[t] \in {"acquire", "commit", "release"} => arg[t] \in Ids
       /\ (pc[t] \in {"build", "recheck"} \/ ret[t] \in {"build", "recheck"})
            => op[t] = "native"
       /\ op[t] = "native" => arg[t] \in Ids /\ kind[t] \in Kinds
       /\ (pc[t] # "idle" /\ op[t] \in {"parse", "unregister"}) => arg[t] \in Ids

\* The type invariant and the lock discipline are inductive together.
LEMMA TypeAndControl == Spec => [](TypeOK /\ ControlInv)
<1> USE NoneAssumption, KindAssumption, MaxGenerationAssumption,
        MaxProvidersAssumption, MaxOpsAssumption
<1>1. Init => TypeOK /\ ControlInv
  <2> SUFFICES ASSUME Init PROVE TypeOK /\ ControlInv
    OBVIOUS
  <2>1. NoEntries \in EntryMaps
    BY DEF NoEntries, EntryMaps
  <2>2. TypeOK
    <3>1. 0 \in 0..MaxGeneration /\ 0 \in 0..MaxProviders /\ 0 \in 0..MaxOps
      OBVIOUS
    <3>2. /\ pc \in [Threads -> Steps] /\ ret \in [Threads -> {"idle", "build", "recheck"}]
          /\ op \in [Threads -> Ops] /\ res \in [Threads -> Results]
      BY DEF Init, Ops, Steps, Results
    <3>3. /\ log \in [0..MaxGeneration -> EntryMaps]
          /\ snapEnt \in [Threads -> EntryMaps] /\ seen \in [Threads -> EntryMaps]
      BY <2>1 DEF Init
    <3>4. QED
      BY <2>1, <3>1, <3>2, <3>3 DEF Init, TypeOK
  <2>3. ControlInv
    BY DEF Init, ControlInv
  <2>4. QED
    BY <2>2, <2>3
<1>2. TypeOK /\ ControlInv /\ [Next]_vars => TypeOK' /\ ControlInv'
  <2> SUFFICES ASSUME TypeOK, ControlInv, [Next]_vars
               PROVE  TypeOK' /\ ControlInv'
    OBVIOUS
  <2> USE DEF TypeOK, ControlInv, Goto, Return, registryVars, lockVars,
              arcVars, callVars, Steps, Results, Ops
  <2>1. ASSUME NEW t \in Threads, NEW o \in Ops, BeginProvide(t, o)
        PROVE  TypeOK' /\ ControlInv'
    BY <2>1, SMTT(30) DEF BeginProvide, NewProvider, Begin, Providers
  <2>2. ASSUME NEW t \in Threads, NEW o \in Ops, NEW i \in Ids \cup {None},
               NEW k \in Kinds \cup {None}, BeginObserve(t, o, i, k)
        PROVE  TypeOK' /\ ControlInv'
    BY <2>2, SMTT(30) DEF BeginObserve, Begin
  <2>3. ASSUME NEW t \in Threads, NEW p \in Providers, NEW d \in Descriptors,
               Described(t, p, d)
        PROVE  TypeOK' /\ ControlInv'
    BY <2>3 DEF Described, Descriptors
  <2>4. ASSUME NEW t \in Threads, NEW r \in Results, DescribeFails(t, r)
        PROVE  TypeOK' /\ ControlInv'
    BY <2>4 DEF DescribeFails
  <2>5. ASSUME NEW t \in Threads, Acquire(t)
        PROVE  TypeOK' /\ ControlInv'
    BY <2>5 DEF Acquire
  <2>6. ASSUME NEW t \in Threads, CommitRegister(t)
        PROVE  TypeOK' /\ ControlInv'
    <3>1. CASE RegisterOutcome(t) = "ok"
      <4>1. PICK p \in Providers \cup {None} : Install(arg[t], p)
        BY <2>6, <3>1 DEF CommitRegister
      <4>2. entries' \in EntryMaps
        BY <4>1 DEF Install, EntryMaps
      <4>3. generation + 1 \in 0..MaxGeneration
        BY <2>6, <3>1 DEF RegisterOutcome
      <4>4. generation' \in 0..MaxGeneration /\ log' \in [0..MaxGeneration -> EntryMaps]
        BY <4>1, <4>2, <4>3 DEF Install
      <4>5. hand' \in [Threads -> SUBSET Providers]
        BY <2>6, <3>1 DEF CommitRegister, CommitFrame, EntryMaps, CasOutcome
      <4>6. QED
        BY <2>6, <3>1, <4>2, <4>4, <4>5 DEF CommitRegister, CommitFrame
    <3>2. CASE RegisterOutcome(t) # "ok"
      <4>1. CommitFrame(t) /\ Fail(t, RegisterOutcome(t))
        BY <2>6, <3>2 DEF CommitRegister
      <4>2. RegisterOutcome(t) \in Results
        BY DEF RegisterOutcome, CasOutcome
      <4>3. QED
        BY <4>1, <4>2 DEF CommitFrame, Fail
    <3>3. QED
      BY <3>1, <3>2
  <2>7. ASSUME NEW t \in Threads, CommitReplace(t)
        PROVE  TypeOK' /\ ControlInv'
    <3>1. CASE CasOutcome(t) = "ok"
      <4>1. PICK p \in Providers \cup {None} : Install(arg[t], p)
        BY <2>7, <3>1 DEF CommitReplace
      <4>2. entries' \in EntryMaps
        BY <4>1 DEF Install, EntryMaps
      <4>3. generation + 1 \in 0..MaxGeneration
        BY <2>7, <3>1 DEF CasOutcome
      <4>4. generation' \in 0..MaxGeneration /\ log' \in [0..MaxGeneration -> EntryMaps]
        BY <4>1, <4>2, <4>3 DEF Install
      <4>5. hand' \in [Threads -> SUBSET Providers]
        <5>1. entries[arg[t]] # None /\ arg[t] \in Ids
          BY <2>7, <3>1 DEF CommitReplace, CommitFrame, CasOutcome
        <5>2. entries[arg[t]] \in Providers
          BY <5>1 DEF EntryMaps
        <5>3. hand' = [hand EXCEPT ![t] = {entries[arg[t]]}]
          BY <2>7, <3>1 DEF CommitReplace
        <5>4. {entries[arg[t]]} \in SUBSET Providers
          BY <5>2
        <5>5. QED
          BY <5>3, <5>4
      <4>6. QED
        BY <2>7, <3>1, <4>2, <4>4, <4>5 DEF CommitReplace, CommitFrame
    <3>2. CASE CasOutcome(t) # "ok"
      BY <2>7, <3>2 DEF CommitReplace, CommitFrame, CasOutcome, Fail
    <3>3. QED
      BY <3>1, <3>2
  <2>8. ASSUME NEW t \in Threads, CommitUnregister(t)
        PROVE  TypeOK' /\ ControlInv'
    <3>1. CASE CasOutcome(t) = "ok"
      <4>1. PICK p \in Providers \cup {None} : Install(arg[t], p)
        BY <2>8, <3>1 DEF CommitUnregister
      <4>2. entries' \in EntryMaps
        BY <4>1 DEF Install, EntryMaps
      <4>3. generation + 1 \in 0..MaxGeneration
        BY <2>8, <3>1 DEF CasOutcome
      <4>4. generation' \in 0..MaxGeneration /\ log' \in [0..MaxGeneration -> EntryMaps]
        BY <4>1, <4>2, <4>3 DEF Install
      <4>5. hand' \in [Threads -> SUBSET Providers]
        <5>1. entries[arg[t]] # None /\ arg[t] \in Ids
          BY <2>8, <3>1 DEF CommitUnregister, CommitFrame, CasOutcome
        <5>2. entries[arg[t]] \in Providers
          BY <5>1 DEF EntryMaps
        <5>3. hand' = [hand EXCEPT ![t] = {entries[arg[t]]}]
          BY <2>8, <3>1 DEF CommitUnregister
        <5>4. {entries[arg[t]]} \in SUBSET Providers
          BY <5>2
        <5>5. QED
          BY <5>3, <5>4
      <4>6. QED
        BY <2>8, <3>1, <4>2, <4>4, <4>5 DEF CommitUnregister, CommitFrame
    <3>2. CASE CasOutcome(t) # "ok"
      BY <2>8, <3>2 DEF CommitUnregister, CommitFrame, CasOutcome, Fail
    <3>3. QED
      BY <3>1, <3>2
  <2>9. ASSUME NEW t \in Threads, Release(t)
        PROVE  TypeOK' /\ ControlInv'
    BY <2>9 DEF Release
  <2>10. ASSUME NEW t \in Threads, SnapshotObserve(t)
         PROVE  TypeOK' /\ ControlInv'
    <3>1. /\ snapGen' \in [Threads -> 0..MaxGeneration]
          /\ snapEnt' \in [Threads -> EntryMaps]
          /\ expected' \in [Threads -> 0..MaxGeneration]
          /\ seen' \in [Threads -> EntryMaps]
      BY <2>10 DEF SnapshotObserve, Capture
    <3>2. Goto(t, "drop") \/ (Goto(t, "acquire") /\ op[t] = "unregister")
      BY <2>10 DEF SnapshotObserve
    <3>3. pc' \in [Threads -> Steps]
      BY <3>2
    <3>4. QED
      BY <2>10, <3>1, <3>2, <3>3 DEF SnapshotObserve
  <2>11. ASSUME NEW t \in Threads, SnapshotParse(t)
         PROVE  TypeOK' /\ ControlInv'
    <3>1. /\ snapGen' \in [Threads -> 0..MaxGeneration]
          /\ snapEnt' \in [Threads -> EntryMaps]
      BY <2>11 DEF SnapshotParse, Capture
    <3>2. \/ Goto(t, "call") /\ UNCHANGED res
          \/ Goto(t, "drop") /\ Return(t, "NoParser")
      BY <2>11 DEF SnapshotParse
    <3>3. pc' \in [Threads -> Steps] /\ res' \in [Threads -> Results]
      BY <3>2
    <3>4. QED
      BY <2>11, <3>1, <3>2, <3>3, SMTT(30) DEF SnapshotParse
  <2>12. ASSUME NEW t \in Threads, SnapshotNative(t)
         PROVE  TypeOK' /\ ControlInv'
    BY <2>12 DEF SnapshotNative, Capture, NativeLookup
  <2>13. ASSUME NEW t \in Threads, CallReturns(t)
         PROVE  TypeOK' /\ ControlInv'
    BY <2>13 DEF CallReturns
  <2>14. ASSUME NEW t \in Threads, NativeProvider(t)
         PROVE  TypeOK' /\ ControlInv'
    BY <2>14, SMTT(30) DEF NativeProvider, NewProvider, Providers, Descriptors
  <2>15. ASSUME NEW t \in Threads, RecheckNative(t)
         PROVE  TypeOK' /\ ControlInv'
    BY <2>15 DEF RecheckNative, Capture
  <2>16. ASSUME NEW t \in Threads, Drop(t)
         PROVE  TypeOK' /\ ControlInv'
    <3>1. NoEntries \in EntryMaps /\ 0 \in 0..MaxGeneration
      BY DEF NoEntries, EntryMaps
    <3>2. ProvidersIn(snapEnt[t]) \subseteq Providers
      BY DEF ProvidersIn, EntryMaps
    <3>3. /\ hand' \in [Threads -> SUBSET Providers]
          /\ dying' \in [Threads -> SUBSET Providers]
          /\ snapEnt' \in [Threads -> EntryMaps]
          /\ snapGen' \in [Threads -> 0..MaxGeneration]
      BY <2>16, <3>1, <3>2 DEF Drop
    <3>4. Goto(t, ret[t]) \/ Goto(t, "reenter") \/ Goto(t, "destroy")
      BY <2>16 DEF Drop
    <3>5. pc[t] = "drop" /\ pc' \in [Threads -> Steps]
      <4>1. pc[t] = "drop"
        BY <2>16 DEF Drop
      <4>2. ret[t] \in Steps /\ pc \in [Threads -> Steps]
        OBVIOUS
      <4>3. QED
        BY <3>4, <4>1, <4>2
    <3>6. QED
      <4>1. PICK step \in {ret[t], "reenter", "destroy"} : pc' = [pc EXCEPT ![t] = step]
        BY <3>4
      <4>2. UNCHANGED <<registryVars, lockVars, arcVars, ret, callVars, expected, seen, res>>
        BY <2>16 DEF Drop
      <4>3. ControlInv'
        BY <3>5, <4>1, <4>2
      <4>4. TypeOK'
        BY <3>3, <3>5, <4>2
      <4>5. QED
        BY <4>3, <4>4
  <2>17. ASSUME NEW t \in Threads, Reenter(t)
         PROVE  TypeOK' /\ ControlInv'
    BY <2>17 DEF Reenter
  <2>18. ASSUME NEW t \in Threads, NEW panics \in BOOLEAN, Destroy(t, panics)
         PROVE  TypeOK' /\ ControlInv'
    <3>1. writer # t /\ writer' = writer /\ poisoned' = FALSE
      BY <2>18 DEF Destroy
    <3>2. QED
      BY <2>18, <3>1 DEF Destroy
  <2>19. CASE UNCHANGED vars
    BY <2>19 DEF vars
  <2> HIDE DEF TypeOK, ControlInv, Goto, Return, registryVars, lockVars,
               arcVars, callVars, Steps, Results, Ops
  <2>20. QED
    BY <2>1, <2>2, <2>3, <2>4, <2>5, <2>6, <2>7, <2>8, <2>9, <2>10, <2>11,
       <2>12, <2>13, <2>14, <2>15, <2>16, <2>17, <2>18, <2>19
    DEF Next, Call, Step
<1>3. QED
  BY <1>1, <1>2, PTL DEF Spec

\* The registry's state stays within its types.
THEOREM TypeCorrectness == Spec => []TypeOK
BY TypeAndControl, PTL

\* Host code never runs under the write lock and never poisons it.
THEOREM HostCodeRunsUnlocked == Spec => []HostCodeUnlocked
<1>1. TypeOK /\ ControlInv => HostCodeUnlocked
  BY DEF ControlInv, HostCodeUnlocked
<1>2. QED
  BY <1>1, TypeAndControl, PTL

-----------------------------------------------------------------------------
(* Generations *)

\* GenerationIdentifiesMap is inductive once the retained generations are
\* known to lie in the past: a commit writes the history only at the next
\* generation, which nobody has observed yet.
GenerationInv ==
  /\ GenerationIdentifiesMap
  /\ \A t \in Threads : snapGen[t] <= generation

\* Which steps touch the registry's map and which touch a snapshot.
LEMMA Footprints ==
  ASSUME [Next]_vars
  PROVE  \/ UNCHANGED <<generation, entries, log, snapGen, snapEnt, expected, seen>>
         \/ \E t \in Threads :
              \/ CommitRegister(t) \/ CommitReplace(t) \/ CommitUnregister(t)
              \/ /\ SnapshotObserve(t) \/ SnapshotParse(t) \/ SnapshotNative(t)
                      \/ RecheckNative(t) \/ Drop(t)
                 /\ UNCHANGED registryVars
<1> USE DEF registryVars
<1>1. ASSUME NEW t \in Threads, Call(t)
      PROVE  UNCHANGED <<generation, entries, log, snapGen, snapEnt, expected, seen>>
  BY <1>1 DEF Call, BeginProvide, BeginObserve, Begin
<1>2. ASSUME NEW t \in Threads, Step(t)
      PROVE  \/ UNCHANGED <<generation, entries, log, snapGen, snapEnt, expected, seen>>
             \/ CommitRegister(t) \/ CommitReplace(t) \/ CommitUnregister(t)
             \/ /\ SnapshotObserve(t) \/ SnapshotParse(t) \/ SnapshotNative(t)
                     \/ RecheckNative(t) \/ Drop(t)
                /\ UNCHANGED registryVars
  <2>1. ASSUME NEW p \in Providers, NEW d \in Descriptors, Described(t, p, d)
        PROVE  UNCHANGED <<generation, entries, log, snapGen, snapEnt, expected, seen>>
    BY <2>1 DEF Described
  <2>2. ASSUME NEW r \in Results, DescribeFails(t, r)
        PROVE  UNCHANGED <<generation, entries, log, snapGen, snapEnt, expected, seen>>
    BY <2>2 DEF DescribeFails
  <2>3. CASE Acquire(t) \/ Release(t) \/ CallReturns(t) \/ NativeProvider(t) \/ Reenter(t)
    BY <2>3 DEF Acquire, Release, CallReturns, NativeProvider, Reenter
  <2>4. ASSUME NEW p \in BOOLEAN, Destroy(t, p)
        PROVE  UNCHANGED <<generation, entries, log, snapGen, snapEnt, expected, seen>>
    BY <2>4 DEF Destroy
  <2>5. CASE SnapshotObserve(t) \/ SnapshotParse(t) \/ SnapshotNative(t)
               \/ RecheckNative(t) \/ Drop(t)
    BY <2>5 DEF SnapshotObserve, SnapshotParse, SnapshotNative, RecheckNative, Drop
  <2>6. QED
    BY <1>2, <2>1, <2>2, <2>3, <2>4, <2>5 DEF Step
<1>3. QED
  BY <1>1, <1>2 DEF Next, vars

\* A successful write files the new map under the next generation.
LEMMA InstallKeepsHistory ==
  ASSUME TypeOK, GenerationInv, NEW i \in Ids,
         NEW p \in Providers \cup {None}, Install(i, p),
         generation # MaxGeneration,
         UNCHANGED <<snapGen, snapEnt, expected, seen>>
  PROVE  GenerationInv'
<1> USE MaxGenerationAssumption
<1>1. generation + 1 \in 0..MaxGeneration /\ generation' = generation + 1
  BY DEF TypeOK, Install
<1>2. log'[generation'] = entries'
  BY <1>1 DEF TypeOK, Install
<1>3. \A g \in 0..generation : log'[g] = log[g]
  BY <1>1 DEF TypeOK, Install
<1>4. QED
  BY <1>1, <1>2, <1>3 DEF TypeOK, GenerationInv, GenerationIdentifiesMap

LEMMA GenerationInvariant == Spec => []GenerationInv
<1> USE NoneAssumption, MaxGenerationAssumption
<1>1. Init => GenerationInv
  BY DEF Init, GenerationInv, GenerationIdentifiesMap
<1>2. TypeOK /\ ControlInv /\ GenerationInv /\ [Next]_vars => GenerationInv'
  <2> SUFFICES ASSUME TypeOK, ControlInv, GenerationInv, [Next]_vars
               PROVE  GenerationInv'
    OBVIOUS
  <2> USE DEF registryVars
  <2>1. CASE UNCHANGED <<generation, entries, log, snapGen, snapEnt, expected, seen>>
    BY <2>1 DEF GenerationInv, GenerationIdentifiesMap
  <2>2. ASSUME NEW t \in Threads,
               CommitRegister(t) \/ CommitReplace(t) \/ CommitUnregister(t)
        PROVE  GenerationInv'
    <3>1. arg[t] \in Ids
      BY <2>2 DEF CommitRegister, CommitReplace, CommitUnregister,
                  CommitFrame, ControlInv
    <3>2. UNCHANGED <<snapGen, snapEnt, expected, seen>>
      BY <2>2 DEF CommitRegister, CommitReplace, CommitUnregister, CommitFrame
    <3>3. CASE UNCHANGED registryVars
      BY <3>2, <3>3, <2>1
    <3>4. CASE /\ generation # MaxGeneration
               /\ \E p \in Providers \cup {None} : Install(arg[t], p)
      BY <3>1, <3>2, <3>4, InstallKeepsHistory
    <3>5. QED
      <4>1. hand[t] \subseteq Providers
        BY DEF TypeOK
      <4>2. CASE CommitRegister(t)
        BY <4>1, <4>2, <3>3, <3>4 DEF CommitRegister, RegisterOutcome, Fail
      <4>3. CASE CommitReplace(t)
        BY <4>1, <4>3, <3>3, <3>4 DEF CommitReplace, CasOutcome, Fail
      <4>4. CASE CommitUnregister(t)
        BY <4>4, <3>3, <3>4 DEF CommitUnregister, CasOutcome, Fail
      <4>5. QED
        BY <2>2, <4>2, <4>3, <4>4
  <2>3. ASSUME NEW t \in Threads, SnapshotObserve(t)
        PROVE  GenerationInv'
    <3>1. /\ UNCHANGED <<generation, entries, log>>
          /\ snapGen' = [snapGen EXCEPT ![t] = generation]
          /\ snapEnt' = [snapEnt EXCEPT ![t] = entries]
          /\ expected' = [expected EXCEPT ![t] = generation]
          /\ seen' = [seen EXCEPT ![t] = entries]
      BY <2>3 DEF SnapshotObserve, Capture
    <3>2. \A u \in Threads :
            \/ /\ u = t
               /\ snapGen'[u] = generation /\ snapEnt'[u] = entries
               /\ expected'[u] = generation /\ seen'[u] = entries
            \/ /\ u # t
               /\ snapGen'[u] = snapGen[u] /\ snapEnt'[u] = snapEnt[u]
               /\ expected'[u] = expected[u] /\ seen'[u] = seen[u]
      BY <3>1 DEF TypeOK
    <3>3. generation <= generation
      BY DEF TypeOK
    <3>4. QED
      BY <3>1, <3>2, <3>3 DEF GenerationInv, GenerationIdentifiesMap
  <2>4. ASSUME NEW t \in Threads,
               SnapshotParse(t) \/ SnapshotNative(t) \/ RecheckNative(t)
        PROVE  GenerationInv'
    <3>1. /\ UNCHANGED <<generation, entries, log, expected, seen>>
          /\ snapGen' = [snapGen EXCEPT ![t] = generation]
          /\ snapEnt' = [snapEnt EXCEPT ![t] = entries]
      BY <2>4 DEF SnapshotParse, SnapshotNative, RecheckNative, Capture
    <3>2. \A u \in Threads :
            \/ u = t /\ snapGen'[u] = generation /\ snapEnt'[u] = entries
            \/ u # t /\ snapGen'[u] = snapGen[u] /\ snapEnt'[u] = snapEnt[u]
      BY <3>1 DEF TypeOK
    <3>3. generation <= generation
      BY DEF TypeOK
    <3>4. QED
      BY <3>1, <3>2, <3>3 DEF GenerationInv, GenerationIdentifiesMap
  <2>5. ASSUME NEW t \in Threads, Drop(t)
        PROVE  GenerationInv'
    BY <2>5 DEF Drop, GenerationInv, GenerationIdentifiesMap, TypeOK
  <2>6. QED
    BY <2>1, <2>2, <2>3, <2>4, <2>5, Footprints
<1>3. QED
  BY <1>1, <1>2, TypeAndControl, PTL DEF Spec

\* A generation number names one registry content for ever.
THEOREM GenerationsIdentifyMaps == Spec => []GenerationIdentifiesMap
<1>1. GenerationInv => GenerationIdentifiesMap
  BY DEF GenerationInv
<1>2. QED
  BY <1>1, GenerationInvariant, PTL

\* replace and unregister never overwrite a registration their caller has
\* not observed.
THEOREM UpdatesAreNotLost == Spec => NoLostUpdate
<1> DEFINE Observed == \A t \in Threads :
      (pc[t] = "commit" /\ op[t] \in {"replace", "unregister"} /\ entries' # entries)
        => entries = seen[t]
<1>1. TypeOK /\ ControlInv /\ GenerationInv /\ [Next]_vars => [Observed]_vars
  <2> SUFFICES ASSUME TypeOK, ControlInv, GenerationInv, Next,
                      NEW t \in Threads, pc[t] = "commit",
                      op[t] \in {"replace", "unregister"}, entries' # entries
               PROVE  entries = seen[t]
    BY DEF vars
  <2>1. PICK u \in Threads :
          CommitRegister(u) \/ CommitReplace(u) \/ CommitUnregister(u)
    BY Footprints DEF registryVars
  <2>2. u = t
    <3>1. writer = u
      BY <2>1 DEF CommitRegister, CommitReplace, CommitUnregister, CommitFrame
    <3>2. writer = t
      BY DEF ControlInv
    <3>3. QED
      BY <3>1, <3>2
  <2>3. generation = expected[t]
    BY <2>1, <2>2 DEF CommitRegister, CommitReplace, CommitUnregister,
                      CasOutcome, Fail, registryVars
  <2>4. QED
    BY <2>3 DEF GenerationInv, GenerationIdentifiesMap
<1>2. QED
  BY <1>1, TypeAndControl, GenerationInvariant, PTL DEF Spec, NoLostUpdate

-----------------------------------------------------------------------------
(* The locked registry implements the atomic one *)

\* Every write-locked section is one atomic step of VersionedRegistry, and
\* every other step leaves generation and map alone.
THEOREM RegistryIsLinearizable == Spec => ImplementsVersionedRegistry
<1> USE NoneAssumption, MaxGenerationAssumption
<1>1. Init => Linearized!Init
  BY DEF Init, Linearized!Init, NoEntries
<1>2. TypeOK /\ ControlInv /\ [Next]_vars
        => [Linearized!Next]_<<generation, entries>>
  <2> SUFFICES ASSUME TypeOK, ControlInv, [Next]_vars,
                      ~UNCHANGED <<generation, entries>>
               PROVE  Linearized!Next
    OBVIOUS
  <2>1. PICK t \in Threads :
          CommitRegister(t) \/ CommitReplace(t) \/ CommitUnregister(t)
    BY Footprints DEF registryVars
  <2>2. arg[t] \in Ids /\ hand[t] \subseteq Providers
    BY <2>1 DEF CommitRegister, CommitReplace, CommitUnregister, CommitFrame,
                ControlInv, TypeOK
  <2>3. CASE CommitRegister(t)
    <3>1. PICK p \in Providers : Install(arg[t], p)
      BY <2>2, <2>3 DEF CommitRegister, Fail, registryVars
    <3>2. entries[arg[t]] = None /\ generation # MaxGeneration
      BY <2>3 DEF CommitRegister, RegisterOutcome, Fail, registryVars
    <3>3. Linearized!Add(arg[t], p)
      BY <3>1, <3>2 DEF Linearized!Add, Linearized!Advance, Install, TypeOK
    <3>4. QED
      BY <2>2, <3>3 DEF Linearized!Next
  <2>4. CASE CommitReplace(t)
    <3>1. PICK p \in Providers : Install(arg[t], p)
      BY <2>2, <2>4 DEF CommitReplace, Fail, registryVars
    <3>2. entries[arg[t]] # None /\ generation # MaxGeneration
      BY <2>4 DEF CommitReplace, CasOutcome, Fail, registryVars
    <3>3. Linearized!Swap(arg[t], p)
      BY <3>1, <3>2 DEF Linearized!Swap, Linearized!Advance, Install, TypeOK
    <3>4. QED
      BY <2>2, <3>3 DEF Linearized!Next
  <2>5. CASE CommitUnregister(t)
    <3>1. Install(arg[t], None)
      BY <2>5 DEF CommitUnregister, Fail, registryVars
    <3>2. entries[arg[t]] # None /\ generation # MaxGeneration
      BY <2>5 DEF CommitUnregister, CasOutcome, Fail, registryVars
    <3>3. Linearized!Remove(arg[t])
      BY <3>1, <3>2 DEF Linearized!Remove, Linearized!Advance, Install, TypeOK
    <3>4. QED
      BY <2>2, <3>3 DEF Linearized!Next
  <2>6. QED
    BY <2>1, <2>3, <2>4, <2>5
<1>3. QED
  BY <1>1, <1>2, TypeAndControl, PTL DEF Spec, ImplementsVersionedRegistry, Linearized!Spec

-----------------------------------------------------------------------------
(* ParseService.  A success is explained by three things that were settled *)
(* at different times: the admission that made request IDs unique, the     *)
(* probes behind each selection, and the check of each group's outputs.    *)
(* ParseInv carries them to the end of the operation.                      *)

\* The admission a batch has passed.
ValidBatch == Len(batch) \in 1..MaxBatchItems /\ BatchError(batch) = "ok"

Admitted ==
  /\ phase \notin {"admit", "done"} => ValidBatch
  /\ phase # "done" => outcome = "running"

\* Where the operation is in its batch, and whose callback is running.
Progress ==
  /\ phase \in {"admit", "begin", "select", "probing"} => DOMAIN results = {}
  /\ phase = "admit" => cur = 1
  /\ phase \in {"begin", "select", "probing"} => cur <= Len(batch)
  /\ phase \in {"dispatch", "parsing"} => cur = Len(batch) + 1
  /\ phase \in {"probing", "parsing"} => target \in Backends

\* A candidate that was found eligible by its declaration, and probed.
Vetted(b) == <<cur, b>> \in probes /\ StaticallyEligible(batch[cur], b)

Vetting ==
  /\ \A i \in DOMAIN chosen : /\ <<i, chosen[i]>> \in probes
                              /\ batch[i].explicit \in {NoId, chosen[i]}
  /\ \A b \in eligible : Vetted(b)
  /\ phase = "probing" => Vetted(target)

\* Every result is of a request in the group of the backend that returned it.
Answered == \A x \in DOMAIN results : x \in Group(results[x])

ParseInv ==
  /\ ParseTypeOK /\ Admitted /\ Progress /\ Vetting /\ Answered
  /\ LateAnswersDiscarded /\ NoCallbackForInvalidBatch /\ ResultsMatchSelection

-----------------------------------------------------------------------------
(* The choices the code makes by order exist *)

LEMMA LeastNumber ==
  ASSUME NEW T \in SUBSET Nat, T # {}
  PROVE  \E x \in T : \A y \in T : x <= y
<1> DEFINE R == {ss \in Nat \X Nat : ss[1] < ss[2]}
<1>1. IsWellFoundedOn(R, Nat)
  BY NatLessThanWellFounded DEF OpToRel
<1>2. PICK x \in T : \A y \in T : ~(<<y, x>> \in R)
  <2> HIDE DEF R
  <2> QED BY <1>1, WFMin
<1>3. \A y \in T : x <= y
  <2> TAKE y \in T
  <2>1. x \in Nat /\ y \in Nat
    OBVIOUS
  <2>2. y < x => <<y, x>> \in R
    BY <2>1
  <2> HIDE DEF R
  <2> QED BY <2>1, <2>2, <1>2
<1> QED BY <1>3

LEMMA PositionType ==
  ASSUME NEW s \in Seq(Nat), NEW b
  PROVE  Position(s, b) \in Nat
<1>1. CASE \E i \in DOMAIN s : s[i] = b
  BY <1>1 DEF Position
<1>2. CASE ~ \E i \in DOMAIN s : s[i] = b
  BY <1>2 DEF Position
<1> QED BY <1>1, <1>2

\* The candidate order decides between any two backends, and is transitive.
LEMMA BeforeIsOrder ==
  ASSUME NEW r \in Requests, NEW a \in Backends, NEW b \in Backends
  PROVE  /\ a # b => Before(r, a, b) \/ Before(r, b, a)
         /\ \A c \in Backends : Before(r, a, b) /\ Before(r, b, c) => Before(r, a, c)
<1>1. \A x \in Backends : /\ Position(r.preference, x) \in Nat
                          /\ Position(Profile[r.lang], x) \in Nat
                          /\ Descriptor[x].priority \in Int
                          /\ x \in Nat
  BY PositionType, RequestsAssumption, BackendsAssumption
<1> QED BY <1>1 DEF Before

\* Any nonempty set of candidates has a first one.
LEMMA FirstCandidate ==
  ASSUME NEW r \in Requests, NEW E \in SUBSET Backends, E # {}
  PROVE  \E b \in E : \A c \in E \ {b} : Before(r, b, c)
<1> DEFINE T == {U \in SUBSET E : U # {} /\ \A x \in E \ U : \E y \in U : Before(r, y, x)}
           R == StrictSubsetOrdering(E)
<1>1. IsFiniteSet(E)
  BY BackendsAssumption, FS_Subset
<1>2. IsWellFoundedOn(R, SUBSET E)
  BY <1>1, FS_StrictSubsetOrderingWellFounded, FS_FiniteSubsetsOfFinite
<1>3. E \in T /\ T \subseteq SUBSET E
  OBVIOUS
<1>4. PICK U \in T : \A V \in T : ~(<<V, U>> \in R)
  <2>1. T # {}
    BY <1>3
  <2> HIDE DEF R, T
  <2> QED BY <1>2, <1>3, <2>1, WFMin
<1>5. PICK b \in U : TRUE
  OBVIOUS
<1>6. U = {b}
  <2>1. SUFFICES ASSUME NEW c \in U, c # b PROVE FALSE
    BY <1>5
  <2>2. ASSUME NEW d \in U, NEW e \in U, d # e, Before(r, d, e) PROVE FALSE
    <3>1. U \ {e} \in SUBSET E /\ d \in U \ {e}
      BY <2>2
    <3>2. \A x \in E \ (U \ {e}) : \E y \in U \ {e} : Before(r, y, x)
      <4> TAKE x \in E \ (U \ {e})
      <4>1. CASE x = e
        BY <2>2, <3>1, <4>1
      <4>2. CASE x # e
        <5>1. PICK y \in U : Before(r, y, x)
          BY <4>2
        <5>2. CASE y # e
          BY <5>1, <5>2
        <5>3. CASE y = e
          <6>1. d \in Backends /\ e \in Backends /\ x \in Backends
            OBVIOUS
          <6>2. Before(r, d, x)
            BY <2>2, <5>1, <5>3, <6>1, BeforeIsOrder
          <6> QED BY <3>1, <6>2
        <5> QED BY <5>2, <5>3
      <4> QED BY <4>1, <4>2
    <3>3. U \ {e} \in T
      BY <3>1, <3>2
    <3>4. <<U \ {e}, U>> \in R
      BY <2>2, <3>1 DEF StrictSubsetOrdering
    <3> QED BY <1>4, <3>3, <3>4
  <2>3. b \in Backends /\ c \in Backends
    OBVIOUS
  <2>4. Before(r, b, c) \/ Before(r, c, b)
    BY <2>1, <2>3, BeforeIsOrder
  <2> QED BY <2>1, <2>2, <2>4
<1>7. \A c \in E \ {b} : Before(r, b, c)
  BY <1>6
<1> QED BY <1>5, <1>7

LEMMA NextIsLeft ==
  ASSUME examined \subseteq Backends, examined # Backends
  PROVE  NextBackend \in Backends \ examined
<1>1. Backends \ examined \in SUBSET Nat /\ Backends \ examined # {}
  BY BackendsAssumption
<1> QED BY <1>1, LeastNumber DEF NextBackend

-----------------------------------------------------------------------------
(* What the validations establish *)

\* An error is one the operation can return.
LEMMA BatchErrorType ==
  ASSUME NEW reqs
  PROVE  BatchError(reqs) \in {"ok", "InvalidRequest", "Source"}
<1>1. \A i : RequestError(reqs, i) \in {"ok", "InvalidRequest", "Source"}
  BY DEF RequestError
<1> QED BY <1>1 DEF BatchError

\* In an admitted batch no two requests have the same ID.
LEMMA AdmittedIdsDiffer ==
  ASSUME NEW reqs \in Batches, BatchError(reqs) = "ok",
         NEW i \in DOMAIN reqs, NEW j \in DOMAIN reqs, reqs[i].rid = reqs[j].rid
  PROVE  i = j
<1>0. reqs \in Seq(Requests) /\ DOMAIN reqs = 1..Len(reqs) /\ Len(reqs) \in Nat
  BY RequestsAssumption
<1> DEFINE bad == {k \in DOMAIN reqs : RequestError(reqs, k) # "ok"}
<1>1. bad = {}
  <2>1. SUFFICES ASSUME bad # {} PROVE FALSE
    OBVIOUS
  <2>2. bad \in SUBSET Nat
    BY <1>0
  <2>3. (CHOOSE k \in bad : \A l \in bad : k <= l) \in bad
    <3> HIDE DEF bad
    <3> QED BY <2>1, <2>2, LeastNumber
  <2> QED BY <2>1, <2>3 DEF BatchError
<1>2. ASSUME NEW k \in DOMAIN reqs, NEW l \in DOMAIN reqs, k < l
      PROVE  reqs[k].rid # reqs[l].rid
  <2>1. RequestError(reqs, l) = "ok"
    BY <1>1
  <2>2. reqs[l].rid \notin RequestIdsOf(SubSeq(reqs, 1, l - 1))
    BY <2>1 DEF RequestError
  <2>3. k \in DOMAIN SubSeq(reqs, 1, l - 1) /\ SubSeq(reqs, 1, l - 1)[k] = reqs[k]
    BY <1>0, <1>2, SubSeqProperties
  <2> QED BY <2>2, <2>3 DEF RequestIdsOf
<1>3. i \in Nat /\ j \in Nat
  BY <1>0
<1> QED BY <1>2, <1>3

\* Accepted outputs carry request IDs of the group only.
LEMMA AcceptedOutputs ==
  ASSUME NEW b, NEW outputs \in OutputSeqs
  PROVE  /\ OutputError(b, outputs) \in {"ok", "InvalidBatch", "InvalidResult"}
         /\ OutputError(b, outputs) = "ok" => RequestIdsOf(outputs) \subseteq Group(b)
<1> DEFINE expectedAt(i) == Group(b) \ {outputs[j].rid : j \in 1..(i - 1)}
           ErrorAt(i) == IF outputs[i].rid \notin expectedAt(i) THEN "InvalidBatch"
                         ELSE IF ~outputs[i].valid THEN "InvalidResult" ELSE "ok"
           bad == {i \in DOMAIN outputs : ErrorAt(i) # "ok"}
<1>1. \A i : ErrorAt(i) \in {"ok", "InvalidBatch", "InvalidResult"}
  OBVIOUS
<1>2. OutputError(b, outputs) =
        IF Len(outputs) # Cardinality(Group(b)) THEN "InvalidBatch"
        ELSE IF bad = {} THEN "ok"
        ELSE ErrorAt(CHOOSE i \in bad : \A j \in bad : i <= j)
  BY DEF OutputError
<1>3. bad \in SUBSET Nat
  BY DEF OutputSeqs
<1>4. bad # {} => ErrorAt(CHOOSE i \in bad : \A j \in bad : i <= j) # "ok"
  <2>1. ASSUME bad # {} PROVE (CHOOSE i \in bad : \A j \in bad : i <= j) \in bad
    <3> HIDE DEF bad
    <3> QED BY <2>1, <1>3, LeastNumber
  <2> QED BY <2>1
<1>5. bad = {} => \A i \in DOMAIN outputs : outputs[i].rid \in Group(b)
  OBVIOUS
<1> HIDE DEF ErrorAt, bad
<1> QED BY <1>1, <1>2, <1>4, <1>5 DEF RequestIdsOf

-----------------------------------------------------------------------------
(* The steps, by what they do to the operation *)

operation == <<batch, phase, cur, examined, eligible, target, chosen, served, results,
        outcome, probes, parses, late>>

\* The operation ends with an error; after a late callback, with the
\* control's.
Fails ==
  /\ phase # "done" /\ phase' = "done"
  /\ outcome' \in Outcomes \ {"running", "ok"} /\ results' = <<>>
  /\ \/ late' = late
     \/ late' \in BOOLEAN /\ outcome' \in {"Cancelled", "DeadlineExceeded"}
  /\ examined' \subseteq Backends /\ eligible' \subseteq examined' /\ eligible' \subseteq eligible
  /\ target' \in {target, NoId}
  /\ UNCHANGED <<batch, cur, chosen, served, probes, parses>>

Admits ==
  /\ phase = "admit" /\ phase' = "begin" /\ ValidBatch
  /\ UNCHANGED <<batch, cur, examined, eligible, target, chosen, served, results,
                 outcome, probes, parses, late>>

Begins ==
  /\ phase = "begin" /\ phase' = "select"
  /\ UNCHANGED <<batch, cur, examined, eligible, target, chosen, served, results,
                 outcome, probes, parses, late>>

Rejects(b) ==
  /\ phase = "select" /\ examined' = examined \cup {b}
  /\ UNCHANGED <<batch, phase, cur, eligible, target, chosen, served, results,
                 outcome, probes, parses, late>>

Probes(b) ==
  /\ phase = "select" /\ phase' = "probing" /\ target' = b
  /\ StaticallyEligible(batch[cur], b) /\ probes' = probes \cup {<<cur, b>>}
  /\ UNCHANGED <<batch, cur, examined, eligible, chosen, served, results, outcome,
                 parses, late>>

Vets ==
  /\ phase = "probing" /\ phase' = "select" /\ target' = NoId
  /\ examined' = examined \cup {target}
  /\ eligible' \in {eligible, eligible \cup {target}}
  /\ UNCHANGED <<batch, cur, chosen, served, results, outcome, probes, parses, late>>

Chooses(b) ==
  /\ phase = "select" /\ b \in eligible
  /\ chosen' = Append(chosen, b) /\ cur' = cur + 1
  /\ phase' = IF cur = Len(batch) THEN "dispatch" ELSE "begin"
  /\ examined' = {} /\ eligible' = {}
  /\ UNCHANGED <<batch, target, served, results, outcome, probes, parses, late>>

Dispatches(b) ==
  /\ phase = "dispatch" /\ phase' = "parsing" /\ b \in Selected
  /\ target' = b /\ parses' = Append(parses, b)
  /\ UNCHANGED <<batch, cur, examined, eligible, chosen, served, results, outcome,
                 probes, late>>

Collects(outputs) ==
  /\ phase = "parsing" /\ phase' = "dispatch" /\ target' = NoId
  /\ RequestIdsOf(outputs) \subseteq Group(target) /\ RequestIdsOf(outputs) \subseteq RequestIds
  /\ served' = served \cup {target}
  /\ results' = Collect(target, outputs)
  /\ UNCHANGED <<batch, cur, examined, eligible, chosen, outcome, probes, parses, late>>

Finishes ==
  /\ phase = "dispatch" /\ phase' = "done"
  /\ \/ outcome' = "InvalidRequest"
     \/ outcome' = "ok" /\ \A i \in DOMAIN batch : batch[i].rid \in DOMAIN results
  /\ UNCHANGED <<batch, cur, examined, eligible, target, chosen, served, results,
                 probes, parses, late>>

ServiceStep ==
  \/ UNCHANGED operation \/ Fails \/ Admits \/ Begins \/ Vets \/ Finishes
  \/ \E b \in Backends : Rejects(b) \/ Probes(b) \/ Chooses(b) \/ Dispatches(b)
  \/ \E outputs \in OutputSeqs : Collects(outputs)

LEMMA StepCases ==
  ASSUME ParseTypeOK, Admitted, Progress, [ParseNext]_parseVars
  PROVE  ServiceStep
<1>0. CheckError \in Outcomes \ {"running", "ok"} /\ CheckError \in {"Cancelled", "DeadlineExceeded"}
  BY DEF CheckError, Outcomes
<1>1. CASE Cancel \/ Expire \/ UNCHANGED parseVars
  BY <1>1 DEF Cancel, Expire, parseVars, operation, ServiceStep
<1>2. CASE Admit
  <2>1. batch \in Seq(Requests) /\ Len(batch) \in Nat
    BY RequestsAssumption DEF ParseTypeOK
  <2>2. batch # <<>> => Len(batch) >= 1
    BY <2>1, EmptySeq
  <2> DEFINE error == IF Fired THEN CheckError
                      ELSE IF batch = <<>> THEN "InvalidRequest"
                      ELSE IF Len(batch) > MaxBatchItems THEN "LimitExceeded"
                      ELSE BatchError(batch)
  <2>3. error = "ok" => Admits
    <3>1. error = "ok" => ValidBatch
      BY <1>0, <2>1, <2>2, LimitsAssumption DEF ValidBatch
    <3>2. error = "ok" => phase' = "begin" /\ UNCHANGED <<outcome, results>>
      BY <1>2 DEF Admit
    <3> QED BY <1>2, <3>1, <3>2 DEF Admit, Admits
  <2>4. error # "ok" => Fails
    <3>1. error \in Outcomes \ {"running"}
      BY <1>0, BatchErrorType DEF Outcomes
    <3>2. error # "ok" => FailWith(error)
      BY <1>2 DEF Admit
    <3> HIDE DEF error
    <3>3. ASSUME error # "ok" PROVE outcome' = error /\ phase' = "done" /\ results' = <<>>
      BY <3>2, <3>3 DEF FailWith
    <3> QED BY <1>2, <3>1, <3>3 DEF Admit, Fails, ParseTypeOK
  <2> QED BY <2>3, <2>4 DEF ServiceStep
<1>3. CASE BeginSelection
  <2>1. CASE Fired
    BY <1>0, <1>3, <2>1 DEF BeginSelection, FailWith, Fails, ParseTypeOK, ServiceStep
  <2>2. CASE ~Fired
    BY <1>3, <2>2 DEF BeginSelection, Begins, ServiceStep
  <2> QED BY <2>1, <2>2
<1>4. CASE Examine
  <2>1. NextBackend \in Backends
    BY <1>4, NextIsLeft DEF Examine, ParseTypeOK
  <2>2. CASE ~StaticallyEligible(batch[cur], NextBackend)
    <3>1. Rejects(NextBackend)
      BY <1>4, <2>2 DEF Examine, Rejects
    <3> QED BY <2>1, <3>1 DEF ServiceStep
  <2>3. CASE StaticallyEligible(batch[cur], NextBackend) /\ Fired
    BY <1>0, <1>4, <2>3 DEF Examine, FailWith, Fails, ParseTypeOK, ServiceStep
  <2>4. CASE StaticallyEligible(batch[cur], NextBackend) /\ ~Fired
    <3>1. Probes(NextBackend)
      BY <1>4, <2>4 DEF Examine, Probes
    <3> QED BY <2>1, <3>1 DEF ServiceStep
  <2> QED BY <2>2, <2>3, <2>4
<1>5. CASE Choose
  <2>1. CASE eligible = {}
    <3>1. "Selection" \in Outcomes \ {"running", "ok"}
      BY DEF Outcomes
    <3>2. Fails
      BY <1>5, <2>1, <3>1 DEF Choose, FailWith, Fails, ParseTypeOK
    <3> QED BY <3>2 DEF ServiceStep
  <2>2. CASE eligible # {}
    <3> DEFINE b == CHOOSE x \in eligible : \A c \in eligible \ {x} : Before(batch[cur], x, c)
    <3>1. batch[cur] \in Requests
      BY <1>5, RequestsAssumption DEF Choose, Progress, ParseTypeOK
    <3>2. eligible \in SUBSET Backends
      BY DEF ParseTypeOK
    <3>3. b \in eligible
      BY <2>2, <3>1, <3>2, FirstCandidate
    <3>4. Chooses(b)
      <4>1. /\ chosen' = Append(chosen, b) /\ cur' = cur + 1
            /\ phase' = IF cur = Len(batch) THEN "dispatch" ELSE "begin"
            /\ UNCHANGED <<outcome, results>>
        BY <1>5, <2>2 DEF Choose
      <4> HIDE DEF b
      <4> QED BY <1>5, <3>3, <4>1 DEF Choose, Chooses
    <3> QED BY <3>2, <3>3, <3>4 DEF ServiceStep
  <2> QED BY <2>1, <2>2
<1>6. CASE Dispatch
  <2>1. CASE Fired
    BY <1>0, <1>6, <2>1 DEF Dispatch, FailWith, Fails, ParseTypeOK, ServiceStep
  <2>2. CASE ~Fired
    <3> DEFINE b == CHOOSE x \in Pending : \A y \in Pending : x <= y
    <3>1. Selected \subseteq Backends /\ Pending \subseteq Selected
      BY DEF Selected, Pending, ParseTypeOK
    <3>2. Pending \in SUBSET Nat /\ Pending # {}
      BY <1>6, <3>1, BackendsAssumption DEF Dispatch
    <3>3. b \in Pending
      BY <3>2, LeastNumber
    <3>4. phase' = "parsing" /\ target' = b /\ parses' = Append(parses, b) /\ UNCHANGED <<outcome, results>>
      BY <1>6, <2>2 DEF Dispatch
    <3> HIDE DEF b
    <3>5. Dispatches(b)
      BY <1>6, <3>1, <3>3, <3>4 DEF Dispatch, Dispatches
    <3> QED BY <3>1, <3>3, <3>5 DEF ServiceStep
  <2> QED BY <2>1, <2>2
<1>7. CASE Finish
  <2>1. CASE Fired
    BY <1>0, <1>7, <2>1 DEF Finish, FailWith, Fails, ParseTypeOK, ServiceStep
  <2>2. CASE ~Fired
    BY <1>7, <2>2 DEF Finish, Finishes, ServiceStep
  <2> QED BY <2>1, <2>2
<1>8. ASSUME NEW usable \in BOOLEAN, ProbeReturns(usable) PROVE ServiceStep
  <2>1. CASE Fired
    <3>1. late' \in BOOLEAN
      BY <1>8, <2>1 DEF ProbeReturns
    <3> QED BY <1>0, <1>8, <2>1, <3>1 DEF ProbeReturns, FailWith, Fails, ParseTypeOK, ServiceStep
  <2>2. CASE ~Fired
    <3>1. late' = late
      BY <1>8, <2>2 DEF ProbeReturns, ParseTypeOK
    <3> QED BY <1>8, <2>2, <3>1 DEF ProbeReturns, Vets, ServiceStep
  <2> QED BY <2>1, <2>2
<1>9. ASSUME NEW answer \in Answers, NEW outputs \in OutputSeqs, ParseReturns(answer, outputs)
      PROVE  ServiceStep
  <2>1. CASE Fired
    <3>1. late' \in BOOLEAN
      BY <1>9, <2>1 DEF ParseReturns
    <3>2. FailWith(CheckError)
      BY <1>0, <1>9, <2>1 DEF ParseReturns
    <3> QED BY <1>0, <1>9, <3>1, <3>2 DEF ParseReturns, FailWith, Fails, ParseTypeOK, ServiceStep
  <2>2. CASE ~Fired
    <3>1. late' = late
      BY <1>9, <2>2 DEF ParseReturns, ParseTypeOK
    <3> DEFINE error == IF answer # "outputs" THEN answer ELSE OutputError(target, outputs)
    <3>2. error \in Outcomes \ {"running"}
      BY AcceptedOutputs DEF Answers, Outcomes
    <3>3. CASE error # "ok"
      <4>1. FailWith(error)
        BY <1>9, <2>2, <3>3 DEF ParseReturns
      <4> HIDE DEF error
      <4>2. outcome' = error /\ phase' = "done" /\ results' = <<>> /\ UNCHANGED served
        BY <1>9, <2>2, <3>3, <4>1 DEF ParseReturns, FailWith, error
      <4>3. Fails
        BY <1>9, <3>1, <3>2, <3>3, <4>2 DEF ParseReturns, Fails, ParseTypeOK
      <4> QED BY <4>3 DEF ServiceStep
    <3>4. CASE error = "ok"
      <4>1. OutputError(target, outputs) = "ok"
        BY <3>4 DEF Answers
      <4>2. RequestIdsOf(outputs) \subseteq Group(target)
        BY <4>1, AcceptedOutputs
      <4>3. RequestIdsOf(outputs) \subseteq RequestIds
        BY DEF RequestIdsOf, OutputSeqs, Outputs
      <4>4. phase' = "dispatch" /\ served' = served \cup {target}
            /\ results' = Collect(target, outputs) /\ UNCHANGED outcome
        BY <1>9, <2>2, <3>4 DEF ParseReturns
      <4>5. Collects(outputs)
        BY <1>9, <3>1, <4>2, <4>3, <4>4 DEF ParseReturns, Collects
      <4> QED BY <4>5 DEF ServiceStep
    <3> QED BY <3>3, <3>4
  <2> QED BY <2>1, <2>2
<1> QED BY <1>1, <1>2, <1>3, <1>4, <1>5, <1>6, <1>7, <1>8, <1>9 DEF ParseNext, Run, CallbackReturns

-----------------------------------------------------------------------------
(* Each part of the invariant, step by step *)

LEMMA BatchIsSeq ==
  ASSUME ParseTypeOK
  PROVE  /\ batch \in Seq(Requests) /\ Len(batch) \in Nat
         /\ DOMAIN batch = 1..Len(batch) /\ DOMAIN chosen = 1..(cur - 1)
  BY RequestsAssumption DEF ParseTypeOK

LEMMA ParseInitInv == ParseInit => ParseInv
<1> SUFFICES ASSUME ParseInit PROVE ParseInv
  OBVIOUS
<1>1. batch \in Seq(Requests) /\ Len(batch) \in Nat
  BY RequestsAssumption DEF ParseInit
<1>2. chosen \in Seq(Backends) /\ Len(chosen) = 0 /\ DOMAIN chosen = {}
  BY DEF ParseInit
<1>3. DOMAIN results = {} /\ parses \in Seq(Backends)
  BY DEF ParseInit
<1>4. ParseTypeOK
  <2>1. cur \in 1..(Len(batch) + 1) /\ Len(chosen) = cur - 1
    BY <1>1, <1>2 DEF ParseInit
  <2>2. phase \in Phases /\ outcome \in Outcomes
    BY DEF ParseInit, Phases, Outcomes
  <2> QED BY <1>2, <1>3, <2>1, <2>2 DEF ParseInit, ParseTypeOK
<1>5. Admitted /\ Progress /\ LateAnswersDiscarded /\ NoCallbackForInvalidBatch
      /\ ResultsMatchSelection
  BY <1>3 DEF ParseInit, Admitted, Progress, LateAnswersDiscarded, NoCallbackForInvalidBatch,
              ResultsMatchSelection
<1>6. Vetting /\ Answered
  BY <1>2, <1>3 DEF ParseInit, Vetting, Answered
<1> QED BY <1>4, <1>5, <1>6 DEF ParseInv

LEMMA ControlType ==
  ASSUME ParseTypeOK, [ParseNext]_parseVars
  PROVE  cancelled' \in BOOLEAN /\ expired' \in BOOLEAN
  BY DEF ParseTypeOK, ParseNext, Run, CallbackReturns, Admit, BeginSelection, Examine, Choose, Dispatch, Finish,
         ProbeReturns, ParseReturns, Cancel, Expire, parseVars

LEMMA TypeStep ==
  ASSUME ParseTypeOK, Progress, ServiceStep, cancelled' \in BOOLEAN, expired' \in BOOLEAN
  PROVE  ParseTypeOK'
<1>0. Len(batch) \in Nat /\ cur \in Nat /\ cur >= 1
  BY BatchIsSeq DEF ParseTypeOK
<1>1. CASE UNCHANGED operation
  BY <1>1 DEF operation, ParseTypeOK
<1>2. CASE Fails
  <2>1. DOMAIN results' = {}
    BY <1>2 DEF Fails
  <2> QED BY <1>2, <2>1 DEF Fails, ParseTypeOK, Phases
<1>3. CASE Admits \/ Begins
  BY <1>3 DEF Admits, Begins, ParseTypeOK, Phases
<1>4. CASE Vets
  BY <1>4 DEF Vets, Progress, ParseTypeOK, Phases
<1>5. CASE Finishes
  BY <1>5 DEF Finishes, ParseTypeOK, Phases, Outcomes
<1>6. ASSUME NEW b \in Backends, Rejects(b) PROVE ParseTypeOK'
  BY <1>6 DEF Rejects, ParseTypeOK
<1>7. ASSUME NEW b \in Backends, Probes(b) PROVE ParseTypeOK'
  <2>1. <<cur, b>> \in (1..Len(batch)) \X Backends
    BY <1>0, <1>7 DEF Probes, Progress
  <2> QED BY <1>7, <2>1 DEF Probes, ParseTypeOK, Phases
<1>8. ASSUME NEW b \in Backends, Chooses(b) PROVE ParseTypeOK'
  <2>1. chosen' \in Seq(Backends) /\ Len(chosen') = cur' - 1
    BY <1>0, <1>8 DEF Chooses, ParseTypeOK
  <2>2. cur' \in 1..(Len(batch) + 1)
    BY <1>0, <1>8 DEF Chooses, Progress
  <2>3. phase' \in Phases
    BY <1>8 DEF Chooses, Phases
  <2> QED BY <1>8, <2>1, <2>2, <2>3 DEF Chooses, ParseTypeOK
<1>9. ASSUME NEW b \in Backends, Dispatches(b) PROVE ParseTypeOK'
  <2>1. parses' \in Seq(Backends)
    BY <1>9 DEF Dispatches, ParseTypeOK
  <2> QED BY <1>9, <2>1 DEF Dispatches, ParseTypeOK, Phases
<1>10. ASSUME NEW outputs \in OutputSeqs, Collects(outputs) PROVE ParseTypeOK'
  <2>1. DOMAIN results' \subseteq RequestIds
    BY <1>10 DEF Collects, Collect, ParseTypeOK
  <2> QED BY <1>10, <2>1 DEF Collects, Progress, ParseTypeOK, Phases
<1> QED BY <1>1, <1>2, <1>3, <1>4, <1>5, <1>6, <1>7, <1>8, <1>9, <1>10 DEF ServiceStep

LEMMA AdmissionStep ==
  ASSUME ParseTypeOK, Admitted, Progress, LateAnswersDiscarded, NoCallbackForInvalidBatch, ServiceStep
  PROVE  Admitted' /\ Progress' /\ LateAnswersDiscarded' /\ NoCallbackForInvalidBatch'
<1> USE DEF Admitted, Progress, LateAnswersDiscarded, NoCallbackForInvalidBatch, ValidBatch
<1>0. Len(batch) \in Nat /\ cur \in Nat /\ NoId \notin Backends /\ cur <= Len(batch) + 1
  BY BatchIsSeq, NoIdAssumption DEF ParseTypeOK
<1>1. CASE UNCHANGED operation
  BY <1>1 DEF operation
<1>2. CASE Fails
  BY <1>2 DEF Fails
<1>3. CASE Admits
  BY <1>0, <1>3 DEF Admits
<1>4. CASE Begins \/ Finishes
  BY <1>4 DEF Begins, Finishes
<1>5. CASE Vets
  BY <1>5 DEF Vets
<1>6. ASSUME NEW b \in Backends, Rejects(b) \/ Probes(b) \/ Dispatches(b)
      PROVE  Admitted' /\ Progress' /\ LateAnswersDiscarded' /\ NoCallbackForInvalidBatch'
  BY <1>6 DEF Rejects, Probes, Dispatches
<1>7. ASSUME NEW b \in Backends, Chooses(b)
      PROVE  Admitted' /\ Progress' /\ LateAnswersDiscarded' /\ NoCallbackForInvalidBatch'
  BY <1>0, <1>7 DEF Chooses
<1>8. ASSUME NEW outputs \in OutputSeqs, Collects(outputs)
      PROVE  Admitted' /\ Progress' /\ LateAnswersDiscarded' /\ NoCallbackForInvalidBatch'
  BY <1>8 DEF Collects
<1> QED BY <1>1, <1>2, <1>3, <1>4, <1>5, <1>6, <1>7, <1>8 DEF ServiceStep

LEMMA VettingStep ==
  ASSUME ParseTypeOK, Progress, Vetting, ServiceStep
  PROVE  Vetting'
<1> USE DEF Vetting, Vetted
<1>0. Len(batch) \in Nat /\ cur \in Nat /\ cur >= 1 /\ DOMAIN chosen = 1..(cur - 1)
  BY BatchIsSeq DEF ParseTypeOK
<1>1. CASE UNCHANGED operation
  BY <1>1 DEF operation, StaticallyEligible
<1>2. CASE Fails
  BY <1>2 DEF Fails
<1>3. CASE Admits \/ Begins \/ Finishes
  BY <1>3 DEF Admits, Begins, Finishes
<1>4. CASE Vets
  BY <1>4 DEF Vets
<1>5. ASSUME NEW b \in Backends, Rejects(b) \/ Probes(b) \/ Dispatches(b) PROVE Vetting'
  BY <1>5 DEF Rejects, Probes, Dispatches
<1>6. ASSUME NEW b \in Backends, Chooses(b) PROVE Vetting'
  <2>1. <<cur, b>> \in probes /\ batch[cur].explicit \in {NoId, b}
    BY <1>6 DEF Chooses, StaticallyEligible
  <2>2. /\ DOMAIN chosen' = 1..cur /\ chosen'[cur] = b
        /\ \A i \in 1..(cur - 1) : chosen'[i] = chosen[i]
    BY <1>0, <1>6 DEF Chooses, ParseTypeOK
  <2>3. \A i \in DOMAIN chosen' : <<i, chosen'[i]>> \in probes /\ batch[i].explicit \in {NoId, chosen'[i]}
    BY <1>0, <2>1, <2>2
  <2> QED BY <1>6, <2>3 DEF Chooses
<1>7. ASSUME NEW outputs \in OutputSeqs, Collects(outputs) PROVE Vetting'
  BY <1>7 DEF Collects
<1> QED BY <1>1, <1>2, <1>3, <1>4, <1>5, <1>6, <1>7 DEF ServiceStep

LEMMA AnsweredStep ==
  ASSUME ParseTypeOK, Progress, Answered, ServiceStep
  PROVE  Answered'
<1> USE DEF Answered, Group
<1>1. CASE UNCHANGED operation
  BY <1>1 DEF operation
<1>2. CASE Fails
  <2>1. DOMAIN results' = {}
    BY <1>2 DEF Fails
  <2> QED BY <2>1
<1>3. CASE Admits \/ Begins \/ Vets \/ Finishes
  BY <1>3 DEF Admits, Begins, Vets, Finishes
<1>4. ASSUME NEW b \in Backends, Rejects(b) \/ Probes(b) \/ Dispatches(b) PROVE Answered'
  BY <1>4 DEF Rejects, Probes, Dispatches
<1>5. ASSUME NEW b \in Backends, Chooses(b) PROVE Answered'
  BY <1>5 DEF Chooses, Progress
<1>6. ASSUME NEW outputs \in OutputSeqs, Collects(outputs) PROVE Answered'
  BY <1>6 DEF Collects, Collect
<1> QED BY <1>1, <1>2, <1>3, <1>4, <1>5, <1>6 DEF ServiceStep

\* The result of a request comes from the one group it is in: its own
\* selection's, because no other request has its ID.
LEMMA ResultsStep ==
  ASSUME ParseInv, ServiceStep
  PROVE  ResultsMatchSelection'
<1> USE DEF ParseInv, Admitted
<1>1. CASE UNCHANGED operation \/ Fails
  BY <1>1 DEF operation, Fails, ResultsMatchSelection
<1>2. CASE Admits \/ Begins \/ Vets
  BY <1>2 DEF Admits, Begins, Vets, ResultsMatchSelection
<1>3. ASSUME NEW b \in Backends, Rejects(b) \/ Probes(b) \/ Chooses(b) \/ Dispatches(b)
      PROVE  ResultsMatchSelection'
  BY <1>3 DEF Rejects, Probes, Chooses, Dispatches, ResultsMatchSelection
<1>4. ASSUME NEW outputs \in OutputSeqs, Collects(outputs) PROVE ResultsMatchSelection'
  BY <1>4 DEF Collects, ResultsMatchSelection
<1>5. CASE Finishes
  <2>1. SUFFICES ASSUME outcome' = "ok"
                 PROVE  /\ DOMAIN results = RequestIdsOf(batch)
                        /\ \A i \in DOMAIN batch :
                             /\ results[batch[i].rid] = chosen[i]
                             /\ <<i, chosen[i]>> \in probes
                             /\ batch[i].explicit \in {NoId, chosen[i]}
    BY <1>5 DEF Finishes, ResultsMatchSelection
  <2>2. batch \in Batches /\ BatchError(batch) = "ok"
    BY <1>5 DEF Finishes, ValidBatch, ParseTypeOK
  <2>3. \A i \in DOMAIN batch : batch[i].rid \in DOMAIN results
    BY <1>5, <2>1 DEF Finishes
  <2>4. DOMAIN chosen = DOMAIN batch
    <3>1. cur = Len(batch) + 1
      BY <1>5 DEF Finishes, Progress
    <3> QED BY <3>1, BatchIsSeq
  <2>5. DOMAIN results = RequestIdsOf(batch)
    BY <2>3, <2>4 DEF Answered, Group, RequestIdsOf
  <2>6. ASSUME NEW i \in DOMAIN batch PROVE results[batch[i].rid] = chosen[i]
    <3>1. batch[i].rid \in Group(results[batch[i].rid])
      BY <2>3 DEF Answered
    <3>2. PICK j \in DOMAIN chosen : chosen[j] = results[batch[i].rid] /\ batch[j].rid = batch[i].rid
      BY <3>1 DEF Group
    <3>3. i = j
      BY <2>2, <2>4, <3>2, AdmittedIdsDiffer
    <3> QED BY <3>2, <3>3
  <2> QED BY <2>4, <2>5, <2>6 DEF Vetting
<1> QED BY <1>1, <1>2, <1>3, <1>4, <1>5 DEF ServiceStep

THEOREM ParseInvariance == ParseSpec => []ParseInv
<1>1. ParseInv /\ [ParseNext]_parseVars => ParseInv'
  <2> SUFFICES ASSUME ParseInv, [ParseNext]_parseVars PROVE ParseInv'
    OBVIOUS
  <2>1. ServiceStep
    BY StepCases DEF ParseInv
  <2>2. ParseTypeOK'
    BY <2>1, ControlType, TypeStep DEF ParseInv
  <2> QED BY <2>1, <2>2, AdmissionStep, VettingStep, AnsweredStep, ResultsStep DEF ParseInv
<1> QED BY <1>1, ParseInitInv, PTL DEF ParseSpec

-----------------------------------------------------------------------------
(* The theorems *)

\* Every variable of a parse operation keeps its type: in particular the
\* backend a selection or a dispatch picks exists, and a selection is made
\* for each request in turn.
THEOREM ParseTypeCorrectness == ParseSpec => []ParseTypeOK
  BY ParseInvariance, PTL DEF ParseInv

\* A callback that returns after control has fired decides nothing,
\* whatever the provider answered and whichever check came last.
THEOREM LateAnswersAreDiscarded == ParseSpec => []LateAnswersDiscarded
  BY ParseInvariance, PTL DEF ParseInv

\* No provider code runs for a batch any part of which is invalid.
THEOREM InvalidBatchesReachNoProvider == ParseSpec => []NoCallbackForInvalidBatch
  BY ParseInvariance, PTL DEF ParseInv

\* A success has one result per request, from the backend selected and
\* probed for it, whatever outputs the providers returned.
THEOREM ResultsFollowSelection == ParseSpec => []ResultsMatchSelection
  BY ParseInvariance, PTL DEF ParseInv

=============================================================================
