--------------------------- MODULE WorkflowProofs ---------------------------
(***************************************************************************)
(* Safety of one workflow batch for every set of providers, parsers and    *)
(* batches, and every number of registry changes.                          *)
(*                                                                         *)
(* PinnedExecutionCoexisted is not inductive: it speaks of a pair of maps  *)
(* that no single step of the call reads.  The argument is about the       *)
(* instant at which the provider registry is captured.  The caller read    *)
(* the parser inventory before it, the call captures the parser registry   *)
(* after it, and the parser generation only grows: when the two agree, the *)
(* parser registry was at that generation in between too.  CaptureWindow   *)
(* carries this through the steps.                                         *)
(***************************************************************************)
EXTENDS WorkflowExecution, FiniteSetTheorems, WellFoundedInduction, TLAPS

\* Where the call is past the guard and has not ended.
Executing == {"admit", "negotiate", "probing", "kernel", "running", "parse",
              "parsing", "calling"}

RegistryTypes ==
  /\ qgen \in Nat
  /\ pent \in [Ids -> ProviderEntries \cup {None}]
  /\ pc \in Pcs
  /\ late \in BOOLEAN /\ fired \in BOOLEAN

\* The history holds the present.
PresentRecorded == <<pgen, pent, qgen, qent>> \in coexisted

\* The caller's parser inventory is not newer than the registry.
ObservedBefore ==
  /\ expQ # None => expQ.gen \in Nat /\ expQ.gen <= qgen
  /\ (pinned /\ pc # "idle") => expQ # None

Captured(g, map) == <<snapP.gen, snapP.map, g, map>> \in coexisted

\* From the capture of the providers on, either the parser registry has
\* moved past the caller's inventory, and the guard will see it, or what is
\* there now was there with the captured providers.
CaptureWindow ==
  pinned =>
    /\ pc = "snapQ" => expQ.gen < qgen \/ Captured(qgen, qent)
    /\ pc = "guard" => expQ.gen < snapQ.gen \/ Captured(snapQ.gen, snapQ.map)
    /\ (pc \in Executing \/ ran # <<>>) => Captured(snapQ.gen, snapQ.map)

\* Whatever ran is the executor of the captured provider.
RanCaptured ==
  /\ pc \notin Executing \cup {"done"} => ran = <<>>
  /\ pc \in Executing \ {"admit"} => Entry # None
  /\ pc \in {"kernel", "running"} => Executor = Kernel
  /\ pc \in {"parse", "parsing", "calling"} => Executor # Kernel
  /\ ran # <<>> => ran \in Seq({Executor}) /\ Entry # None

Inv == RegistryTypes /\ PresentRecorded /\ ObservedBefore /\ CaptureWindow
       /\ RanCaptured

\* The batch is admitted only when the captured snapshot has the provider.
LEMMA AdmittedProvider == ASSUME NEW fits, BatchError(fits) = "ok" PROVE Entry # None
  BY DEF BatchError

LEMMA InitInv == ASSUME Init PROVE Inv
  <1>1. qgen \in Nat
    BY WorkflowAssumption, FS_CardinalityType DEF Init
  <1>2. RegistryTypes
    BY <1>1 DEF Init, RegistryTypes, Pcs
  <1>3. PresentRecorded /\ ObservedBefore /\ CaptureWindow
    BY DEF Init, PresentRecorded, ObservedBefore, CaptureWindow, Executing
  <1>4. RanCaptured
    BY DEF Init, RanCaptured, Executing
  <1> QED BY <1>2, <1>3, <1>4 DEF Inv

\* What a registry change leaves alone, and what it does to the history.
RegistryStep ==
  /\ qgen' >= qgen /\ qgen' \in Nat
  /\ qgen' = qgen => qent' = qent
  /\ pent' \in [Ids -> ProviderEntries \cup {None}]
  /\ Record
  /\ UNCHANGED <<call, fired>>

\* Every change of a registry by another thread is such a step.
LEMMA MutateSteps == ASSUME Inv, Mutate PROVE RegistryStep
  <1> USE DEF Inv, RegistryTypes, RegistryStep
  <1>1. CASE \E i \in Ids, d \in Descriptors, h \in Hosts :
               RegisterWorkflowHost(i, d, h) \/ ReplaceWorkflowHost(i, d, h)
    <2>1. PICK i \in Ids, d \in Descriptors, h \in Hosts :
            ChangeProviders([pent EXCEPT ![i] = [desc |-> d, exec |-> h]])
      BY <1>1 DEF RegisterWorkflowHost, ReplaceWorkflowHost
    <2>2. [desc |-> d, exec |-> h] \in ProviderEntries
      BY DEF ProviderEntries
    <2> QED BY <2>1, <2>2 DEF ChangeProviders
  <1>2. CASE \E i \in Ids : UnregisterWorkflowHost(i)
    BY <1>2 DEF UnregisterWorkflowHost, ChangeProviders
  <1>3. CASE \E b \in Backends, e \in ParserEntries \cup {None} : ChangeParser(b, e)
    BY <1>3 DEF ChangeParser
  <1> QED BY <1>1, <1>2, <1>3 DEF Mutate

LEMMA RegistryStepInv == ASSUME Inv, RegistryStep PROVE Inv'
  <1> USE DEF Inv, RegistryStep, call
  <1>1. RegistryTypes'
    BY DEF RegistryTypes
  <1>2. coexisted \subseteq coexisted' /\ PresentRecorded'
    BY DEF PresentRecorded, Record
  <1>3. ObservedBefore'
    BY DEF ObservedBefore, RegistryTypes
  <1>4. CaptureWindow'
    <2>1. ASSUME pinned, pc = "snapQ" PROVE expQ.gen < qgen' \/ Captured(qgen, qent)'
      <3>1. expQ.gen \in Nat /\ expQ.gen <= qgen
        BY <2>1 DEF ObservedBefore
      <3>2. CASE qgen' = qgen
        BY <3>2, <2>1, <1>2 DEF CaptureWindow, Captured
      <3>3. CASE qgen' # qgen
        BY <3>1, <3>3 DEF RegistryTypes
      <3> QED BY <3>2, <3>3
    <2>2. ASSUME pinned PROVE Captured(snapQ.gen, snapQ.map) => Captured(snapQ.gen, snapQ.map)'
      BY <1>2 DEF Captured
    <2> QED BY <2>1, <2>2 DEF CaptureWindow
  <1>5. RanCaptured'
    BY DEF RanCaptured, Entry, Executor
  <1> QED BY <1>1, <1>2, <1>3, <1>4, <1>5

-----------------------------------------------------------------------------
(* Steps of the call: the registries and the history stay.                 *)

CallFrame == UNCHANGED <<registries, expP, expQ, pinned, provider, batch, fired>>

\* A step of the call that captures nothing and observes nothing.
LaterStep == CallFrame /\ UNCHANGED <<snapP, snapQ>>

LEMMA CallFrameInv ==
  ASSUME Inv, CallFrame, pc' \in Pcs, pc' # "idle", late' \in BOOLEAN,
         pinned => expQ # None
  PROVE  RegistryTypes' /\ PresentRecorded' /\ ObservedBefore'
  BY DEF Inv, CallFrame, registries, RegistryTypes, PresentRecorded, ObservedBefore

\* Past the guard, the captured pair stays recorded.
LEMMA ExecutingWindow ==
  ASSUME Inv, LaterStep, pc \in Executing, pc' \in Executing \cup {"done"}
  PROVE  CaptureWindow'
  BY DEF Inv, LaterStep, CallFrame, registries, CaptureWindow, Captured, Executing

LEMMA CallInv == ASSUME Inv, NEW fits \in BOOLEAN, Call(fits) PROVE Inv'
  <1> USE DEF Call, Budgeted, Checked, Goto, Fail
  <1>1. RegistryTypes' /\ PresentRecorded' /\ ObservedBefore'
    BY CallFrameInv DEF CallFrame, Pcs, Inv, RegistryTypes
  <1>2. CaptureWindow' /\ RanCaptured'
    BY DEF Inv, RanCaptured, CaptureWindow, Executing
  <1> QED BY <1>1, <1>2 DEF Inv

LEMMA CaptureProvidersInv == ASSUME Inv, CaptureProviders PROVE Inv'
  <1> USE DEF CaptureProviders, Goto
  <1>1. RegistryTypes' /\ PresentRecorded' /\ ObservedBefore'
    BY CallFrameInv DEF CallFrame, Pcs, Inv, RegistryTypes, ObservedBefore
  <1>2. ran' = <<>> /\ pc' = "snapQ"
    BY DEF Inv, RanCaptured, Executing
  <1>3. Captured(qgen, qent)'
    BY DEF Inv, PresentRecorded, Captured, Snapshot, registries
  <1> QED BY <1>1, <1>2, <1>3 DEF Inv, CaptureWindow, RanCaptured, Executing

LEMMA CaptureParsersInv == ASSUME Inv, CaptureParsers PROVE Inv'
  <1> USE DEF CaptureParsers, Goto
  <1>0. pc' \in {"guard", "admit"} /\ (pinned => pc' = "guard")
    OBVIOUS
  <1>1. RegistryTypes' /\ PresentRecorded' /\ ObservedBefore'
    BY <1>0, CallFrameInv DEF CallFrame, Pcs, Inv, RegistryTypes, ObservedBefore
  <1>2. ran' = <<>>
    BY DEF Inv, RanCaptured, Executing
  <1>3. pinned => (expQ.gen < snapQ.gen \/ Captured(snapQ.gen, snapQ.map))'
    BY DEF Inv, CaptureWindow, Captured, Snapshot, registries
  <1>4. CaptureWindow'
    BY <1>0, <1>2, <1>3 DEF CaptureWindow, Executing
  <1>5. RanCaptured'
    BY <1>0, <1>2 DEF RanCaptured, Executing
  <1> QED BY <1>1, <1>4, <1>5 DEF Inv

\* The guard lets a pinned call pass only at the inventory's generation.
LEMMA GuardInv == ASSUME Inv, NEW fits \in BOOLEAN, Guard(fits) PROVE Inv'
  <1> USE DEF Guard, Budgeted, Checked, Goto, Fail
  <1>0. pc' \in {"admit", "done"}
    OBVIOUS
  <1>1. RegistryTypes' /\ PresentRecorded' /\ ObservedBefore'
    BY <1>0, CallFrameInv DEF CallFrame, Pcs, Inv, RegistryTypes, ObservedBefore
  <1>2. ran' = <<>>
    BY DEF Inv, RanCaptured, Executing
  <1>3. ASSUME pinned, pc' = "admit" PROVE Captured(snapQ.gen, snapQ.map)'
    <2>1. expQ.gen = snapQ.gen /\ expQ.gen \in Nat
      BY <1>3 DEF RegistryCurrent, Inventory, Inv, ObservedBefore
    <2>2. ~(expQ.gen < snapQ.gen)
      BY <2>1
    <2> QED BY <2>2, <1>3 DEF Inv, CaptureWindow, Captured, registries
  <1>4. CaptureWindow'
    BY <1>0, <1>2, <1>3 DEF CaptureWindow, Executing
  <1>5. RanCaptured'
    BY <1>0, <1>2 DEF RanCaptured, Executing
  <1> QED BY <1>1, <1>4, <1>5 DEF Inv

\* The steps after the guard, as far as Inv is concerned.
ExecutionStep ==
  /\ LaterStep
  /\ pc \in Executing /\ pc' \in Executing \cup {"done"}
  /\ late' \in BOOLEAN
  /\ RanCaptured'

LEMMA ExecutionStepInv == ASSUME Inv, ExecutionStep PROVE Inv'
  <1>1. RegistryTypes' /\ PresentRecorded' /\ ObservedBefore'
    BY CallFrameInv DEF ExecutionStep, LaterStep, Executing, Pcs, Inv, ObservedBefore
  <1>2. CaptureWindow'
    BY ExecutingWindow DEF ExecutionStep
  <1> QED BY <1>1, <1>2 DEF Inv, ExecutionStep

\* Steps that run nothing keep what ran.
LEMMA QuietStep ==
  ASSUME Inv, LaterStep, ran' = ran, late' \in BOOLEAN, pc \in Executing,
         pc' \in Executing \cup {"done"},
         pc' # "done" => /\ Entry # None \/ pc' = "admit"
                         /\ pc' \in {"kernel", "running"} => Executor = Kernel
                         /\ pc' \in {"parse", "parsing", "calling"} => Executor # Kernel
  PROVE  ExecutionStep
  BY DEF Inv, LaterStep, CallFrame, ExecutionStep, RanCaptured, Entry, Executor, Executing

LEMMA AdmitInv == ASSUME Inv, NEW fits \in BOOLEAN, Admit(fits) PROVE ExecutionStep
  <1>1. pc' = "negotiate" => Entry # None
    BY AdmittedProvider DEF Admit, Checked, Goto, Fail
  <1> QED BY <1>1, QuietStep
     DEF Admit, Checked, Goto, Fail, LaterStep, CallFrame, Executing, Inv, RegistryTypes

LEMMA NegotiationInv ==
  ASSUME Inv, Negotiate \/ Negotiated \/ \E usable \in SUBSET Backends : ProbesReturn(usable)
  PROVE  ExecutionStep
  <1>1. Entry # None
    BY DEF Inv, RanCaptured, Negotiate, Negotiated, ProbesReturn, Executing
  <1>2. CASE Negotiate
    BY <1>1, <1>2, QuietStep
       DEF Negotiate, Checked, Goto, Fail, LaterStep, CallFrame, Executing, Inv, RegistryTypes
  <1>3. CASE Negotiated
    BY <1>1, <1>3, QuietStep
       DEF Negotiated, Goto, LaterStep, CallFrame, Executing, Inv, RegistryTypes
  <1>4. CASE \E usable \in SUBSET Backends : ProbesReturn(usable)
    BY <1>1, <1>4, QuietStep
       DEF ProbesReturn, Goto, Fail, LaterStep, CallFrame, Executing, Inv, RegistryTypes
  <1> QED BY <1>2, <1>3, <1>4

\* An executor that starts is the captured one.
LEMMA StartsCaptured ==
  ASSUME Inv, pc \in Executing, Entry # None, UNCHANGED <<snapP, provider>>,
         ran' = Append(ran, Executor)
  PROVE  ran' \in Seq({Executor}) /\ ran' # <<>>
  <1>0. ASSUME NEW S PROVE <<>> \in Seq(S)
    OBVIOUS
  <1>1. ran \in Seq({Executor})
    BY <1>0 DEF Inv, RanCaptured
  <1> QED BY <1>1

LEMMA KernelInv ==
  ASSUME Inv,
         KernelStart \/ KernelFails \/ KernelDone \/ KernelOverBudget
           \/ \E result \in KernelResults : KernelReturns(result)
  PROVE  ExecutionStep
  <1>1. Entry # None /\ Executor = Kernel
    BY DEF Inv, RanCaptured, KernelStart, KernelFails, KernelDone, KernelOverBudget,
           KernelReturns, Executing
  <1>2. CASE KernelStart
    <2>1. CASE fired
      BY <2>1, <1>1, <1>2, QuietStep
         DEF KernelStart, Checked, Fail, LaterStep, CallFrame, Executing, Inv, RegistryTypes
    <2>2. CASE ~fired
      <3>1. ran' \in Seq({Executor}) /\ ran' # <<>>
        BY <2>2, <1>1, <1>2, StartsCaptured DEF KernelStart, Executing
      <3> QED BY <3>1, <2>2, <1>1, <1>2
         DEF KernelStart, Checked, Goto, LaterStep, CallFrame, Executing, Inv,
             RegistryTypes, ExecutionStep, RanCaptured, Entry, Executor
    <2> QED BY <2>1, <2>2
  <1>3. CASE KernelDone
    BY <1>1, <1>3, QuietStep
       DEF KernelDone, Fail, LaterStep, CallFrame, Executing, Inv, RegistryTypes
  <1>4. CASE KernelOverBudget
    BY <1>1, <1>4, QuietStep
       DEF KernelOverBudget, Fail, LaterStep, CallFrame, Executing, Inv, RegistryTypes
  <1>5. CASE \E result \in KernelResults : KernelReturns(result)
    BY <1>1, <1>5, QuietStep
       DEF KernelReturns, Fail, LaterStep, CallFrame, Executing, Inv, RegistryTypes
  <1>6. CASE KernelFails
    BY <1>1, <1>6, QuietStep
       DEF KernelFails, Fail, LaterStep, CallFrame, Executing, Inv, RegistryTypes
  <1> QED BY <1>2, <1>3, <1>4, <1>5, <1>6

LEMMA HostInv ==
  ASSUME Inv,
         \/ ParseStart
         \/ \E answer \in ParseAnswers : ParseReturns(answer)
         \/ \E fits \in BOOLEAN : HostStart(fits)
         \/ \E answer \in HostAnswers \ {"outputs"} : HostReturns(answer, <<>>)
         \/ \E outputs \in HostOutputs : HostReturns("outputs", outputs)
  PROVE  ExecutionStep
  <1>1. Entry # None /\ Executor # Kernel
    BY DEF Inv, RanCaptured, ParseStart, ParseReturns, HostStart, HostReturns, Executing
  <1>2. CASE ParseStart
    BY <1>1, <1>2, QuietStep
       DEF ParseStart, Checked, Goto, Fail, LaterStep, CallFrame, Executing, Inv, RegistryTypes
  <1>3. CASE \E answer \in ParseAnswers : ParseReturns(answer)
    BY <1>1, <1>3, QuietStep
       DEF ParseReturns, Goto, Fail, LaterStep, CallFrame, Executing, Inv, RegistryTypes
  <1>4. CASE \E fits \in BOOLEAN : HostStart(fits)
    <2>1. PICK fits \in BOOLEAN : HostStart(fits)
      BY <1>4
    <2>2. CASE fits /\ ~fired
      <3>1. ran' \in Seq({Executor}) /\ ran' # <<>>
        BY <2>1, <2>2, <1>1, StartsCaptured DEF HostStart, CalledHost, Executing
      <3> QED BY <3>1, <2>1, <2>2, <1>1
         DEF HostStart, Checked, Goto, LaterStep, CallFrame, Executing, Inv,
             RegistryTypes, ExecutionStep, RanCaptured, Entry, Executor
    <2>3. CASE ~(fits /\ ~fired)
      BY <2>1, <2>3, <1>1, QuietStep
         DEF HostStart, Checked, Fail, LaterStep, CallFrame, Executing, Inv, RegistryTypes
    <2> QED BY <2>2, <2>3
  <1>5. ASSUME NEW answer, NEW outputs, HostReturns(answer, outputs) PROVE ExecutionStep
    BY <1>1, <1>5, QuietStep
       DEF HostReturns, Fail, LaterStep, CallFrame, Executing, Inv, RegistryTypes
  <1> QED BY <1>2, <1>3, <1>4, <1>5

LEMMA RunInv == ASSUME Inv, Run PROVE Inv'
  <1>1. CASE CaptureProviders \/ CaptureParsers
             \/ \E fits \in BOOLEAN : Call(fits) \/ Guard(fits)
    BY <1>1, CallInv, CaptureProvidersInv, CaptureParsersInv, GuardInv
  <1>2. CASE Negotiate \/ Negotiated \/ (\E fits \in BOOLEAN : Admit(fits))
             \/ \E usable \in SUBSET Backends : ProbesReturn(usable)
    BY <1>2, AdmitInv, NegotiationInv, ExecutionStepInv
  <1>3. CASE KernelStart \/ KernelFails \/ KernelDone \/ KernelOverBudget
             \/ \E result \in KernelResults : KernelReturns(result)
    BY <1>3, KernelInv, ExecutionStepInv
  <1>4. CASE \/ ParseStart
             \/ \E answer \in ParseAnswers : ParseReturns(answer)
             \/ \E fits \in BOOLEAN : HostStart(fits)
             \/ \E answer \in HostAnswers \ {"outputs"} : HostReturns(answer, <<>>)
             \/ \E outputs \in HostOutputs : HostReturns("outputs", outputs)
    BY <1>4, HostInv, ExecutionStepInv
  <1> QED BY <1>1, <1>2, <1>3, <1>4 DEF Run

\* The caller observes the registries before it calls.
LEMMA ObserveInv == ASSUME Inv, Observe PROVE Inv'
  <1>1. CASE ObserveProviders
    <2> USE <1>1 DEF ObserveProviders, registries, Inv
    <2>1. RegistryTypes' /\ PresentRecorded' /\ ObservedBefore'
      BY DEF RegistryTypes, PresentRecorded, ObservedBefore
    <2>2. CaptureWindow' /\ RanCaptured'
      BY DEF CaptureWindow, RanCaptured, Executing
    <2> QED BY <2>1, <2>2
  <1>2. CASE ObserveParsers
    <2> USE <1>2 DEF ObserveParsers, registries, Inv
    <2>1. RegistryTypes' /\ PresentRecorded'
      BY DEF RegistryTypes, PresentRecorded
    <2>2. ObservedBefore'
      BY DEF ObservedBefore, RegistryTypes, Inventory
    <2>3. CaptureWindow' /\ RanCaptured'
      BY DEF CaptureWindow, RanCaptured, Executing
    <2> QED BY <2>1, <2>2, <2>3
  <1> QED BY <1>1, <1>2 DEF Observe

LEMMA NextInv == ASSUME Inv, [Next]_vars PROVE Inv'
  <1>1. CASE Run
    BY <1>1, RunInv
  <1>2. CASE Observe
    BY <1>2, ObserveInv
  <1>3. CASE Mutate
    BY <1>3, MutateSteps, RegistryStepInv
  <1>4. CASE Fire \/ UNCHANGED vars
    <2>1. UNCHANGED registries /\ UNCHANGED call /\ fired' \in BOOLEAN
      BY <1>4 DEF Fire, vars, Inv, RegistryTypes
    <2> USE <2>1 DEF registries, call, Inv
    <2>2. RegistryTypes' /\ PresentRecorded' /\ ObservedBefore'
      BY DEF RegistryTypes, PresentRecorded, ObservedBefore
    <2>3. CaptureWindow'
      BY DEF CaptureWindow, Captured
    <2>4. RanCaptured'
      BY DEF RanCaptured, Entry, Executor
    <2> QED BY <2>2, <2>3, <2>4
  <1> QED BY <1>1, <1>2, <1>3, <1>4 DEF Next, Environment

\* The invariant holds in every reachable state.
THEOREM WorkflowInvariant == Spec => []Inv
  BY InitInv, NextInv, PTL DEF Spec

-----------------------------------------------------------------------------

LEMMA CapturedPairCoexisted == Inv => PinnedExecutionCoexisted
  <1> SUFFICES ASSUME Inv, pinned, ran # <<>>
               PROVE  \E c \in coexisted :
                        /\ c[2][provider] # None /\ c[2][provider].exec = ran[1]
                        /\ \A n \in DOMAIN chosen : c[4][chosen[n]] = snapQ.map[chosen[n]]
                        /\ c[1] = snapP.gen /\ c[3] = snapQ.gen
    BY DEF PinnedExecutionCoexisted
  <1> DEFINE c == <<snapP.gen, snapP.map, snapQ.gen, snapQ.map>>
  <1>1. c \in coexisted
    BY DEF Inv, CaptureWindow, Captured
  <1>2. ran[1] = Executor /\ Entry # None
    BY DEF Inv, RanCaptured
  <1>3. c[2][provider] # None /\ c[2][provider].exec = ran[1]
    BY <1>2 DEF Entry, Executor
  <1> QED BY <1>1, <1>3

\* A pinned workflow execution (execute_workflow_batch_at_registry) never
\* runs with a provider and a parser that were not registered together,
\* however often other threads change either registry while the caller
\* observes, calls and executes.
THEOREM PinnedExecutionsCoexist == Spec => []PinnedExecutionCoexisted
  BY WorkflowInvariant, CapturedPairCoexisted, PTL

-----------------------------------------------------------------------------
(* Compiled providers *)

LEMMA CompiledInit == Init => CompiledProvidersPermanent
  BY WorkflowAssumption DEF Init, CompiledProvidersPermanent, CompiledExecutor

LEMMA CompiledNext ==
  ASSUME Inv, CompiledProvidersPermanent, [Next]_vars
  PROVE  CompiledProvidersPermanent'
  <1> USE DEF CompiledProvidersPermanent, CompiledExecutor
  <1>1. CASE UNCHANGED pent
    BY <1>1
  <1>2. CASE Mutate
    <2>1. CASE \E i \in Ids : RequireHostId(i) /\ \E e : ChangeProviders([pent EXCEPT ![i] = e])
      BY <2>1, WorkflowAssumption DEF RequireHostId, ChangeProviders, Inv, RegistryTypes
    <2>2. CASE \E b \in Backends, e \in ParserEntries \cup {None} : ChangeParser(b, e)
      BY <2>2 DEF ChangeParser
    <2> QED BY <1>2, <2>1, <2>2
         DEF Mutate, RegisterWorkflowHost, ReplaceWorkflowHost, UnregisterWorkflowHost
  <1>3. Run \/ Observe \/ Fire \/ UNCHANGED vars => UNCHANGED pent
    BY DEF Run, Observe, Fire, vars, registries, Call, CaptureProviders, CaptureParsers, Guard,
           Admit, Negotiate, Negotiated, ProbesReturn, KernelStart, KernelFails, KernelDone, KernelOverBudget,
           KernelReturns, ParseStart, ParseReturns, HostStart, HostReturns, ObserveProviders,
           ObserveParsers
  <1> QED BY <1>1, <1>2, <1>3 DEF Next, Environment

\* No sequence of host registrations, replacements and removals displaces
\* the kernel from a compiled provider ID.
THEOREM CompiledProvidersStay == Spec => []CompiledProvidersPermanent
  BY WorkflowInvariant, CompiledInit, CompiledNext, PTL DEF Spec

-----------------------------------------------------------------------------
(* Control after a callback *)

LEMMA LateNext ==
  ASSUME Inv, LateAnswersDiscarded, [Next]_vars
  PROVE  LateAnswersDiscarded'
  <1> USE DEF LateAnswersDiscarded
  <1>1. CASE Mutate \/ Fire \/ UNCHANGED vars
    <2>1. UNCHANGED call
      BY <1>1, MutateSteps DEF RegistryStep, Fire, vars
    <2> QED BY <2>1 DEF call, Executor, Entry
  <1>2. CASE Observe
    BY <1>2 DEF Observe, ObserveProviders, ObserveParsers
  <1>3. CASE Run
    <2>1. pc # "done" /\ ~late
      BY <1>3 DEF Run, Call, CaptureProviders, CaptureParsers, Guard, Admit, Negotiate,
           Negotiated, ProbesReturn, KernelStart, KernelFails, KernelDone, KernelOverBudget,
           KernelReturns, ParseStart, ParseReturns, HostStart, HostReturns
    <2>2. CASE UNCHANGED late
      BY <2>1, <2>2
    <2>3. CASE \E usable \in SUBSET Backends : ProbesReturn(usable)
      BY <2>1, <2>3 DEF ProbesReturn, Fail
    <2>4. CASE KernelFails \/ \E result \in KernelResults : KernelReturns(result)
      <3>1. Executor' = Kernel
        BY <2>4 DEF KernelReturns, KernelFails, Inv, RanCaptured, Executor, Entry
      <3>2. ASSUME fired PROVE Fail("workflow.invalid_result") \/ Fail("operation.invalid_evidence")
        <4>1. CASE KernelFails
          BY <4>1 DEF KernelFails
        <4>2. ASSUME NEW result \in KernelResults, KernelReturns(result)
              PROVE  Fail("workflow.invalid_result")
          <5>1. result.names = FALSE
            BY <3>2, <4>2 DEF KernelResults
          <5> QED BY <5>1, <4>2 DEF KernelReturns, IdentityKept
        <4> QED BY <4>1, <4>2, <2>4
      <3>3. late' = fired
        BY <2>1, <2>4 DEF KernelReturns, KernelFails, Inv, RegistryTypes
      <3>4. CASE fired
        BY <3>1, <3>2, <3>4 DEF Fail
      <3>5. CASE ~fired
        BY <3>3, <3>5
      <3> QED BY <3>4, <3>5
    <2>5. CASE \E answer \in ParseAnswers : ParseReturns(answer)
      BY <2>1, <2>5 DEF ParseReturns, Fail
    <2>6. ASSUME NEW answer, NEW outputs, HostReturns(answer, outputs)
          PROVE  LateAnswersDiscarded'
      BY <2>1, <2>6 DEF HostReturns, Fail
    <2> QED BY <1>3, <2>2, <2>3, <2>4, <2>5, <2>6
         DEF Run, Call, CaptureProviders, CaptureParsers, Guard, Admit, Negotiate,
             Negotiated, KernelStart, KernelFails, KernelDone, KernelOverBudget, ParseStart, HostStart
  <1> QED BY <1>1, <1>2, <1>3 DEF Next, Environment

LEMMA LateInit == Init => LateAnswersDiscarded
  BY DEF Init, LateAnswersDiscarded

\* A probe, parse, kernel or host call that comes back after cancellation or
\* the deadline never contributes a result, and a host's late answer is
\* always reported as the control.
THEOREM LateAnswersAreDiscarded == Spec => []LateAnswersDiscarded
  BY WorkflowInvariant, LateInit, LateNext, PTL DEF Spec

-----------------------------------------------------------------------------
(* The host callback *)

\* How far the items are: negotiated, then parsed or run one by one.
Progress ==
  /\ batch \in Batches
  /\ chosen \in Seq(Backends) /\ used \in Seq(Backends \cup {None})
  /\ Len(used) <= Len(chosen) /\ Len(chosen) <= Len(batch)
  /\ pc \in {"idle", "snapP", "snapQ", "guard", "admit", "negotiate", "probing"}
       => used = <<>>
  /\ pc = "probing" => Len(chosen) < Len(batch)
  /\ pc \in {"kernel", "running", "parse", "parsing", "calling"}
       => Len(chosen) = Len(batch)
  /\ pc \in {"running", "parsing"} => Len(used) < Len(batch)

\* Every set of parser IDs has a first one, the one ProbesReturn takes.
LEMMA FirstBackend ==
  ASSUME NEW T \in SUBSET Nat, T # {}
  PROVE  \E x \in T : \A y \in T : x <= y
  <1> DEFINE R == {ss \in Nat \X Nat : ss[1] < ss[2]}
  <1>1. IsWellFoundedOn(R, Nat)
    BY NatLessThanWellFounded DEF OpToRel
  <1>2. PICK x \in T : \A y \in T : ~(<<y, x>> \in R)
    <2> HIDE DEF R
    <2> QED BY <1>1, WFMin
  <1>3. \A y \in T : x <= y
    <2> TAKE y \in T
    <2>1. x \in Nat /\ y \in Nat
      OBVIOUS
    <2>2. y < x => <<y, x>> \in R
      BY <2>1
    <2> HIDE DEF R
    <2> QED BY <2>1, <2>2, <1>2
  <1> QED BY <1>3

\* A batch is a sequence.
LEMMA BatchLength ==
  ASSUME batch \in Batches
  PROVE  Len(batch) \in Nat /\ DOMAIN batch = 1..Len(batch)
  BY WorkflowAssumption

LEMMA ProgressInit == Init => Progress
  BY BatchLength DEF Init, Progress

LEMMA ProgressNext ==
  ASSUME Inv, Progress, [Next]_vars
  PROVE  Progress'
  <1>0. Len(batch) \in Nat /\ Len(used) \in Nat /\ Len(chosen) \in Nat
    BY BatchLength DEF Progress
  <1>1. CASE Mutate \/ Fire \/ UNCHANGED vars
    <2>1. UNCHANGED call
      BY <1>1, MutateSteps DEF RegistryStep, Fire, vars
    <2> QED BY <2>1 DEF call, Progress
  <1>2. CASE Observe
    BY <1>2 DEF Observe, ObserveProviders, ObserveParsers, Progress
  <1>3. CASE Run
    <2>1. CASE CaptureProviders \/ CaptureParsers
               \/ \E fits \in BOOLEAN : Call(fits) \/ Guard(fits) \/ Admit(fits)
      BY <2>1 DEF Call, CaptureProviders, CaptureParsers, Guard, Admit, Budgeted, Checked, Goto,
                  Fail, Progress
    <2>2. CASE Negotiate
      BY <2>2, <1>0 DEF Negotiate, Cur, Goto, Fail, Progress
    <2>3. CASE Negotiated
      BY <2>3, <1>0 DEF Negotiated, Cur, Goto, Progress
    <2>4. CASE \E usable \in SUBSET Backends : ProbesReturn(usable)
      <3>1. PICK usable \in SUBSET Backends : ProbesReturn(usable)
        BY <2>4
      <3>2. CASE fired \/ usable = {}
        BY <3>1, <3>2 DEF ProbesReturn, Fail, Progress
      <3>3. CASE ~fired /\ usable # {}
        <4>1. (CHOOSE b \in usable : \A c \in usable : b <= c) \in Backends
          <5>1. \E b \in usable : \A c \in usable : b <= c
            BY <3>3, FirstBackend, WorkflowAssumption
          <5> QED BY <5>1
        <4>2. PICK b \in Backends : chosen' = Append(chosen, b)
          BY <4>1, <3>1, <3>3 DEF ProbesReturn
        <4>3. chosen' \in Seq(Backends) /\ Len(chosen') = Len(chosen) + 1
          BY <4>2 DEF Progress
        <4>4. pc' = "negotiate" /\ UNCHANGED <<batch, used>>
          BY <3>1, <3>3 DEF ProbesReturn, Goto
        <4>5. Len(chosen) < Len(batch) /\ used = <<>>
          BY <3>1 DEF ProbesReturn, Progress
        <4> QED BY <4>3, <4>4, <4>5, <1>0 DEF Progress
      <3> QED BY <3>2, <3>3
    <2>5. CASE KernelStart \/ KernelFails \/ KernelDone \/ KernelOverBudget \/ ParseStart
               \/ \E fits \in BOOLEAN : HostStart(fits)
      BY <2>5, <1>0 DEF KernelStart, KernelFails, KernelDone, KernelOverBudget, ParseStart, HostStart,
                        Checked, Goto, Fail, Pos, Progress
    <2>6. ASSUME NEW parser \in Backends \cup {None}, pc \in {"running", "parsing"},
                 pc' \in {"kernel", "parse"}, used' = Append(used, parser),
                 UNCHANGED <<batch, chosen>>
          PROVE  Progress'
      <3>1. used' \in Seq(Backends \cup {None}) /\ Len(used') = Len(used) + 1
        BY <2>6 DEF Progress
      <3>2. Len(used) < Len(batch) /\ Len(chosen) = Len(batch)
        BY <2>6 DEF Progress
      <3> QED BY <3>1, <3>2, <2>6, <1>0 DEF Progress
    <2>7. CASE \E result \in KernelResults : KernelReturns(result)
      <3>1. PICK result \in KernelResults : KernelReturns(result)
        BY <2>7
      <3>2. result.parser \in Backends \cup {None}
        BY DEF KernelResults
      <3>3. CASE IdentityKept(result) /\ result.valid
        BY <3>1, <3>2, <3>3, <2>6 DEF KernelReturns
      <3>4. CASE ~(IdentityKept(result) /\ result.valid)
        BY <3>1, <3>4 DEF KernelReturns, Fail, Progress
      <3> QED BY <3>3, <3>4
    <2>8. CASE \E answer \in ParseAnswers : ParseReturns(answer)
      <3>1. CASE UNCHANGED used
        BY <3>1, <2>8 DEF ParseReturns, Fail, Goto, Progress
      <3>2. CASE ~UNCHANGED used
        <4>1. pc = "parsing" /\ pc' = "parse" /\ UNCHANGED <<batch, chosen>>
              /\ used' = Append(used, chosen[Pos])
          BY <3>2, <2>8 DEF ParseReturns, Goto
        <4>2. chosen[Pos] \in Backends
          BY <4>1, <1>0 DEF Progress, Pos
        <4> QED BY <4>1, <4>2, <2>6
      <3> QED BY <3>1, <3>2
    <2>9. ASSUME NEW answer, NEW outputs, HostReturns(answer, outputs)
          PROVE  Progress'
      BY <2>9 DEF HostReturns, Fail, Progress
    <2> QED BY <1>3, <2>1, <2>2, <2>3, <2>4, <2>5, <2>7, <2>8, <2>9 DEF Run
  <1> QED BY <1>1, <1>2, <1>3 DEF Next, Environment

LEMMA ProgressInvariant == Spec => []Progress
  BY WorkflowInvariant, ProgressInit, ProgressNext, PTL DEF Spec

LEMMA HostNext ==
  ASSUME Inv, Progress, HostCalledOnce, [Next]_vars
  PROVE  HostCalledOnce'
  <1> USE DEF HostCalledOnce
  <1>1. CASE Mutate \/ Fire \/ UNCHANGED vars
    <2>1. UNCHANGED call
      BY <1>1, MutateSteps DEF RegistryStep, Fire, vars
    <2> QED BY <2>1 DEF call
  <1>2. CASE Observe
    BY <1>2 DEF Observe, ObserveProviders, ObserveParsers
  <1>3. CASE \E fits \in BOOLEAN : HostStart(fits)
    <2>1. PICK fits \in BOOLEAN : HostStart(fits)
      BY <1>3
    <2>2. ran = <<>>
      <3>1. SUFFICES ASSUME ran # <<>> PROVE FALSE
        OBVIOUS
      <3>2. ran[1] = Executor /\ Executor # Kernel
        BY <3>1, <2>1 DEF HostStart, Inv, RanCaptured
      <3> QED BY <3>1, <3>2, <2>1 DEF HostStart
    <2>3. Len(used) = Len(batch)
      <3>1. Len(batch) \in Nat /\ Len(used) \in Nat /\ Len(used) <= Len(batch)
        BY BatchLength DEF Progress
      <3> QED BY <3>1, <2>1 DEF HostStart, Pos
    <2>4. CASE ran' = <<>>
      BY <2>4
    <2>5. CASE ran' # <<>>
      <3>1. ran' = Append(ran, CalledHost) /\ pc' = "calling" /\ UNCHANGED <<used, batch>>
        BY <2>1, <2>2, <2>5 DEF HostStart, Checked, Goto
      <3>2. Len(ran') = 1
        BY <3>1, <2>2
      <3> QED BY <3>1, <3>2, <2>3
    <2> QED BY <2>4, <2>5
  <1>4. CASE KernelStart
    <2>1. Executor = Kernel
      BY <1>4 DEF KernelStart, Inv, RanCaptured
    <2>2. CASE ran = <<>>
      BY <2>2, <1>4 DEF KernelStart
    <2>3. CASE ran # <<>>
      <3>1. ran \in Seq({Kernel})
        BY <2>1, <2>3 DEF Inv, RanCaptured
      <3>2. ran' = ran \/ ran' = Append(ran, Kernel)
        BY <1>4 DEF KernelStart
      <3>3. ran' \in Seq({Kernel})
        BY <3>1, <3>2
      <3> QED BY <3>3
    <2> QED BY <2>2, <2>3
  <1>5. CASE Run /\ UNCHANGED ran
    <2>1. CASE ran = <<>> \/ ran[1] = Kernel
      BY <2>1, <1>5
    <2>2. CASE ran # <<>> /\ ran[1] # Kernel
      <3>1. pc = "calling"
        <4>1. pc \in {"calling", "done"}
          BY <2>2
        <4>2. pc # "done"
          BY <1>5 DEF Run, Call, CaptureProviders, CaptureParsers, Guard, Admit, Negotiate,
             Negotiated, ProbesReturn, KernelStart, KernelFails, KernelDone, KernelOverBudget,
             KernelReturns, ParseStart, ParseReturns, HostStart, HostReturns
        <4> QED BY <4>1, <4>2
      <3>2. PICK answer, outputs : HostReturns(answer, outputs)
        BY <3>1, <1>5 DEF Run, Call, CaptureProviders, CaptureParsers, Guard, Admit, Negotiate,
             Negotiated, ProbesReturn, KernelStart, KernelFails, KernelDone, KernelOverBudget,
             KernelReturns, ParseStart, ParseReturns, HostStart
      <3> QED BY <3>2, <2>2 DEF HostReturns, Fail
    <2> QED BY <2>1, <2>2
  <1>6. Run => \/ KernelStart \/ UNCHANGED ran
               \/ \E fits \in BOOLEAN : HostStart(fits)
    BY DEF Run, Call, CaptureProviders, CaptureParsers, Guard, Admit, Negotiate, Negotiated,
           ProbesReturn, KernelFails, KernelDone, KernelOverBudget, KernelReturns, ParseStart,
           ParseReturns, HostReturns
  <1> QED BY <1>1, <1>2, <1>3, <1>4, <1>5, <1>6 DEF Next, Environment

LEMMA HostInit == Init => HostCalledOnce
  BY DEF Init, HostCalledOnce

\* A host is called once for a batch, after the last of its items has been
\* parsed: execute_batch is neither repeated nor given part of a batch.
THEOREM HostIsCalledOnce == Spec => []HostCalledOnce
  BY WorkflowInvariant, ProgressInvariant, HostInit, HostNext, PTL DEF Spec

-----------------------------------------------------------------------------
(* Admission *)

\* What admission establishes for the whole batch.
Sound ==
  /\ Len(batch) \in 1..MaxOperations
  /\ \A n \in DOMAIN batch : ItemError(n) = "ok" /\ QueryError(n) = "ok"

SameGenerations == pinned => expP.gen = snapP.gen /\ expQ.gen = snapQ.gen

\* RejectedBeforeProbes with what the guard and admission hand on.
Rejected ==
  /\ pc \notin Executing \cup {"done"} => ~probed
  /\ pc \in Executing => SameGenerations
  /\ pc \in Executing \ {"admit"} => Sound
  /\ RejectedBeforeProbes

\* The item whose error FirstError reports is one of those with an error.
LEMMA FirstBadItem ==
  ASSUME batch \in Batches, NEW bad \in SUBSET DOMAIN batch, bad # {}
  PROVE  (CHOOSE n \in bad : \A m \in bad : n <= m) \in bad
  <1>1. bad \in SUBSET Nat
    BY BatchLength
  <1>2. \E n \in bad : \A m \in bad : n <= m
    BY <1>1, FirstBackend
  <1> QED BY <1>2

LEMMA AdmittedBatch ==
  ASSUME batch \in Batches, NEW fits \in BOOLEAN, BatchError(fits) = "ok"
  PROVE  Sound
  <1>1. /\ batch # <<>> /\ ~(Len(batch) > MaxOperations)
        /\ FirstError(ItemError) = "ok" /\ FirstError(QueryError) = "ok"
    BY DEF BatchError
  <1>2. Len(batch) \in 1..MaxOperations
    <2>1. Len(batch) # 0
      BY <1>1, WorkflowAssumption
    <2> QED BY <1>1, <2>1, BatchLength, WorkflowAssumption
  <1>3. \A n \in DOMAIN batch : ItemError(n) = "ok"
    <2> DEFINE bad == {n \in DOMAIN batch : ItemError(n) # "ok"}
    <2>1. bad # {} => ItemError(CHOOSE n \in bad : \A m \in bad : n <= m) = "ok"
      BY <1>1 DEF FirstError
    <2>2. bad # {} => (CHOOSE n \in bad : \A m \in bad : n <= m) \in bad
      BY FirstBadItem
    <2> QED BY <2>1, <2>2
  <1>4. \A n \in DOMAIN batch : QueryError(n) = "ok"
    <2> DEFINE bad == {n \in DOMAIN batch : QueryError(n) # "ok"}
    <2>1. bad # {} => QueryError(CHOOSE n \in bad : \A m \in bad : n <= m) = "ok"
      BY <1>1 DEF FirstError
    <2>2. bad # {} => (CHOOSE n \in bad : \A m \in bad : n <= m) \in bad
      BY FirstBadItem
    <2> QED BY <2>1, <2>2
  <1> QED BY <1>2, <1>3, <1>4 DEF Sound

\* Past the captures the verdict on the batch does not change any more.
LEMMA SoundStays ==
  ASSUME LaterStep
  PROVE  (Sound <=> Sound') /\ (SameGenerations <=> SameGenerations')
  BY DEF LaterStep, CallFrame, Sound, SameGenerations, ItemError, QueryError, Executor, Entry

LEMMA RejectedInit == Init => Rejected
  BY DEF Init, Rejected, RejectedBeforeProbes, Executing

LEMMA RejectedNext ==
  ASSUME Inv, Progress, Rejected, [Next]_vars
  PROVE  Rejected'
  <1>1. CASE Mutate \/ Fire \/ UNCHANGED vars
    <2>1. UNCHANGED call
      BY <1>1, MutateSteps DEF RegistryStep, Fire, vars
    <2> QED BY <2>1 DEF call, Rejected, RejectedBeforeProbes, Sound, SameGenerations,
                        ItemError, QueryError, Executor, Entry
  <1>2. CASE pc \notin Executing \cup {"done"} /\ pc' \notin Executing /\ UNCHANGED <<probed, ran>>
    <2>1. ~probed' /\ ran' = <<>>
      BY <1>2 DEF Rejected, Inv, RanCaptured
    <2> QED BY <1>2, <2>1 DEF Rejected, RejectedBeforeProbes, Executing
  <1>3. ASSUME pc \notin Executing \cup {"done"}, pc' = "admit", SameGenerations',
               UNCHANGED <<probed, ran>>
        PROVE  Rejected'
    <2>1. ~probed' /\ ran' = <<>>
      BY <1>3 DEF Rejected, Inv, RanCaptured
    <2> QED BY <1>3, <2>1 DEF Rejected, RejectedBeforeProbes, Executing
  <1>4. CASE Observe
    BY <1>4, <1>2 DEF Observe, ObserveProviders, ObserveParsers, Executing
  <1>5. CASE CaptureProviders \/ \E fits \in BOOLEAN : Call(fits)
    BY <1>5, <1>2 DEF Call, CaptureProviders, Budgeted, Checked, Goto, Fail, Executing
  <1>6. CASE CaptureParsers
    <2>1. CASE pinned
      BY <2>1, <1>6, <1>2 DEF CaptureParsers, Goto, Executing
    <2>2. CASE ~pinned
      BY <2>2, <1>6, <1>3 DEF CaptureParsers, Goto, Executing, SameGenerations
    <2> QED BY <2>1, <2>2
  <1>7. ASSUME NEW fits \in BOOLEAN, Guard(fits) PROVE Rejected'
    <2>1. CASE pc' = "done"
      BY <2>1, <1>7, <1>2 DEF Guard, Executing
    <2>2. CASE pc' # "done"
      <3>1. RegistryCurrent /\ pc' = "admit"
        BY <2>2, <1>7 DEF Guard, Budgeted, Checked, Goto, Fail
      <3>2. SameGenerations'
        BY <3>1, <1>7 DEF Guard, RegistryCurrent, Inventory, SameGenerations
      <3> QED BY <3>1, <3>2, <1>7, <1>3 DEF Guard, Executing
    <2> QED BY <2>1, <2>2
  <1>8. ASSUME NEW fits \in BOOLEAN, Admit(fits) PROVE Rejected'
    <2>1. LaterStep /\ UNCHANGED <<probed, ran>> /\ pc = "admit" /\ pc' \in {"negotiate", "done"}
      BY <1>8 DEF Admit, LaterStep, CallFrame, Checked, Goto, Fail
    <2>2. pc' = "negotiate" => Sound
      BY <1>8, AdmittedBatch DEF Admit, Checked, Goto, Fail, Progress
    <2>3. SameGenerations
      BY <2>1 DEF Rejected, Executing
    <2>4. RejectedBeforeProbes'
      <3>1. probed \/ ran # <<>> => Sound
        BY DEF Rejected, RejectedBeforeProbes, Sound
      <3> QED BY <3>1, <2>1, <2>3, SoundStays DEF RejectedBeforeProbes, Sound, SameGenerations
    <2> QED BY <2>1, <2>2, <2>3, <2>4, SoundStays DEF Rejected, Executing
  <1>9. ASSUME LaterStep, pc \in Executing \ {"admit"}, pc' \in (Executing \ {"admit"}) \cup {"done"}
        PROVE  Rejected'
    <2>1. Sound /\ SameGenerations
      BY <1>9 DEF Rejected
    <2>2. Sound' /\ SameGenerations'
      BY <2>1, <1>9, SoundStays
    <2> QED BY <2>2, <1>9 DEF Rejected, RejectedBeforeProbes, Sound, SameGenerations, Executing
  <1>10. CASE Run /\ ~(CaptureProviders \/ CaptureParsers
                      \/ \E fits \in BOOLEAN : Call(fits) \/ Guard(fits) \/ Admit(fits))
    <2>1. pc \in Executing \ {"admit"} /\ pc' # "admit"
      BY <1>10 DEF Run, Negotiate, Negotiated, ProbesReturn, KernelStart, KernelFails, KernelDone,
           KernelOverBudget, KernelReturns, ParseStart, ParseReturns, HostStart, HostReturns,
           Checked, Goto, Fail, Executing
    <2>2. ExecutionStep
      BY <1>10, NegotiationInv, KernelInv, HostInv DEF Run
    <2> QED BY <2>1, <2>2, <1>9 DEF ExecutionStep
  <1> QED BY <1>1, <1>4, <1>5, <1>6, <1>7, <1>8, <1>10 DEF Next, Environment, Run

\* No parser is probed and no executor runs for a batch with a bad item
\* anywhere in it, for one that is too large, or under registries that moved
\* since the caller of the pinned form observed them.
THEOREM BadBatchesAreRejectedFirst == Spec => []RejectedBeforeProbes
  <1>1. Rejected => RejectedBeforeProbes
    BY DEF Rejected
  <1> QED BY <1>1, WorkflowInvariant, ProgressInvariant, RejectedInit, RejectedNext, PTL
          DEF Spec

-----------------------------------------------------------------------------
(* The parser of each item *)

ItemResults == [rid : {batch[n].rid : n \in DOMAIN batch}, parser : Backends \cup {None}]

\* The kernel collects one result per processed item; a host's results are
\* only there once its answer has been accepted.
Collected ==
  IF pc \in {"kernel", "running"}
    THEN /\ results \in Seq(ItemResults) /\ Len(results) = Len(used)
         /\ \A n \in DOMAIN used :
              results[n].rid = batch[n].rid /\ results[n].parser = used[n]
    ELSE pc # "done" => results = <<>>

\* NegotiatedParserReported with what the phases hand on.
Handed ==
  /\ Collected
  /\ \A n \in DOMAIN used : used[n] \in {chosen[n], None}
  /\ pc \in {"parse", "parsing", "calling"} => \A n \in DOMAIN used : used[n] = chosen[n]
  /\ pc = "calling" => Len(used) = Len(batch)
  /\ outcome = "ok" => pc = "done"
  /\ NegotiatedParserReported

LEMMA HandedInit == Init => Handed
  BY DEF Init, Handed, Collected, NegotiatedParserReported

\* A failed call keeps nothing.
LEMMA FailHands ==
  ASSUME Handed, NEW e, e # "ok", Fail(e), UNCHANGED <<used, chosen>>
  PROVE  Handed'
  BY DEF Handed, Collected, NegotiatedParserReported, Fail

\* The steps before execution.
LEMMA EarlyHands ==
  ASSUME Handed, pc \notin {"kernel", "running", "calling", "done"},
         pc' \notin {"kernel", "running", "parse", "parsing", "calling", "done"},
         UNCHANGED <<used, results, outcome>>, used = <<>>
  PROVE  Handed'
  <1>1. DOMAIN used' = {} /\ outcome' # "ok" /\ results' = <<>>
    BY DEF Handed, Collected
  <1> QED BY <1>1 DEF Handed, Collected, NegotiatedParserReported

LEMMA NegotiationHands ==
  ASSUME Inv, Progress, Handed,
         Negotiate \/ Negotiated \/ \E usable \in SUBSET Backends : ProbesReturn(usable)
  PROVE  Handed'
  <1>0. used = <<>> /\ pc \in {"negotiate", "probing"} /\ UNCHANGED <<batch, used>>
    BY DEF Progress, Negotiate, Negotiated, ProbesReturn
  <1>1. CASE Negotiate
    BY <1>0, <1>1, FailHands, EarlyHands DEF Negotiate, Goto
  <1>2. CASE \E usable \in SUBSET Backends : ProbesReturn(usable)
    BY <1>0, <1>2, FailHands, EarlyHands DEF ProbesReturn, Goto
  <1>3. CASE Negotiated
    <2>1. results' = <<>> /\ DOMAIN used' = {} /\ outcome' # "ok" /\ pc' \in {"kernel", "parse"}
      BY <1>0, <1>3 DEF Handed, Collected, Negotiated, Goto
    <2>2. results' \in Seq(ItemResults') /\ Len(results') = Len(used')
      BY <2>1, <1>0
    <2> QED BY <2>1, <2>2 DEF Handed, Collected, NegotiatedParserReported
  <1> QED BY <1>1, <1>2, <1>3

\* The identity check keeps what names the negotiated parser, or none.
LEMMA KernelHands ==
  ASSUME Inv, Progress, Handed,
         KernelStart \/ KernelFails \/ KernelDone \/ KernelOverBudget
           \/ \E result \in KernelResults : KernelReturns(result)
  PROVE  Handed'
  <1>0. Executor = Kernel /\ Executor' = Kernel
    BY DEF Inv, RanCaptured, KernelStart, KernelFails, KernelDone, KernelOverBudget,
           KernelReturns, Executor, Entry
  <1>1. Len(batch) \in Nat /\ DOMAIN batch = 1..Len(batch) /\ Len(used) \in Nat
        /\ DOMAIN used = 1..Len(used) /\ UNCHANGED <<batch, chosen>>
    <2>1. UNCHANGED <<batch, chosen>>
      BY DEF KernelStart, KernelFails, KernelDone, KernelOverBudget, KernelReturns
    <2> QED BY <2>1, BatchLength DEF Progress
  <1>2. CASE KernelStart
    <2>1. CASE fired
      BY <2>1, <1>2, FailHands DEF KernelStart, Checked
    <2>2. CASE ~fired
      <3>1. pc = "kernel" /\ pc' = "running" /\ UNCHANGED <<used, results, outcome>>
        BY <2>2, <1>2 DEF KernelStart, Checked, Goto
      <3>2. ItemResults' = ItemResults
        BY <1>1 DEF ItemResults
      <3> QED BY <3>1, <3>2, <1>1 DEF Handed, Collected, NegotiatedParserReported
    <2> QED BY <2>1, <2>2
  <1>3. CASE KernelDone
    <2>1. CASE fired
      BY <2>1, <1>3, FailHands DEF KernelDone
    <2>2. CASE ~fired
      <3>1. Len(used) = Len(batch)
        BY <1>1, <1>3 DEF KernelDone, Pos, Progress
      <3>2. Len(results) = Len(batch) /\ DOMAIN results = DOMAIN used
            /\ \A n \in DOMAIN used :
                 results[n].rid = batch[n].rid /\ results[n].parser = used[n]
        BY <3>1, <1>1, <1>3 DEF Handed, Collected, KernelDone
      <3>3. \A n \in DOMAIN used : used[n] \in {chosen[n], None}
        BY DEF Handed
      <3>4. UNCHANGED <<results, used>> /\ pc' = "done"
        BY <2>2, <1>3 DEF KernelDone
      <3>5. NegotiatedParserReported'
        BY <3>2, <3>3, <3>4, <1>0, <1>1 DEF NegotiatedParserReported
      <3>6. (\A n \in DOMAIN used : used[n] \in {chosen[n], None})'
        BY <3>3, <3>4, <1>1
      <3> QED BY <3>4, <3>5, <3>6 DEF Handed, Collected
    <2> QED BY <2>1, <2>2
  <1>4. CASE KernelOverBudget \/ KernelFails
    BY <1>4, FailHands DEF KernelOverBudget, KernelFails
  <1>5. CASE \E result \in KernelResults : KernelReturns(result)
    <2>1. PICK result \in KernelResults : KernelReturns(result)
      BY <1>5
    <2> DEFINE parser == result.parser
    <2>2. CASE ~(IdentityKept(result) /\ result.valid)
      BY <2>1, <2>2, FailHands DEF KernelReturns
    <2>3. CASE IdentityKept(result) /\ result.valid
      <3>0. parser \in Backends \cup {None}
        BY DEF KernelResults
      <3>1. /\ used' = Append(used, parser)
            /\ results' = Append(results, [rid |-> batch[Pos].rid, parser |-> parser])
            /\ pc' = "kernel" /\ pc = "running" /\ UNCHANGED outcome
            /\ parser \in {chosen[Pos], None}
        BY <2>1, <2>3 DEF KernelReturns, IdentityKept
      <3> HIDE DEF parser
      <3>2. /\ results \in Seq(ItemResults) /\ Len(results) = Len(used)
            /\ \A n \in DOMAIN used :
                 results[n].rid = batch[n].rid /\ results[n].parser = used[n]
            /\ outcome # "ok"
            /\ \A n \in DOMAIN used : used[n] \in {chosen[n], None}
        BY <3>1 DEF Handed, Collected, NegotiatedParserReported
      <3>3. Pos \in DOMAIN batch /\ Pos = Len(used) + 1
        BY <3>1, <1>1 DEF Progress, Pos
      <3>4. [rid |-> batch[Pos].rid, parser |-> parser] \in ItemResults /\ ItemResults' = ItemResults
        BY <3>0, <3>3, <1>1 DEF ItemResults
      <3>5. /\ used' \in Seq(Backends \cup {None}) /\ Len(used') = Len(used) + 1
            /\ DOMAIN used' = 1..(Len(used) + 1)
            /\ \A n \in DOMAIN used : used'[n] = used[n]
            /\ used'[Len(used) + 1] = parser
        BY <3>0, <3>1, <1>1 DEF Progress
      <3>6. /\ results' \in Seq(ItemResults) /\ Len(results') = Len(used')
            /\ \A n \in DOMAIN used : results'[n] = results[n]
            /\ results'[Len(used) + 1] = [rid |-> batch[Pos].rid, parser |-> parser]
        <4> HIDE DEF ItemResults
        <4> DEFINE r == [rid |-> batch[Pos].rid, parser |-> parser]
        <4>1. r \in ItemResults /\ results' = Append(results, r)
          BY <3>1, <3>4
        <4> HIDE DEF r
        <4>2. results' \in Seq(ItemResults) /\ Len(results') = Len(results) + 1
              /\ (\A n \in 1..Len(results) : results'[n] = results[n])
              /\ results'[Len(results) + 1] = r
          BY <4>1, <3>2
        <4> QED BY <4>2, <3>2, <3>5, <1>1 DEF r
      <3>7. \A n \in DOMAIN used' :
              /\ results'[n].rid = batch[n].rid /\ results'[n].parser = used'[n]
              /\ used'[n] \in {chosen[n], None}
        <4> TAKE n \in DOMAIN used'
        <4>1. CASE n \in DOMAIN used
          BY <4>1, <3>2, <3>5, <3>6
        <4>2. CASE n = Len(used) + 1
          BY <4>2, <3>1, <3>3, <3>5, <3>6
        <4> QED BY <4>1, <4>2, <3>5, <1>1
      <3>8. DOMAIN results' = DOMAIN used'
        BY <3>5, <3>6
      <3>9. NegotiatedParserReported'
        BY <3>1, <3>2, <3>7, <3>8, <1>1 DEF NegotiatedParserReported
      <3>10. Collected'
        BY <3>1, <3>4, <3>6, <3>7, <1>1 DEF Collected
      <3> QED BY <3>1, <3>2, <3>7, <3>9, <3>10, <1>1 DEF Handed
    <2> QED BY <2>2, <2>3
  <1> QED BY <1>2, <1>3, <1>4, <1>5

\* An answer of a host that is accepted has one result per item.
LEMMA AcceptedAnswer ==
  ASSUME NEW outputs \in HostOutputs, batch \in Batches, Len(batch) \in Nat \ {0},
         ResponseError("outputs", outputs) = "ok"
  PROVE  /\ Len(outputs) = Len(batch) /\ DOMAIN outputs = 1..Len(batch)
         /\ \A n \in DOMAIN outputs :
              outputs[n].rid = batch[n].rid /\ outputs[n].parser = chosen[n]
  <1> DEFINE R == [rid : {batch[m].rid : m \in DOMAIN batch}, parser : Backends \cup {None}]
  <1>1. PICK k \in (Len(batch) - 1)..(Len(batch) + 1) : outputs \in [1..k -> R]
    BY DEF HostOutputs
  <1> HIDE DEF R
  <1>2. k \in Nat
    OBVIOUS
  <1>3. outputs \in Seq(R)
    BY <1>1, <1>2
  <1>4. DOMAIN outputs = 1..Len(outputs)
    BY <1>3
  <1> QED BY <1>4 DEF ResponseError

LEMMA HostHands ==
  ASSUME Inv, Progress, Rejected, Handed,
         \/ ParseStart
         \/ \E answer \in ParseAnswers : ParseReturns(answer)
         \/ \E fits \in BOOLEAN : HostStart(fits)
         \/ \E answer \in HostAnswers \ {"outputs"} : HostReturns(answer, <<>>)
         \/ \E outputs \in HostOutputs : HostReturns("outputs", outputs)
  PROVE  Handed'
  <1>1. Len(batch) \in Nat /\ DOMAIN batch = 1..Len(batch) /\ Len(used) \in Nat
        /\ DOMAIN used = 1..Len(used) /\ UNCHANGED <<batch, chosen>>
    BY BatchLength DEF Progress, ParseStart, ParseReturns, HostStart, HostReturns
  <1>2. CASE ParseStart
    <2>1. CASE fired
      BY <2>1, <1>2, FailHands DEF ParseStart, Checked
    <2>2. CASE ~fired
      BY <2>2, <1>2 DEF ParseStart, Checked, Goto, Handed, Collected, NegotiatedParserReported
    <2> QED BY <2>1, <2>2
  <1>3. CASE \E answer \in ParseAnswers : ParseReturns(answer)
    <2>1. CASE UNCHANGED used /\ \E e : e # "ok" /\ Fail(e)
      BY <2>1, <1>1, FailHands
    <2>2. CASE used' = Append(used, chosen[Pos]) /\ Goto("parse") /\ pc = "parsing"
      <3>1. /\ Len(used') = Len(used) + 1 /\ DOMAIN used' = 1..(Len(used) + 1)
            /\ \A n \in DOMAIN used : used'[n] = used[n]
            /\ used'[Len(used) + 1] = chosen[Len(used) + 1]
        BY <2>2, <1>1 DEF Progress, Pos
      <3>2. \A n \in DOMAIN used' : used'[n] = chosen[n]
        <4> TAKE n \in DOMAIN used'
        <4>1. n \in DOMAIN used \/ n = Len(used) + 1
          BY <3>1, <1>1
        <4> QED BY <4>1, <3>1, <2>2 DEF Handed
      <3>3. results' = <<>> /\ outcome' # "ok" /\ pc' = "parse"
        BY <2>2 DEF Handed, Collected, Goto
      <3>4. NegotiatedParserReported' /\ Collected'
        BY <3>3 DEF NegotiatedParserReported, Collected
      <3> QED BY <3>2, <3>3, <3>4, <1>1 DEF Handed
    <2> QED BY <1>3, <2>1, <2>2 DEF ParseReturns
  <1>4. CASE \E fits \in BOOLEAN : HostStart(fits)
    <2>1. CASE UNCHANGED used /\ \E e : e # "ok" /\ Fail(e)
      BY <2>1, <1>1, FailHands
    <2>2. CASE Goto("calling")
      <3>1. Len(used) = Len(batch) /\ pc = "parse" /\ UNCHANGED used
        BY <1>1, <1>4 DEF HostStart, Pos, Progress
      <3> QED BY <3>1, <2>2, <1>1 DEF Goto, Handed, Collected, NegotiatedParserReported
    <2> QED BY <1>4, <2>1, <2>2 DEF HostStart, Checked
  <1>5. CASE \E answer \in HostAnswers \ {"outputs"} : HostReturns(answer, <<>>)
    <2>1. UNCHANGED used /\ \E e : e # "ok" /\ Fail(e)
      BY <1>5 DEF HostReturns, ResponseError, HostAnswers
    <2> QED BY <2>1, <1>1, FailHands
  <1>6. ASSUME NEW outputs \in HostOutputs, HostReturns("outputs", outputs)
        PROVE  Handed'
    <2>0. UNCHANGED used /\ pc = "calling"
      BY <1>6 DEF HostReturns
    <2>1. CASE \E e : e # "ok" /\ Fail(e)
      BY <2>0, <2>1, <1>1, FailHands
    <2>2. CASE ~\E e : e # "ok" /\ Fail(e)
      <3>1. ResponseError("outputs", outputs) = "ok" /\ pc' = "done" /\ results' = outputs
        BY <1>6, <2>2 DEF HostReturns
      <3>2. Len(batch) \in Nat \ {0} /\ batch \in Batches
        BY <2>0, <1>1, WorkflowAssumption DEF Rejected, Sound, Executing, Progress
      <3>3. /\ Len(outputs) = Len(batch) /\ DOMAIN outputs = 1..Len(batch)
            /\ \A n \in DOMAIN outputs :
                 outputs[n].rid = batch[n].rid /\ outputs[n].parser = chosen[n]
        BY <3>1, <3>2, AcceptedAnswer
      <3>4. DOMAIN used = 1..Len(batch) /\ \A n \in DOMAIN used : used[n] = chosen[n]
        BY <2>0, <1>1 DEF Handed
      <3>5. NegotiatedParserReported'
        BY <3>1, <3>3, <3>4, <2>0, <1>1 DEF NegotiatedParserReported
      <3>6. (\A n \in DOMAIN used : used[n] \in {chosen[n], None})'
        BY <3>4, <2>0, <1>1
      <3> QED BY <3>1, <3>5, <3>6 DEF Handed, Collected
    <2> QED BY <2>1, <2>2
  <1> QED BY <1>2, <1>3, <1>4, <1>5, <1>6

LEMMA HandedNext ==
  ASSUME Inv, Progress, Rejected, Handed, [Next]_vars
  PROVE  Handed'
  <1>1. CASE Mutate \/ Fire \/ UNCHANGED vars
    <2>1. UNCHANGED call
      BY <1>1, MutateSteps DEF RegistryStep, Fire, vars
    <2> QED BY <2>1 DEF call, Handed, Collected, ItemResults, NegotiatedParserReported, Executor, Entry
  <1>2. CASE Observe
    BY <1>2, EarlyHands DEF Observe, ObserveProviders, ObserveParsers, Progress
  <1>3. CASE CaptureProviders \/ CaptureParsers
             \/ \E fits \in BOOLEAN : Call(fits) \/ Guard(fits) \/ Admit(fits)
    <2>1. used = <<>> /\ UNCHANGED <<used, chosen>>
          /\ pc \in {"idle", "snapP", "snapQ", "guard", "admit"}
      BY <1>3 DEF Call, CaptureProviders, CaptureParsers, Guard, Admit, Progress
    <2>2. CASE \E e : e # "ok" /\ Fail(e)
      BY <2>1, <2>2, FailHands
    <2>3. CASE \E p \in {"snapP", "snapQ", "guard", "admit", "negotiate"} : Goto(p)
      BY <2>1, <2>3, EarlyHands DEF Goto
    <2> QED BY <1>3, <2>2, <2>3 DEF Call, CaptureProviders, CaptureParsers, Guard, Admit,
                                         Budgeted, Checked
  <1> QED BY <1>1, <1>2, <1>3, NegotiationHands, KernelHands, HostHands
          DEF Next, Environment, Run

\* Whatever a kernel or a host claims to have parsed with, a result is kept
\* only under its own item and with the parser negotiated for that item, for
\* every batch; a successful batch has one such result per item, in order.
THEOREM NegotiatedParsersAreReported == Spec => []NegotiatedParserReported
  <1>1. Spec => []Rejected
    BY WorkflowInvariant, ProgressInvariant, RejectedInit, RejectedNext, PTL DEF Spec
  <1>2. Handed => NegotiatedParserReported
    BY DEF Handed
  <1> QED BY <1>1, <1>2, WorkflowInvariant, ProgressInvariant, HandedInit, HandedNext, PTL
          DEF Spec


-----------------------------------------------------------------------------
(* The registry of providers.  Every call of MergeProviderRegistry is one  *)
(* atomic step; that it stays within its capacity and is an atomic         *)
(* versioned map holds of any sequence of its calls.                       *)

Providers == INSTANCE MergeProviderRegistry
               WITH generation <- pgen, entries <- pent,
                    Executors <- Hosts \cup {Kernel}, MaxGeneration <- MaxProviderGeneration

providerVars == <<pgen, pent>>

\* Cardinality means the same inside and outside of the instance.
LEMMA SameCardinality ==
  /\ \A S : Providers!Cardinality(S) = Cardinality(S)
  /\ \A S : Providers!IsFiniteSet(S) <=> IsFiniteSet(S)
<1>1. \A S : Providers!Cardinality(S) = Cardinality(S)
  BY DEF Providers!Cardinality, Cardinality
<1>2. \A S : Providers!IsFiniteSet(S) <=> IsFiniteSet(S)
  BY DEF Providers!IsFiniteSet, IsFiniteSet
<1> QED BY <1>1, <1>2

\* A registry step is one of the four commits or leaves the map alone.
LEMMA ProviderStepCases ==
  ASSUME [Providers!Next]_providerVars
  PROVE  \/ UNCHANGED providerVars
         \/ \E i \in Ids, e \in Providers!Entries :
              /\ pent' = [pent EXCEPT ![i] = e]
              /\ pgen' = pgen + 1 /\ pgen # MaxProviderGeneration
              /\ \/ pent[i] = None /\ ~(Cardinality(Providers!Registered(pent)) >= MaxProviders)
                 \/ pent[i] # None
         \/ \E i \in Ids :
              /\ pent' = [pent EXCEPT ![i] = None] /\ pent[i] # None
              /\ pgen' = pgen + 1 /\ pgen # MaxProviderGeneration
         \/ /\ pent' = [i \in Ids |-> None]
            /\ pgen' = pgen + 1 /\ pgen # MaxProviderGeneration
<1>1. CASE \E i \in Ids, e \in Providers!Entries : Providers!Register(i, e)
  BY <1>1, SameCardinality DEF Providers!Register, Providers!RegisterError, Providers!Commit,
         Providers!Registered, providerVars
<1>2. CASE \E i \in Ids, e \in Providers!Entries, g \in 0..MaxProviderGeneration : Providers!Replace(i, e, g)
  BY <1>2 DEF Providers!Replace, Providers!ChangeError, Providers!Commit, providerVars
<1>3. CASE \E i \in Ids, g \in 0..MaxProviderGeneration : Providers!Unregister(i, g)
  BY <1>3 DEF Providers!Unregister, Providers!ChangeError, Providers!Commit, providerVars
<1>4. CASE \E g \in 0..MaxProviderGeneration : Providers!Clear(g)
  BY <1>4 DEF Providers!Clear, Providers!ClearError, Providers!Commit, providerVars
<1> QED BY <1>1, <1>2, <1>3, <1>4 DEF Providers!Next

\* Type correctness: the generation never passes its limit, and absence is
\* the only value that is no entry.
THEOREM ProviderRegistryTypes ==
  ASSUME Providers!MergeRegistryConstants
  PROVE  Providers!Spec => []Providers!TypeOK
<1> USE DEF Providers!MergeRegistryConstants
<1>1. Providers!Init => Providers!TypeOK
  BY DEF Providers!Init, Providers!TypeOK
<1>2. Providers!TypeOK /\ [Providers!Next]_providerVars => Providers!TypeOK'
  <2> SUFFICES ASSUME Providers!TypeOK, [Providers!Next]_providerVars
               PROVE  Providers!TypeOK'
    OBVIOUS
  <2>1. CASE UNCHANGED providerVars
    BY <2>1 DEF Providers!TypeOK, providerVars
  <2>2. CASE /\ pgen' = pgen + 1 /\ pgen # MaxProviderGeneration
             /\ pent' \in [Ids -> Providers!Entries \cup {None}]
    BY <2>2 DEF Providers!TypeOK
  <2> QED BY <2>1, <2>2, ProviderStepCases DEF Providers!TypeOK
<1> QED BY <1>1, <1>2, PTL DEF Providers!Spec, providerVars

\* No path but register adds an ID, and register compares the size before it
\* inserts: the registry never holds more than its capacity.
THEOREM CapacityIsRespected ==
  ASSUME Providers!MergeRegistryConstants
  PROVE  Providers!Spec => []Providers!CapacityRespected
<1> USE SameCardinality DEF Providers!MergeRegistryConstants
<1>1. Providers!Init => Providers!CapacityRespected
  <2> SUFFICES ASSUME Providers!Init PROVE Providers!CapacityRespected
    OBVIOUS
  <2>1. Providers!Registered(pent) = {}
    BY DEF Providers!Init, Providers!Registered
  <2> QED BY <2>1, FS_EmptySet DEF Providers!CapacityRespected
<1>2. Providers!TypeOK /\ Providers!CapacityRespected /\ [Providers!Next]_providerVars => Providers!CapacityRespected'
  <2> SUFFICES ASSUME Providers!TypeOK, Providers!CapacityRespected, [Providers!Next]_providerVars
               PROVE  Cardinality(Providers!Registered(pent)') <= MaxProviders
    BY DEF Providers!CapacityRespected
  <2>1. IsFiniteSet(Providers!Registered(pent)) /\ Cardinality(Providers!Registered(pent)) \in Nat
    BY FS_Subset, FS_CardinalityType DEF Providers!Registered
  <2>2. ASSUME Providers!Registered(pent)' \subseteq Providers!Registered(pent)
        PROVE  Cardinality(Providers!Registered(pent)') <= MaxProviders
    <3>1. /\ Cardinality(Providers!Registered(pent)') \in Nat
          /\ Cardinality(Providers!Registered(pent)') <= Cardinality(Providers!Registered(pent))
      BY <2>1, <2>2, FS_Subset, FS_CardinalityType
    <3> QED BY <2>1, <3>1 DEF Providers!CapacityRespected
  <2>3. CASE UNCHANGED providerVars
    BY <2>2, <2>3 DEF providerVars, Providers!Registered
  <2>4. ASSUME NEW i \in Ids, NEW e \in Providers!Entries,
               pent' = [pent EXCEPT ![i] = e], pent[i] = None,
               ~(Cardinality(Providers!Registered(pent)) >= MaxProviders)
        PROVE  Cardinality(Providers!Registered(pent)') <= MaxProviders
    <3>1. Providers!Registered(pent)' = Providers!Registered(pent) \cup {i} /\ i \notin Providers!Registered(pent)
      BY <2>4 DEF Providers!Registered, Providers!TypeOK
    <3>2. Cardinality(Providers!Registered(pent)') = Cardinality(Providers!Registered(pent)) + 1
      BY <2>1, <3>1, FS_AddElement
    <3> QED BY <2>1, <2>4, <3>2
  <2>5. ASSUME NEW i \in Ids, NEW e, pent' = [pent EXCEPT ![i] = e],
               pent[i] # None
        PROVE  Cardinality(Providers!Registered(pent)') <= MaxProviders
    <3>1. Providers!Registered(pent)' \subseteq Providers!Registered(pent)
      BY <2>5 DEF Providers!Registered, Providers!TypeOK
    <3> QED BY <2>2, <3>1
  <2>6. CASE pent' = [i \in Ids |-> None]
    BY <2>2, <2>6 DEF Providers!Registered
  <2> QED BY <2>3, <2>4, <2>5, <2>6, ProviderStepCases
<1> QED BY <1>1, <1>2, ProviderRegistryTypes, PTL DEF Providers!Spec, providerVars

\* Each successful call is one addition, exchange, removal or reset of the
\* abstract map and advances its generation by one; a failed call is a
\* stuttering step.
THEOREM MergeRegistryIsVersioned ==
  ASSUME Providers!MergeRegistryConstants
  PROVE  Providers!Spec => Providers!ImplementsVersionedRegistry
<1> USE DEF Providers!MergeRegistryConstants
<1>1. Providers!Init => Providers!Versioned!Init
  BY DEF Providers!Init, Providers!Versioned!Init
<1>2. Providers!TypeOK /\ [Providers!Next]_providerVars => [Providers!Versioned!Next]_<<pgen, pent>>
  <2> SUFFICES ASSUME Providers!TypeOK, [Providers!Next]_providerVars, ~UNCHANGED <<pgen, pent>>
               PROVE  Providers!Versioned!Next
    OBVIOUS
  <2>1. pgen' = pgen + 1 /\ pgen # MaxProviderGeneration => Providers!Versioned!Advance
    BY DEF Providers!Versioned!Advance, Providers!TypeOK
  <2> QED
    BY <2>1, ProviderStepCases
    DEF Providers!Versioned!Next, Providers!Versioned!Add, Providers!Versioned!Swap, Providers!Versioned!Remove,
        Providers!Versioned!RemoveAll, providerVars
<1> QED
  BY <1>1, <1>2, ProviderRegistryTypes, PTL
  DEF Providers!Spec, Providers!ImplementsVersionedRegistry, Providers!Versioned!Spec, providerVars

\* What the workflow runtime's registrations do to the provider registry are
\* calls of MergeProviderRegistry; nothing else in a batch changes it.
LEMMA ProviderCalls ==
  ASSUME Providers!MergeRegistryConstants, pgen \in Nat, [Next]_vars
  PROVE  [Providers!Next]_providerVars /\ pgen' \in Nat
  <1> USE DEF providerVars, Providers!MergeRegistryConstants
  <1>1. CASE UNCHANGED <<pgen, pent>>
    BY <1>1
  <1>2. ASSUME NEW i \in Ids, NEW d \in Descriptors, NEW h \in Hosts,
               RegisterWorkflowHost(i, d, h) \/ ReplaceWorkflowHost(i, d, h)
        PROVE  [Providers!Next]_providerVars /\ pgen' \in Nat
    <2> DEFINE e == [desc |-> d, exec |-> h]
    <2>1. /\ pgen < MaxProviderGeneration /\ pgen' = pgen + 1
          /\ pent' = [pent EXCEPT ![i] = e] /\ Providers!Commit([pent EXCEPT ![i] = e])
      BY <1>2 DEF RegisterWorkflowHost, ReplaceWorkflowHost, ChangeProviders, Providers!Commit
    <2>2. e \in Providers!Entries
      BY DEF Providers!Entries
    <2> HIDE DEF e
    <2>3. CASE pent[i] = None
      <3>1. Cardinality({j \in Ids : pent[j] # None}) < MaxProviders
        BY <1>2, <2>3 DEF RegisterWorkflowHost, ReplaceWorkflowHost
      <3>2. /\ Providers!Registered(pent) = {j \in Ids : pent[j] # None}
            /\ Providers!Registered(pent) \in SUBSET Ids
        BY DEF Providers!Registered
      <3>3. Cardinality(Providers!Registered(pent)) \in Nat
        BY <3>2, SameCardinality, FS_Subset, FS_CardinalityType
      <3>4. ~(Cardinality(Providers!Registered(pent)) >= MaxProviders)
        BY <3>1, <3>2, <3>3
      <3>5. Providers!RegisterError(i) = "ok"
        BY <2>1, <2>3, <3>4, SameCardinality DEF Providers!RegisterError
      <3>6. Providers!Register(i, e)
        BY <2>1, <3>5 DEF Providers!Register
      <3> QED BY <2>1, <2>2, <3>6 DEF Providers!Next
    <2>4. CASE pent[i] # None
      <3>1. pgen \in 0..MaxProviderGeneration /\ Providers!ChangeError(i, pgen) = "ok"
        BY <2>1, <2>4 DEF Providers!ChangeError
      <3>2. Providers!Replace(i, e, pgen)
        BY <2>1, <3>1 DEF Providers!Replace
      <3> QED BY <2>1, <2>2, <3>1, <3>2 DEF Providers!Next
    <2> QED BY <2>3, <2>4
  <1>3. ASSUME NEW i \in Ids, UnregisterWorkflowHost(i)
        PROVE  [Providers!Next]_providerVars /\ pgen' \in Nat
    <2>1. /\ pgen < MaxProviderGeneration /\ pgen' = pgen + 1 /\ pent[i] # None
          /\ Providers!Commit([pent EXCEPT ![i] = None])
      BY <1>3 DEF UnregisterWorkflowHost, ChangeProviders, Providers!Commit
    <2>2. pgen \in 0..MaxProviderGeneration /\ Providers!ChangeError(i, pgen) = "ok"
      BY <2>1 DEF Providers!ChangeError
    <2>3. Providers!Unregister(i, pgen)
      BY <2>1, <2>2 DEF Providers!Unregister
    <2> QED BY <2>1, <2>2, <2>3 DEF Providers!Next
  <1>4. CASE \E b \in Backends, e \in ParserEntries \cup {None} : ChangeParser(b, e)
    BY <1>1, <1>4 DEF ChangeParser
  <1>5. CASE Run \/ Observe \/ Fire \/ UNCHANGED vars
    BY <1>1, <1>5
    DEF Run, Observe, Fire, vars, registries, Call, CaptureProviders, CaptureParsers, Guard,
        Admit, Negotiate, Negotiated, ProbesReturn, KernelStart, KernelFails, KernelDone, KernelOverBudget,
        KernelReturns, ParseStart, ParseReturns, HostStart, HostReturns, ObserveProviders,
        ObserveParsers
  <1> QED BY <1>2, <1>3, <1>4, <1>5 DEF Next, Environment, Mutate

\* Whatever happens around a batch, the provider registry moves only by
\* calls of MergeProviderRegistry: the two models agree on it.
THEOREM ProvidersChangeByRegistryCalls ==
  ASSUME Providers!MergeRegistryConstants
  PROVE  Spec => [][Providers!Next]_providerVars
<1>1. Init => pgen \in Nat
  <2> SUFFICES ASSUME Init PROVE pgen \in Nat
    OBVIOUS
  <2>1. IsFiniteSet(Reserved)
    BY WorkflowAssumption, SameCardinality, FS_Subset DEF Providers!MergeRegistryConstants
  <2> QED BY <2>1, FS_CardinalityType DEF Init
<1>2. pgen \in Nat /\ [Next]_vars => [Providers!Next]_providerVars /\ (pgen \in Nat)'
  BY ProviderCalls
<1> QED BY <1>1, <1>2, PTL DEF Spec
=============================================================================
