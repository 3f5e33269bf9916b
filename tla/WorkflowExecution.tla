------------------------- MODULE WorkflowExecution -------------------------
(***************************************************************************)
(* One workflow batch (crates/structuredmerge-core/src/workflow.rs) against *)
(* two registries that other threads keep changing.  The call captures a   *)
(* provider snapshot and then a parser snapshot, at two instants; in the   *)
(* pinned form (execute_workflow_batch_at_registry) it first compares both *)
(* with inventories its caller observed earlier.  It then admits the whole *)
(* batch, negotiates a parser per item, and runs either the compiled       *)
(* kernel or a host callback.  Both registries are atomic versioned maps   *)
(* here, which is what MergeProviderRegistry and ParserRegistry implement. *)
(***************************************************************************)
EXTENDS Integers, Sequences, FiniteSets

CONSTANTS
  Ids, Reserved,       \* provider IDs; the compiled ones
  Backends,            \* parser IDs: numbers, in ID order
  Descriptors,         \* provider declarations: ops, allowed (backends; {} is any)
  Hosts, Kernel,       \* executors: host callbacks, the compiled kernel
  ParserDecls, ParserHandles,
  Batches,             \* batches a caller may submit
  MaxOperations,       \* WorkflowLimits::max_operations
  MaxProviders,
  MaxProviderGeneration, MaxParserGeneration,  \* bounds on registry changes
  None

ASSUME WorkflowAssumption ==
  /\ Reserved \subseteq Ids
  /\ Backends \subseteq Nat /\ IsFiniteSet(Backends)
  /\ \A b \in Batches : b \in Seq({b[n] : n \in DOMAIN b})
  /\ MaxOperations \in Nat
  /\ Kernel \notin Hosts
  /\ None \notin Hosts \cup {Kernel} \cup Backends

VARIABLES
  pgen, pent,          \* provider registry: generation, ID -> entry
  qgen, qent,          \* parser registry
  coexisted,           \* history: the pairs of maps that were current together
  expP, expQ,          \* inventories the caller observed
  pinned, provider, batch,  \* arguments of the call
  pc,                  \* where the call is
  snapP, snapQ,        \* captured snapshots
  fired,               \* cancelled, or past the deadline
  chosen,              \* per negotiated item, its parser
  used,                \* per processed item, the parser that parsed it
  ran,                 \* history: executors invoked for the batch, in order
  probed,              \* history: some parser probe was started
  late,                \* history: a callback came back after control fired
  results, outcome

registries == <<pgen, pent, qgen, qent, coexisted>>
call == <<expP, expQ, pinned, provider, batch, pc, snapP, snapQ, chosen, used,
          ran, probed, late, results, outcome>>
vars == <<registries, call, fired>>

ProviderEntries == [desc : Descriptors, exec : Hosts \cup {Kernel}]
ParserEntries   == [decl : ParserDecls, handle : ParserHandles]

\* A captured registry; its digest covers declarations, never handles.
Snapshot(g, map) == [gen |-> g, map |-> map]
ProviderDigest(map) == [i \in Ids |-> IF map[i] = None THEN None ELSE map[i].desc]
ParserDigest(map) == [b \in Backends |-> IF map[b] = None THEN None ELSE map[b].decl]

\* What an inventory tells its reader.
Inventory(g, digest) == [gen |-> g, digest |-> digest]

\* The process has initialized its compiled registry, and every parser is
\* registered.
Init ==
  /\ pent \in [Ids -> ProviderEntries \cup {None}]
  /\ \A i \in Ids : IF i \in Reserved THEN pent[i] # None /\ pent[i].exec = Kernel
                    ELSE pent[i] = None
  /\ pgen = Cardinality(Reserved)
  /\ qent \in [Backends -> ParserEntries]
  /\ \A b, c \in Backends : qent[b] = qent[c]
  /\ qgen = Cardinality(Backends)
  /\ coexisted = {<<pgen, pent, qgen, qent>>}
  /\ expP = None /\ expQ = None
  /\ pinned \in BOOLEAN /\ provider \in Ids /\ batch \in Batches
  /\ pc = "idle" /\ snapP = None /\ snapQ = None
  /\ fired = FALSE
  /\ chosen = <<>> /\ used = <<>> /\ ran = <<>>
  /\ probed = FALSE /\ late = FALSE
  /\ results = <<>> /\ outcome = "running"

-----------------------------------------------------------------------------
(* Other threads: registry changes at any time, also during callbacks.     *)
(* Calls that fail change nothing and are left out.                        *)

Record == coexisted' = coexisted \cup {<<pgen', pent', qgen', qent'>>}

ChangeProviders(map) ==
  /\ pgen < MaxProviderGeneration
  /\ pgen' = pgen + 1 /\ pent' = map
  /\ UNCHANGED <<qgen, qent, call, fired>>
  /\ Record

\* Fault: the check covers registration only.
RequireHostId_Nothing(i) == TRUE

\* require_host_id
RequireHostId(i) == i \notin Reserved

RegisterWorkflowHost(i, d, h) ==
  /\ RequireHostId(i)
  /\ pent[i] = None
  /\ Cardinality({j \in Ids : pent[j] # None}) < MaxProviders
  /\ ChangeProviders([pent EXCEPT ![i] = [desc |-> d, exec |-> h]])

ReplaceWorkflowHost(i, d, h) ==
  /\ RequireHostId(i)
  /\ pent[i] # None
  /\ ChangeProviders([pent EXCEPT ![i] = [desc |-> d, exec |-> h]])

UnregisterWorkflowHost(i) ==
  /\ RequireHostId(i)
  /\ pent[i] # None
  /\ ChangeProviders([pent EXCEPT ![i] = None])

\* register, replace and unregister of the parser registry.
ChangeParser(b, e) ==
  /\ qgen < MaxParserGeneration
  /\ qent[b] # None \/ e # None
  /\ qgen' = qgen + 1 /\ qent' = [qent EXCEPT ![b] = e]
  /\ UNCHANGED <<pgen, pent, call, fired>>
  /\ Record

\* The deadline passes or OperationControl::cancel is called.
Fire ==
  /\ ~fired
  /\ fired' = TRUE
  /\ UNCHANGED <<registries, call>>

-----------------------------------------------------------------------------
(* The caller *)

\* workflow_registry_inventory
ObserveProviders ==
  /\ pc = "idle" /\ pinned /\ expP = None
  /\ expP' = Inventory(pgen, ProviderDigest(pent))
  /\ UNCHANGED <<registries, expQ, pinned, provider, batch, pc, snapP, snapQ,
                 fired, chosen, used, ran, probed, late, results, outcome>>

\* parser_registry_inventory
ObserveParsers ==
  /\ pc = "idle" /\ pinned /\ expQ = None
  /\ expQ' = Inventory(qgen, ParserDigest(qent))
  /\ UNCHANGED <<registries, expP, pinned, provider, batch, pc, snapP, snapQ,
                 fired, chosen, used, ran, probed, late, results, outcome>>

Goto(p) == pc' = p /\ UNCHANGED <<results, outcome>>
Fail(e) == pc' = "done" /\ outcome' = e /\ results' = <<>>

\* A control check, and where the call goes when it passes.
Checked(p) == IF fired THEN Fail("control") ELSE Goto(p)

\* A control check, then a byte budget, then the next place.
Budgeted(fits, p) == IF fired \/ fits THEN Checked(p) ELSE Fail("resource.limit")

\* A pinned call counts the bytes of the expected inventories first.
Call(fits) ==
  /\ pc = "idle"
  /\ pinned => expP # None /\ expQ # None
  /\ ~pinned => fits
  /\ Budgeted(fits, "snapP")
  /\ UNCHANGED <<registries, expP, expQ, pinned, provider, batch, snapP, snapQ,
                 fired, chosen, used, ran, probed, late>>

CaptureProviders ==
  /\ pc = "snapP"
  /\ snapP' = Snapshot(pgen, pent)
  /\ Goto("snapQ")
  /\ UNCHANGED <<registries, expP, expQ, pinned, provider, batch, snapQ, fired,
                 chosen, used, ran, probed, late>>

CaptureParsers ==
  /\ pc = "snapQ"
  /\ snapQ' = Snapshot(qgen, qent)
  /\ Goto(IF pinned THEN "guard" ELSE "admit")
  /\ UNCHANGED <<registries, expP, expQ, pinned, provider, batch, snapP, fired,
                 chosen, used, ran, probed, late>>

\* Fault: declarations are compared, generations are not.
RegistryCurrent_DigestOnly ==
  /\ expP.digest = ProviderDigest(snapP.map)
  /\ expQ.digest = ParserDigest(snapQ.map)

RegistryCurrent ==
  /\ expP = Inventory(snapP.gen, ProviderDigest(snapP.map))
  /\ expQ = Inventory(snapQ.gen, ParserDigest(snapQ.map))

\* execute_at_registry: control, the bytes of request and expectation
\* together, then the comparison.
Guard(fits) ==
  /\ pc = "guard"
  /\ IF ~fired /\ fits /\ ~RegistryCurrent THEN Fail("workflow.registry_stale")
     ELSE Budgeted(fits, "admit")
  /\ UNCHANGED <<registries, expP, expQ, pinned, provider, batch, snapP, snapQ,
                 fired, chosen, used, ran, probed, late>>

-----------------------------------------------------------------------------
(* Admission *)

Entry == snapP.map[provider]
Executor == Entry.exec

\* What the per-item normalization says of item n.
ItemError(n) ==
  IF batch[n].rid \in {batch[m].rid : m \in 1..(n - 1)} THEN "workflow.invalid_request"
  ELSE IF batch[n].flaw \in {"workflow.invalid_request", "resource.limit",
                             "workflow.unsupported_parser_constraint"}
    THEN batch[n].flaw
  ELSE "ok"

\* validate_selection_query: the query's own names and lists, for every
\* executor; then a compiled provider needs its own profile's query.
QueryError(n) ==
  IF batch[n].flaw = "request.invalid" THEN "request.invalid"
  ELSE IF batch[n].flaw = "query" /\ Executor = Kernel THEN "workflow.invalid_request"
  ELSE "ok"

\* First error of the items, in batch order.
FirstError(Error(_)) ==
  LET bad == {n \in DOMAIN batch : Error(n) # "ok"}
  IN  IF bad = {} THEN "ok" ELSE Error(CHOOSE n \in bad : \A m \in bad : n <= m)

\* Fault: later items are looked at when their turn comes.
BatchError_FirstItem(fits) ==
  IF batch = <<>> THEN "workflow.invalid_request"
  ELSE IF Len(batch) > MaxOperations \/ ~fits THEN "resource.limit"
  ELSE IF Entry = None THEN "workflow.unknown_provider"
  ELSE IF ItemError(1) # "ok" THEN ItemError(1) ELSE QueryError(1)

\* Everything execute rejects before it negotiates.
BatchError(fits) ==
  IF batch = <<>> THEN "workflow.invalid_request"
  ELSE IF Len(batch) > MaxOperations \/ ~fits THEN "resource.limit"
  ELSE IF Entry = None THEN "workflow.unknown_provider"
  ELSE IF FirstError(ItemError) # "ok" THEN FirstError(ItemError)
  ELSE FirstError(QueryError)

\* A pinned request has fitted together with its expectation already.
Admit(fits) ==
  /\ pc = "admit"
  /\ pinned => fits
  /\ IF ~fired /\ BatchError(fits) # "ok" THEN Fail(BatchError(fits))
     ELSE Checked("negotiate")
  /\ UNCHANGED <<registries, expP, expQ, pinned, provider, batch, snapP, snapQ,
                 fired, chosen, used, ran, probed, late>>

-----------------------------------------------------------------------------
(* Negotiation, over the captured snapshots only *)

\* The parsers that the provider's requirements and the item's request leave.
Eligible(n) ==
  {b \in Backends :
     /\ snapQ.map[b] # None
     /\ Entry.desc.allowed # {} => b \in Entry.desc.allowed
     /\ batch[n].backend \in {None, b}}

Cur == Len(chosen) + 1

\* Declaration filtering probes nothing; otherwise the parser probes start.
Negotiate ==
  /\ pc = "negotiate" /\ Cur <= Len(batch)
  /\ IF fired THEN Fail("control") /\ UNCHANGED probed
     ELSE IF batch[Cur].op \notin Entry.desc.ops \/ Eligible(Cur) = {}
       THEN Fail("workflow.no_eligible_provider") /\ UNCHANGED probed
       ELSE Goto("probing") /\ probed' = TRUE
  /\ UNCHANGED <<registries, expP, expQ, pinned, provider, batch, snapP, snapQ,
                 fired, chosen, used, ran, late>>

\* Fault: a selected parser is not recorded.
ProbesReturn_Forgets(usable) ==
  /\ pc = "probing"
  /\ usable \subseteq Eligible(Cur)
  /\ late' = (late \/ fired)
  /\ IF fired THEN Fail("control")
     ELSE IF usable = {} THEN Fail("workflow.no_eligible_provider")
     ELSE Goto("negotiate")
  /\ UNCHANGED <<registries, expP, expQ, pinned, provider, batch, snapP, snapQ,
                 fired, chosen, used, ran, probed>>

\* The probes come back: some subset of the eligible parsers is usable now.
ProbesReturn(usable) ==
  /\ pc = "probing"
  /\ usable \subseteq Eligible(Cur)
  /\ late' = (late \/ fired)
  /\ IF fired THEN Fail("control") /\ UNCHANGED chosen
     ELSE IF usable = {} THEN Fail("workflow.no_eligible_provider") /\ UNCHANGED chosen
     ELSE /\ chosen' = Append(chosen, CHOOSE b \in usable : \A c \in usable : b <= c)
          /\ Goto("negotiate")
  /\ UNCHANGED <<registries, expP, expQ, pinned, provider, batch, snapP, snapQ,
                 fired, used, ran, probed>>

Negotiated ==
  /\ pc = "negotiate" /\ Cur > Len(batch)
  /\ Goto(IF Executor = Kernel THEN "kernel" ELSE "parse")
  /\ UNCHANGED <<registries, expP, expQ, pinned, provider, batch, snapP, snapQ,
                 fired, chosen, used, ran, probed, late>>

-----------------------------------------------------------------------------
(* Execution by the compiled kernel, item by item *)

Pos == Len(used) + 1

KernelStart ==
  /\ pc = "kernel" /\ Pos <= Len(batch)
  /\ Checked("running")
  /\ ran' = IF fired THEN ran ELSE Append(ran, Kernel)
  /\ UNCHANGED <<registries, expP, expQ, pinned, provider, batch, snapP, snapQ,
                 fired, chosen, used, probed, late>>

\* What execute_native_operation_with_service may answer: does the result
\* name the requested provider, which parser does it report for the first
\* source (None when it did not get to one), and does it pass validation
\* without the evidence only the kernel holds.  Nothing is assumed of the
\* parser.  finalize: once control has fired the result is an empty one.
KernelResults ==
  IF fired THEN {[names |-> FALSE, parser |-> None, valid |-> TRUE]}
  ELSE [names : BOOLEAN, parser : Backends \cup {None}, valid : BOOLEAN]

\* Fault: the provider is compared, the parser is not.
IdentityKept_ProviderOnly(result) == result.names

\* The identity check of the workflow.
IdentityKept(result) == result.names /\ result.parser \in {None, chosen[Pos]}

KernelReturns(result) ==
  /\ pc = "running"
  /\ result \in KernelResults
  /\ late' = (late \/ fired)
  /\ IF IdentityKept(result) /\ result.valid
       THEN /\ used' = Append(used, result.parser)
            /\ results' = Append(results, [rid |-> batch[Pos].rid, parser |-> result.parser])
            /\ pc' = "kernel" /\ UNCHANGED outcome
       ELSE Fail("workflow.invalid_result") /\ UNCHANGED used
  /\ UNCHANGED <<registries, expP, expQ, pinned, provider, batch, snapP, snapQ,
                 fired, chosen, ran, probed>>

\* The kernel gives up on its own result.
KernelFails ==
  /\ pc = "running"
  /\ late' = (late \/ fired)
  /\ Fail("operation.invalid_evidence")
  /\ UNCHANGED <<registries, expP, expQ, pinned, provider, batch, snapP, snapQ,
                 fired, chosen, used, ran, probed>>

\* All items done.
KernelDone ==
  /\ pc = "kernel" /\ Pos > Len(batch)
  /\ IF fired THEN Fail("control")
     ELSE pc' = "done" /\ outcome' = "ok" /\ UNCHANGED results
  /\ UNCHANGED <<registries, expP, expQ, pinned, provider, batch, snapP, snapQ,
                 fired, chosen, used, ran, probed, late>>

\* bounded: the response outgrows its byte budget.
KernelOverBudget ==
  /\ pc = "kernel" /\ results # <<>>
  /\ Fail("resource.limit")
  /\ UNCHANGED <<registries, expP, expQ, pinned, provider, batch, snapP, snapQ,
                 fired, chosen, used, ran, probed, late>>

-----------------------------------------------------------------------------
(* Execution by a host: kernel-side parses, then one callback *)

ParseStart ==
  /\ pc = "parse" /\ Pos <= Len(batch)
  /\ Checked("parsing")
  /\ UNCHANGED <<registries, expP, expQ, pinned, provider, batch, snapP, snapQ,
                 fired, chosen, used, ran, probed, late>>

\* parse_batch with the negotiated parser as explicit backend: it parsed, it
\* parsed with errors, or the service failed (ParseService).
ParseReturns(answer) ==
  /\ pc = "parsing"
  /\ late' = (late \/ fired)
  /\ IF fired THEN Fail("control") /\ UNCHANGED used
     ELSE IF answer = "failed" THEN Fail("parser") /\ UNCHANGED used
     ELSE IF answer = "errors" THEN Fail("workflow.input_parse_failed") /\ UNCHANGED used
     ELSE used' = Append(used, chosen[Pos]) /\ Goto("parse")
  /\ UNCHANGED <<registries, expP, expQ, pinned, provider, batch, snapP, snapQ,
                 fired, chosen, ran, probed>>

\* The captured handle, whatever the registry holds by now.
CalledHost == Executor

\* All sources are parsed: budget, control, then the one host callback.
HostStart(fits) ==
  /\ pc = "parse" /\ Pos > Len(batch)
  /\ IF ~fits THEN Fail("resource.limit") ELSE Checked("calling")
  /\ ran' = IF fits /\ ~fired THEN Append(ran, CalledHost) ELSE ran
  /\ UNCHANGED <<registries, expP, expQ, pinned, provider, batch, snapP, snapQ,
                 fired, chosen, used, probed, late>>

\* What is wrong with the host's answer: a panic, a fault, an oversized or
\* unstable encoding, the number of results, or a result that is not the
\* item's, does not name the provider or names another parser.
ResponseError(answer, outputs) ==
  IF answer # "outputs" THEN answer
  ELSE IF \/ Len(outputs) # Len(batch)
          \/ \E n \in DOMAIN outputs :
               \/ outputs[n].rid # batch[n].rid
               \/ outputs[n].parser # chosen[n]
    THEN "workflow.invalid_result"
  ELSE "ok"

\* Fault: the answer is classified before control is checked.
HostReturns_Unchecked(answer, outputs) ==
  /\ pc = "calling"
  /\ late' = (late \/ fired)
  /\ LET error == ResponseError(answer, outputs)
     IN  IF error # "ok" THEN Fail(error)
         ELSE pc' = "done" /\ outcome' = "ok" /\ results' = outputs
  /\ UNCHANGED <<registries, expP, expQ, pinned, provider, batch, snapP, snapQ,
                 fired, chosen, used, ran, probed>>

\* "Late results and faults never override execution control."
HostReturns(answer, outputs) ==
  /\ pc = "calling"
  /\ late' = (late \/ fired)
  /\ LET error == IF fired THEN "control" ELSE ResponseError(answer, outputs)
     IN  IF error # "ok" THEN Fail(error)
         ELSE pc' = "done" /\ outcome' = "ok" /\ results' = outputs
  /\ UNCHANGED <<registries, expP, expQ, pinned, provider, batch, snapP, snapQ,
                 fired, chosen, used, ran, probed>>

-----------------------------------------------------------------------------

ParseAnswers == {"parsed", "errors", "failed"}
HostAnswers == {"outputs", "workflow.provider_panic", "workflow.provider_fault",
                "resource.limit", "workflow.invalid_result"}
\* Bound: as many outputs as items, or one fewer or one more.
HostOutputs ==
  UNION {[1..n -> [rid : {batch[m].rid : m \in DOMAIN batch},
                   parser : Backends \cup {None}]] :
         n \in (Len(batch) - 1)..(Len(batch) + 1)}

Run ==
  \/ \E fits \in BOOLEAN : Call(fits) \/ Guard(fits) \/ Admit(fits) \/ HostStart(fits)
  \/ CaptureProviders \/ CaptureParsers
  \/ Negotiate \/ Negotiated
  \/ \E usable \in SUBSET Backends : ProbesReturn(usable)
  \/ KernelStart \/ KernelFails \/ KernelDone \/ KernelOverBudget
  \/ \E result \in KernelResults : KernelReturns(result)
  \/ ParseStart
  \/ \E answer \in ParseAnswers : ParseReturns(answer)
  \/ /\ pc = "calling"
     /\ \/ \E answer \in HostAnswers \ {"outputs"} : HostReturns(answer, <<>>)
        \/ \E outputs \in HostOutputs : HostReturns("outputs", outputs)

Observe == ObserveProviders \/ ObserveParsers

Mutate ==
  \/ \E i \in Ids, d \in Descriptors, h \in Hosts :
       RegisterWorkflowHost(i, d, h) \/ ReplaceWorkflowHost(i, d, h)
  \/ \E i \in Ids : UnregisterWorkflowHost(i)
  \/ \E b \in Backends, e \in ParserEntries \cup {None} : ChangeParser(b, e)

\* What other threads do after the call has returned concerns later calls.
Environment == pc # "done" /\ (Mutate \/ Fire)

Next == Run \/ Observe \/ Environment

Spec == Init /\ [][Next]_vars

\* The caller observes and calls, and callbacks return; nobody is obliged
\* to change a registry or to cancel.
FairSpec == Spec /\ WF_vars(Run) /\ WF_vars(Observe)

-----------------------------------------------------------------------------
(* Properties *)

Pcs == {"idle", "snapP", "snapQ", "guard", "admit", "negotiate", "probing",
        "kernel", "running", "parse", "parsing", "calling", "done"}

TypeOK ==
  /\ pgen \in 0..MaxProviderGeneration /\ qgen \in 0..MaxParserGeneration
  /\ pent \in [Ids -> ProviderEntries \cup {None}]
  /\ qent \in [Backends -> ParserEntries \cup {None}]
  /\ pinned \in BOOLEAN /\ provider \in Ids /\ batch \in Batches
  /\ pc \in Pcs
  /\ fired \in BOOLEAN /\ probed \in BOOLEAN /\ late \in BOOLEAN
  /\ chosen \in Seq(Backends) /\ used \in Seq(Backends \cup {None})
  /\ ran \in Seq(Hosts \cup {Kernel})
  /\ Len(used) <= Len(chosen) /\ Len(chosen) <= Len(batch)
  /\ Len(results) <= Len(batch)

\* A pinned execution behaves as if it had captured both registries at one
\* instant, although it reads them one after the other and the inventories
\* it compares with were read one after the other too: the executor it runs
\* and every parser it uses were registered together.
PinnedExecutionCoexisted ==
  (pinned /\ ran # <<>>) =>
    \E c \in coexisted :
      /\ c[2][provider] # None /\ c[2][provider].exec = ran[1]
      /\ \A n \in DOMAIN chosen : c[4][chosen[n]] = snapQ.map[chosen[n]]
      /\ c[1] = snapP.gen /\ c[3] = snapQ.gen

\* What the runtime would run for provider ID i.
CompiledExecutor(i) == IF pent[i] = None THEN None ELSE pent[i].exec

\* execute_compiled_operation always finds the kernel under a compiled ID,
\* whatever hosts register, replace and unregister.
CompiledProvidersPermanent == \A i \in Reserved : CompiledExecutor(i) = Kernel

\* Whatever the kernel or the host says it did, also when a second round of
\* probes answers differently, only a result under the item's own request and
\* with the parser negotiated for that item is kept, while the batch runs and
\* in the response; a host must name that parser, the kernel may name none.
NegotiatedParserReported ==
  /\ \A n \in DOMAIN results :
       /\ results[n].rid = batch[n].rid
       /\ results[n].parser \in {chosen[n], None}
  /\ outcome = "ok" =>
       /\ Len(results) = Len(batch)
       /\ Executor # Kernel => \A n \in DOMAIN results : results[n].parser = chosen[n]

\* Nothing is probed, parsed or called for a batch that has an invalid item
\* anywhere, or under a registry the caller did not expect ("Reject changed
\* registry state before probes or execution").
RejectedBeforeProbes ==
  (probed \/ ran # <<>>) =>
    /\ Len(batch) \in 1..MaxOperations
    /\ \A n \in DOMAIN batch : ItemError(n) = "ok" /\ QueryError(n) = "ok"
    /\ pinned => expP.gen = snapP.gen /\ expQ.gen = snapQ.gen

\* A callback that comes back after cancellation or the deadline yields no
\* result, and a host's late answer or fault is reported as the control.
LateAnswersDiscarded ==
  late => /\ pc = "done" /\ results = <<>> /\ outcome # "ok"
          /\ Executor # Kernel => outcome = "control"

\* A host is called at most once for a batch, and only when every item has
\* been parsed: no retry.
HostCalledOnce ==
  (ran # <<>> /\ ran[1] # Kernel) =>
    Len(ran) = 1 /\ Len(used) = Len(batch) /\ pc \in {"calling", "done"}

\* Every execution ends, also one whose registries keep changing.
ExecutionEnds == <>(pc = "done")

\* "every diagnostic result names its executor" (native_operation.rs), so
\* that a cancelled compiled operation is not reported as an executor swap.
KernelResultsNameExecutor ==
  (late /\ ran # <<>> /\ ran[1] = Kernel) => outcome # "workflow.invalid_result"

=============================================================================
