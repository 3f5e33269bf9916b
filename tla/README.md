# Structured Merge: TLA+ models, checks and proofs

Structured Merge merges source files by structure rather than by line. The Rust
workspace under `crates/` holds the typed parser service, the merge kernels, the
workflow runtime with host callbacks, and the command line that Git calls. This
directory models the parts of it whose correctness depends on ordering, failure
or sharing, checks them with TLC on small instances, and proves with TLAPS, for
every instance size, the safety properties of these parts.

Paths below are relative to `crates/`.

## 1. Inventory

| Part | State | Operations | Interaction | What is hard | What makes it correct |
| --- | --- | --- | --- | --- | --- |
| Parser registry (`tree-haver/src/service.rs`, facade in `structuredmerge-core/src/host.rs`) | generation counter and ID-to-provider map behind one `RwLock`; providers are `Arc`s shared with snapshots | register, replace, unregister, snapshot, inventory, idempotent native registration | called by every thread of the process; calls host descriptor callbacks and destructors | interleaved compare-and-set, lifetime of retired providers, re-entrant destructors, poisoning | it is an atomic versioned map; a generation names one map; no update is lost; host code never runs under the lock; what nothing holds any more is destroyed |
| Parser selection and dispatch (`service.rs`) | per call: snapshot, candidates, groups, results | selection, probe, batch dispatch | host callbacks between control checks | cancellation and deadlines racing a late answer, faulty batches, probe faults | all or nothing validation before callbacks; one call per backend; each request gets its own result from its own parser; late answers are dropped; the call ends |
| Merge-provider registry (`ast-merge/src/provider_registry.rs`) | as the parser registry, with a capacity and `clear` | register, replace, unregister, clear, snapshot | read together with the parser registry by the workflow runtime | limits, two registries observed at two instants | it is the same atomic versioned map, within capacity |
| Workflow runtime (`structuredmerge-core/src/workflow.rs`, `ast-merge/src/provider_selection.rs`) | two snapshots per execution | batch execution, execution pinned to observed registries | negotiates over both snapshots, runs kernels or host callbacks | torn observation, stale pins, late control, parser substitution | a pinned execution sees one instant; compiled providers stay; a result under another parser than the negotiated one is not kept; a host is called once, with a complete batch |
| Sequence order merge (`ast-merge/src/sequence_merge.rs`) | none (pure) | order constraints of several sequences | called by sequence and owner renderers | repeated edges, cycles, nonadjacent order | a result is a permutation of the selection that keeps every sequence's order; an error names nodes that really are in conflict |
| Owner merge (`ast-merge/src/declaration_merge.rs`) | none (pure) | three-way classification, baseline choice, rendering, self-check | shared by the language kernels | lost or duplicated owners, reorderings and layout changes on one tip | a clean output has both tips' edits and the lines they changed around the owners; a conflict is reported exactly when the tips disagree |
| Git installer (`smorg-rs/src/git_install.rs`, `staged_file.rs`) | managed blocks in user files | plan, apply, undo, check | races editors and other installers; crashes between steps | dangling include, lost user edit, partial application | the user's text survives; an include always has its fragment; success means done; undo restores |
| Merge driver (`smorg-rs/src/main.rs`, `typed_driver.rs`, `path_safety.rs`, `staged_file.rs`) | output and report files; staged files in between | merge in the typed and the legacy lane, typed diff | called by Git on paths that may name one file twice; killed or failing at any step; run again | exit status and report against what is on disk after a failure; an output or report that is an input under another name | the destination is replaced last and whole; exit status and report say what is on disk; inputs survive |
| Templates (`ast-template/src/lib.rs`, directory functions of `ast-merge/src/lib.rs`) | the destination tree; a session's plan and results | inspect, plan, apply, reapply a tree of templates | writes file by file while a user may edit | torn and failed writes, retries, plans from a stale reading, two copies of the same rules | report, preview and inspection agree with the disk; a retry recovers; a lost edit is a reported one |
| JSON merge (`json-merge/src/source_preserving.rs`, `typed.rs`) | none (pure) | three-way merge, template merge | called by the typed kernel and by the legacy lane | first against last of repeated members, overlapping edits, comments the verification cannot see | a clean output means what a three-way merge of the meanings means; a refusal has a reason |
| Node identity matching and sequence analysis (`ast-merge/src/matching.rs`, `sequence_merge.rs`) | none (pure) | match nodes in two passes, conflicts of three sequences | used by the JSON merge for array elements | a fallback match taking another node's partner | a conflict is found at its element wherever it moved |
| Structural edits, review and replay, ingest observation, archive and text merges | mostly none; review state is a value handed between calls | see `PROJECT.json` | called by the kernels and the facade | overlapping edits, decisions replayed against a changed document | planned, section 8 |
| Language merges, parser backends, bindings, records and reports | none | conversions and syntax analysis | | | not modelled, section 7 |

## 2. Modules

| Module | Models | Remarks |
| --- | --- | --- |
| `VersionedRegistry` | the promise of both registries: a map with a generation, changed by one atomic operation at a time | abstract specification |
| `ParserRegistry` | `service.rs` 158-296 and the facade of `host.rs`, one action per step of a call | implements `VersionedRegistry` |
| `ParseService` | selection, probing and dispatch of one batch in `service.rs` | control (cancel, deadline) may fire between any two steps |
| `MergeProviderRegistry` | `provider_registry.rs` | every operation is one write-locked action; proved to implement `VersionedRegistry` (in `WorkflowProofs`), not run |
| `WorkflowExecution` | `workflow.rs`, the negotiation of `provider_selection.rs`, the end of a kernel operation in `native_operation.rs` | composes the two registries, as the versioned maps their own modules show them to be, with one execution; its provider registry is proved to move only by calls of `MergeProviderRegistry` |
| `SequenceOrder` | `merge_sequence_order_constraints`, one action per loop iteration | |
| `OwnerMerge` | `declaration_merge.rs`, one action per phase of the merge | inputs enumerated by `MCOwnerMerge` |
| `GitInstall` | `git_install.rs` and `staged_file.rs` | processes, crashes, I/O errors and a user who edits |
| `TemplatePlan` | planning, preview, application and reports of a template tree in `ast-merge/src/lib.rs` | operators only, one per function |
| `TemplateSession` | the sessions of `ast-template/src/lib.rs` over `TemplatePlan` | a write at a time, failing or torn, with a user who edits |
| `MergeDriver` | `merge-driver` and `diff-driver` of `smorg-rs` | one action per file-system call or decision |
| `NodeMatching` | `matching.rs` and the conflicts of `analyze_three_way_sequence` | operators only |
| `JsonMerge` | `source_preserving.rs` and the duplicate guard of `typed.rs` | one action per phase of a merge; uses `NodeMatching` |
| `ParserProofs`, `WorkflowProofs`, `GitInstallProofs`, `SequenceOrderProofs`, `OwnerMergeProofs`, `TemplateSessionProofs`, `MergeDriverProofs`, `JsonMergeProofs` | theorems about the module of that name (`ParserProofs`: `ParserRegistry` and `ParseService`, whose `Init`, `Next` and `Spec` are called `ParseInit`, `ParseNext` and `ParseSpec`, so that one module can extend both; `WorkflowProofs`: `WorkflowExecution` and `MergeProviderRegistry`; `JsonMergeProofs`: `JsonMerge` and `NodeMatching`) | section 5 |
| `MC*` | TLC instances | |

A definition named `X_Mistake`, placed before `X` (`Install_RemovalKeepsGeneration`), is `X` with a plausible mistake.
`PROJECT.json` lists which property each of them breaks; none of them is part of
a specification.

### How state and actions correspond to the code

* **ParserRegistry.** `generation` and `entries` are `RegistryState`; `writer` and
  `poisoned` are the `RwLock`. A provider is a number in creation order, `hand` the
  `Arc`s in a call's local variables, `snapEnt` the `Arc`s of its snapshot. The
  descriptor callback runs before the lock is taken (`describe`), the decision and
  the write are one step under the lock (`commit`), and the retired provider is
  dropped after the guard (`release`, then `drop`, then `destroy` when it was the
  last reference). Whether a destructor calls the registry again is its own and settled
  when it starts: one that does is in `reenter` until it gets the lock, for ever if its
  own thread holds it. `CommitFrame` says where a commit goes on, which is all that keeps
  drops out of the critical section.
* **ParseService.** `Admit` is the validation of the whole batch, `BeginSelection`,
  `Examine`, `ProbeReturns` and `Choose` select a parser per request, `Dispatch`,
  `ParseReturns` and `Collect` process the groups in backend order. A provider
  may answer anything: a fault, a panic, too few outputs, another request's ID.
  Static filtering keeps the fields the code compares (family, language, dialect,
  contracts, capabilities, priority); names and diagnostics are left out.
* **WorkflowExecution.** `CaptureProviders` and `CaptureParsers` are the two
  snapshots, `Guard` the comparison of a pinned execution with the caller's
  inventories, `Admit` the checks of every item, `Negotiate` and `ProbesReturn`
  the choice of a parser per item, `Kernel...` and `Parse...`/`Host...` the two
  ways to execute. The kernel may report any parser or none, name another provider, or
  return a result that does not validate; `IdentityKept` is the workflow's check of it,
  which lets a result that names no parser pass, as the code does. `KernelFails` is the
  error it may return instead, and the byte budgets of request and response may be kept or
  missed (`Budgeted`, `KernelOverBudget`). `coexisted` is a history of registry pairs and is read only by
  `PinnedExecutionCoexisted`. A digest covers declarations and not handles, as
  in the code, so that a handle may change under an equal digest.
* **SequenceOrder.** `ranked`, `edges` and `indegree` are the function's maps, `at`
  its position in the scan, `ready` and `output` its second loop. The ready node
  with the least rank is taken, which is what the sort and `remove(0)` do. The
  nodes of an `IncompatibleOrder` error are a set here; the code lists them by rank.
* **OwnerMerge.** A document is owners with fingerprints and the text of the gaps
  around them. Fingerprints stand for the owner's text, since the kernels compute
  them from it. A gap has three parts: the `tail` of the line the owner before it ends on,
  whole `lines`, and the `head` of the line the owner after it begins on. The code's two
  readings of layout are two operators: `Lines` and `Gaps` keep all of it, as
  `SourcePreservingOwnerDocument::layout_segments` does while the tips have the same owners;
  `LayoutSegments` over `WholeLines` keeps whole lines only, as `layout_segments_for_ids`
  does with `physical_line_range` once owners were added or deleted. An added owner is
  rendered with a line break before it where the text does not end in one (`AddedHead`,
  `AddedGap`). The renderer's self-check (`verify`) is an external parser that may read the
  output back, fail, or read something else: ranges it cannot give, an owner changed, an
  owner lost in the text around it (`Misread`, `Engulfed`). Byte-origin evidence is left out.
* **GitInstall.** A file is absent, or the user's edits and the managed section
  with its profile, its `created` flag and the edits the user made inside it. A
  run plans all targets, then rereads, stages and renames each one; the process
  may be killed or an I/O error occur at every step. Section text, quoting and
  path syntax are left out.
* **MergeProviderRegistry.** A direct translation of the four operations that change it;
  descriptor normalization only decides which descriptors are accepted.
* **TemplatePlan, TemplateSession.** A content is a short sequence of atoms, some of
  them tokens; a tree maps paths to contents. `session` holds the plan, the results
  and the paths still to be written, of which `Due` is the next in sorted order;
  `PreviewEntry` and `ApplyEntry` are one turn of the loops over the plan,
  `WriteNext` one `fs::write`, `WriteFails` its error before, `WriteTorn` its error or a kill after
  the truncation. `view`, `edited`, `torn` and `inspected` are histories that only
  properties read. An adapter's merge is reduced to the destination followed by
  what the template has and it lacks, or an error: `Refuses` says when, for a template or a
  destination that does not parse, and for any pair the instance puts into `Unrendered`,
  whose merge the adapter can parse but not render or verify.
* **MergeDriver.** `disk` maps files to who wrote them and what they say, `canon` the
  five paths to files, links resolved. `plan` is what the driver decided to write and
  with which exit code. The engines return any result of their signature. `Kill` ends
  the process at every step, and `past` records how each invocation ended.
* **JsonMerge.** A value keeps its members in order with repetitions, whether it
  stands on one line, and which comments it has: between members, behind the last member,
  and a second one behind that. What it means (`semantic`) is a record that knows none of this: an object
  maps every key to the meaning of its last member, or to `Absent`. The functions of the
  code descend two or three documents at once. `MergeThreeValues` and `RenderValue` are
  here functions of the path of keys from the root, which names the one value of each
  document that is merged there (`ValueAt`, by lookups that find the first member);
  `MergeTemplateValue` is a function of the positions of the template's members
  (`Placed`), as it visits repeated members one by one. `MergeThree`, `MergeTemplate` and
  `Render` are one call each, given the results of the calls below. `GuardDuplicates` is the typed lane's
  refusal, `MakePlan` the recursive merge into edits and additions, `RenderPlan` the
  text edits with their overlap check, `Verify` the comparison of the reparsed
  output with the planned value.
* **NodeMatching.** The queues of candidates per signature become "the least unmatched
  index that carries the signature", which is what popping them in order gives.

## 3. Runs

Every bound is a named constant of the module. "States" are distinct states.

| Run | Instance | What it shows | Why the bounds are enough |
| --- | --- | --- | --- |
| `registry` | 2 threads with 2 calls each, 1 ID, 4 provider instances, generation at most 2, so that it is exhausted | `HostCodeUnlocked`, `NoLostUpdate`, refinement of `VersionedRegistry`, `CallsReturn` and `RetiredProvidersReleased`, with re-entrant and panicking destructors (197k states) | two calls per thread give the observe-change-change-write pattern, three changes exceed the generation; the safety part is proved for every size and every set of provider kinds |
| `registry_native_conflict` | generation at most 3 | violation, finding 1 | |
| `parse_dispatch` | 3 providers, 11 batches, one for each admission error and kind of selection, up to 3 outputs per callback | admission before callbacks, late answers, exact results, termination (1.1k states) | two requests and two backends give both groupings, a third output gives the surplus answer |
| `workflow_execution` | 1 compiled and 1 host ID, 2 host executors, 2 parsers with 2 handles, 8 batches, every answer of the kernel, one provider change, two parser changes | five safety properties and `ExecutionEnds` (1.6M states) | two parser changes give change-and-change-back around either capture; the safety properties are proved for every size |
| `workflow_kernel_identity` | same, one parser change | violation, finding 2 | |
| `git_install` | 4 runs, 1 edit, 2 profiles; one installer over fragment and include, or two overlapping installers on one file | `NoDanglingInclude`, `EditsSurvive`, `UndoRestores`, `SuccessMeansDone` (1.9M states) | install, change of profile, retry and undo, each with a crash or failure at every step; two overlapping runs and two more after them |
| `git_install_partial_undo` | 3 runs, no edit | violation, finding 3 | |
| `sequence_order` | 3 nodes, 3 sequences, 6 entries in all, up to 3 selected | `OrderRespected` and equality with a declarative reference, `ResultIsSpecified` (339k states) | three sequences of two nodes give a cycle no two of them contain |
| `owner_merge` | bases of up to 2 owners, tips up to 2 edits away (change, delete, insert, reorder, text between owners and on their lines, an unended last line), 3 edits together | `CleanAppliesBothTips`, `ConflictsAreExact`, `CleanKeepsReorderings`, `CleanKeepsLayout`, `AddedTextKept` (135k states) | every pair of edits by two tips, and every edit against two |
| `template_session` | 4 pairs of templates, 3 sessions, 1 edit; every strategy, override, profile and set of allowed families | `PreviewAgrees`, `ReportMatchesDisk`, `RetryRecovers`, `InspectionPredictsRun`, `EditsLostOnlyWhereReported` (2.3M states) | a failed session, a second one that fails on what it left, and a third that ends; two templates are one to write and one to fail on, or two for one destination |
| `merge_driver` | 2 invocations, 1 edit, 4 aliasings of five paths, the options of the three lanes | `DestinationWrittenLast`, `TruthfulExit`, `ReportTrusted`, `InputsSurvive` (478k states) | the second invocation meets every file the first can leave, its stale report included |
| `json_merge` | objects of two members with a nested object of up to two, repeated members that may hold objects, both layouts, comments; arrays of up to two elements, identified or not | `CleanIsThreeWayMerge`, `FailuresExplained`, `CommentsLostOnlyInRewrites`, `TemplateMergeSettles`, `ElementConflictsFound` (1.8M states) | one level of nesting gives edits inside an object that gains members; two elements give insertion, deletion and reordering around each other |

Deadlock checking is off where the modelled call, installer or thread may come to
its end; it is on for `sequence_order`, `owner_merge` and `json_merge`.

Symmetry is used over nodes (`sequence_order`), where nothing in the specification
tells the members apart, and not in runs with liveness.

The safety properties of every passing run are also proved, for every value of the
constants (section 5). The runs stay: they check the liveness properties beside
them, they show that the properties can fail (each has a mutant that breaks it), and
they catch a wrong model before a proof is attempted. They do not repeat what is proved
and simple: type correctness, `GenerationIdentifiesMap`,
`HostCalledOnce`, `PlacedOnce`, `ConflictIsReal` and `CapacityRespected` are theorems only.

What the properties leave out, because the code does not promise it:

* `CleanIsThreeWayMerge` asks nothing of a typed merge in which a repeated member was
  changed by one side alone. The guard refuses only members both sides changed;
  lookups then compare the first occurrence while the value is the last, and the one
  side's change can be missing from a merge reported clean. No document says that
  such a merge keeps it, so this is a hazard in `PROJECT.json` and not a finding.
* The rest of what is said of repeated members is said of documents without them. A
  template merge looks at the first of repeated members while the output means the last,
  so that a second merge may add to the first what the others brought, or be refused;
  the second half of `TemplateMergeSettles` and `ElementConflictsFound` hold without
  repeated members only. The first half, that nothing of the destination is lost and
  nothing of the template is missing, holds with them.
* `CommentsLostOnlyInRewrites` allows the loss of two comments behind the last member of an
  object on one line: `append_after_trailing_inline_comment` gives up on the second one, the
  object is written anew from its members, and the merge is clean. The tests promise the
  case of one comment only.
* `AddedTextKept` allows the loss of text beside an owner, such as a trailing comment, once
  owners were added or deleted. The layout checks then compare whole lines outside the
  owners' lines, while fingerprints and rendering use the owners' byte ranges, so that such
  text is compared nowhere: one tip deletes an owner, the other edits the comment beside
  another one, and the merge is clean without the edit. This is a hazard and not a finding,
  since the documents speak of layout checks without saying what they cover.
* `NegotiatedParserReported` speaks of the parser a result reports. A kernel may report
  none, and is then believed.
* `InspectionPredictsRun` allows an inspection to be ready where the run is not, if an
  adapter refuses one of the merges; only the run calls the adapters.
* `RetryRecovers` leaves out a destination whose merge was cut short by a torn write:
  what was lost of the user's text is in no other file.
* Properties about a destination of a template session hold for destinations one
  template has to itself; of two, the last one wins and both are reported.
* The driver renames its output over whatever is there; an edit saved while it runs
  is lost, and `TruthfulExit` only says that the output is there or the user saved later.

### Findings

1. **Idempotent native registration** (`registry_native_conflict`). The facade
   answers a duplicate ID by a second lookup. In the trace a host registers a provider with
   the native descriptor under the ID while the native call is between its first lookup and
   its insert, and another call unregisters it before the second lookup; the native call
   then reports a conflict with another provider, which never existed.
   The comment on the function promises idempotence.
2. **Cancelled kernel reported as an executor swap** (`workflow_kernel_identity`).
   When control fires during a compiled workflow, the result loses its provider ID
   and the workflow reports `workflow.invalid_result`, the masking the comments in
   `native_operation.rs` set out to exclude.
3. **Undo after a half-done change of profile** (`git_install_partial_undo`). The
   two sections then record different profiles and undo is rejected under both;
   the contract says completed steps remain for retry or undo. Retry does work.

## 4. Fairness

Liveness is claimed of calls, never of their environment. `ParserRegistry` assumes
weak fairness of each thread's steps inside a call: the operating system schedules
threads and callbacks return. It assumes nothing of the queueing of `RwLock`; with
finitely many calls a waiting thread gets its turn. `ParseService` and
`WorkflowExecution` assume weak fairness of the steps of the one operation (the code
is a straight line between callbacks) and of the caller's observations. Nobody is
obliged to cancel, to change a registry or to make another call. A callback that
never returns blocks its call in the code too, since deadlines are checked between
callbacks and not during them; that it returns is therefore an assumption.
The installer, the driver and the template sessions may be killed at every step, so
nothing is claimed to happen eventually there; their properties are about what any
ending leaves behind.

## 5. Proofs

The theorems hold for every value of the constants that satisfies the named
assumptions of the modules. None of them restricts the program: they say that sets
of parsers, backends and nodes are finite, bounds are natural numbers, special values
(`None`, `Absent`, `NoOwner`...) are not ordinary ones, batches are sequences, documents
are owners with a text before each and after the last (`OwnerAssumption`), JSON documents
are what the parser builds, no deeper than `MaxDepth` and with a trailing comment only
behind a member and a second one only behind a first (`JsonAssumption`), and that contents, trees and replacements are made of the atoms that are declared
(`ContentAssumption`, `SetupAssumption`). TLC evaluates all of them on the instances. The
theorems about `MergeProviderRegistry` state its assumptions themselves
(`MergeRegistryConstants`), as `WorkflowExecution` has it as an instance.

Every invariant is proved from an inductive one that says what holds between the steps;
its proof has one lemma per action.

**`ParserProofs`, the registry.** `TypeCorrectness` and `HostCodeRunsUnlocked` come from
`TypeOK /\ ControlInv`: the write guard is owned exactly in the two locked steps.
`GenerationsIdentifyMaps` needs `GenerationInv`, which adds that retained generations
lie in the past, because a commit writes history only at the next generation. From
it follow `UpdatesAreNotLost` (an action property) and `RegistryIsLinearizable` (every
step maps to one step of `VersionedRegistry` or to a stutter). That a
provider somebody holds is alive is not stated: it is what `Arc` means, whatever the
registry does.

**`ParserProofs`, the parse service.** A success is explained by three things settled at different
times: the admission that made request IDs unique (`Admitted`), the probes behind each
selection (`Vetting`), and the check of each group's outputs (`Answered`). `ParseInv`
carries them, and where the operation is (`Progress`), to its end. Theorems:
`LateAnswersAreDiscarded`, `InvalidBatchesReachNoProvider`, `ResultsFollowSelection`,
`ParseTypeCorrectness`. The least backend of a group and the best candidate exist
because sets of backends are finite.

**`WorkflowProofs`.** `PinnedExecutionsCoexist` is about two registries read at four
instants. The instant that matters is the capture of the providers: the caller read
the parser inventory before it, the call captures the parsers after it, and the
parser generation only grows, so when inventory and capture agree the parser
registry had that state in between. `CaptureWindow` carries this through the steps,
`RanCaptured` ties what runs to the captured provider. With the same invariant:
`CompiledProvidersStay` and `LateAnswersAreDiscarded`; with `Progress` (how many
items are negotiated and parsed at each point) also `HostIsCalledOnce`,
`BadBatchesAreRejectedFirst` and `NegotiatedParsersAreReported`.
The merge-provider registry: `ProviderRegistryTypes`, `CapacityIsRespected` and
`MergeRegistryIsVersioned` (refinement of `VersionedRegistry`), by one inductive
invariant: the map has finitely many entries, no more than the capacity. Every call is
one atomic step, so there is no interleaving for TLC to find; the theorems take the
place of a run. `ProvidersChangeByRegistryCalls` joins the two models: whatever
`WorkflowExecution` does to its provider registry is a step of `MergeProviderRegistry`.

**`GitInstallProofs`.** The properties speak of files, the installer writes what it
planned many steps earlier. `InstallInv` follows the plans: what they were made from and
make of it (`Planned`, `Keeps`), how the disk compares with them while one installer
carries them out (`Tracked`), and what undoing a section would leave (`Restorable`).
Theorems: `UserEditsSurvive`, `UndoIsExact`, `IncludesDoNotDangle`, `SuccessIsComplete`
(an action property: the step that ends a run with status 0), `InstallTypeCorrectness`;
for any list of targets, any number of overlapping installers, failures and kills.
`NoDanglingInclude` and `SuccessMeansDone` speak only of an installer that is alone.

**`SequenceOrderProofs`.** One inductive invariant `Inv`. Its core is `EdgesComplete`
(every scanned node has an edge from the selected node next before it, so the edges
carry the whole order), `Counted` (an in-degree is the number of predecessors not
placed) and `PlacementInv` (placed nodes have only placed predecessors). Theorems:
`OrderTypeCorrectness`, `OutputKeepsOrder`, `OutputIsPermutation`,
`ConflictsAreJustified`. `ResultMeetsSpecification` is functional correctness: the result
is the one the declarative definition asks for. `Specified` adds that ranks are those of
the whole scan (`RankInv`) and that every placed node was the least in rank of those
that could be placed (`Greedy`); an order of the selection that respects all sequences
then exists exactly if the loop empties the selection, and it is the least one.

**`OwnerMergeProofs`.** `OwnerInv` says what each pass has established: every owner is
decided and none is a conflict (`Planned`), the baseline passed the checks on order and
layout (`Settled`), the output is the rendered selection and a reading of it was accepted
(`Verified`). The lemmas say what the decision table means (`DecisionTable`), that equal
orders of the common owners mean equal precedence (`SameOrder`), that only a faithful
reading is accepted (`AcceptedReading`), and which text a layout holds (`LayoutText`).
Theorems: `CleanMergesApplyBothTips`, `ReportedConflictsAreExact`,
`CleanMergesKeepReorderings`, `CleanMergesKeepLayout`, `AddedTextIsKept`,
`OwnerMergeTypeCorrectness`.

**`TemplateSessionProofs`.** Plan, preview and application are functions of the request
and of the tree that was read. The lemmas say what they compute for one entry, and from
that for one path, of which only the entries for it matter. `SessionInv` relates the tree
to the reading while a session writes: the plan and the result are those of the tree that
was read (`FromReading`), what is still to be written is as it was read or edited
(`Untouched`), what is not is as the result has it (`Done`); `Reported` and `Inspected`
keep this for what was returned. Theorems: `PreviewsAgree`, `ReportsMatchTheDisk`,
`EditsAreLostOnlyWhereReported`, `InspectionsPredictRuns`. `RetriesRecover` needs
`RetryInv`: without edits, a session over the tree as it is now leaves what one over the
first tree would have left (`FilesRecover`, `ViewRecovers`). A write preserves it
because applying a template to its own output changes nothing (`SessionsConverge`),
whichever strategy wrote it, tokens and merges included.

**`MergeDriverProofs`.** None of the properties is inductive, since several steps lie
between the writing of a file and the exit status. `DriverInv` says which checks were
passed (`Preflighted`), what was decided (`PlanFits`), and what is on disk by then
(`ReportInPlace`, `OutputInPlace`, `ReportsDated`). Theorems: `ReportsAreTrusted`,
`DestinationComesLast`, `ExitIsTruthful`, `SourcesAreSpared` (for base and theirs it speaks of
the typed lane; the legacy lane may replace them where `--output` names them),
`DriverTypeCorrectness`.

**`JsonMergeProofs`.** The steps of a merge are few, and `Inv` only says what the plan,
the candidate output and the outcome are by then, as functions of the input
(`Invariance`). The work is in what these functions compute for documents of any size.
Each recursion over paths or positions is shown to have a solution, from the depth at
which there is nothing left upwards (`MergeSteps`, `RenderSteps`, `TemplateSteps`), and
is then followed from the root down (`Downwards`) or from the deepest paths up (`Upwards`,
`DeepestFirst`).

* `CleanMergeIsRight`. With repeated members, the first of them is what lookups find and
  the last is what counts. `Meets` says that down to where both sides changed all there is,
  lookups, meanings, plan and rendering speak of the same object. A repeated member below
  is one that ours and theirs agree on (`Settled`, from the duplicate guard), so it may be
  rendered from ours whatever the lookup compared (`RenderedKey`, `SameLists`). The
  verification carries what was rendered over to the plan.
* `FailuresAreExplained`. Every part of a plan has a reason (`Justified`, `FromDifferences`),
  hence conflicts and overlaps have. That no verification fails is the converse of the
  above: what is rendered means what is planned at every path (`RenderedAsPlanned`,
  `OverlayAsPlanned`), because edits touch only what they were planned for (`Spared`).
* `CommentsKept` follows a value of ours to where lookups find it in the output
  (`RenderedPath`) and asks which object around it was written anew. In a merge of three
  documents members are added at the end (`AddedAtEnd`), so that a comment behind the last
  member can be lost only with a second one behind it.
* `TemplateSettles`. An output is an overlay because wherever template and destination
  are both objects, either lookups agree with the meanings or nothing changes
  (`OverlaidAt`); no assumption on repeated members is needed. Without them lookups find
  in the output what was rendered or what the template brought (`OutputAt`), so it has
  every member of the template (`MembersBrought`), and a second merge adds nothing
  (`MergedOnce`).
* `ElementConflicts` rests on `MatchingIsSound` and `PrimaryMatched`: the first pass pairs
  nodes that alone carry an identity, the second takes back none of its matches, so an
  element has the partner of its identity where there is one, and a fallback match
  elsewhere cannot hide that its identity is gone.

**Induction over data.** The prover cannot instantiate the library's induction schemas.
The proofs use them in the form of a set of natural numbers: a nonempty set has a least
member, by well-foundedness of `<` (`WFMin`), so a set that contains 0 and is closed
under successor contains every number (`NaturalInduction`, `UpTo`). With it each recursive
function is first shown to exist (`OrderExists`, `ScanExists`, `PreviewingExists`...) and
then to have the wanted value, one element of the sequence at a time. Induction over the
length of paths does the same for trees: values are not a recursive type in the
proofs but what stands at the paths of a document of bounded depth.

**What stays with TLC.** Liveness: `CallsReturn`, `RetiredProvidersReleased`,
`OperationEnds`, `ExecutionEnds`, since the prover has no fairness and no ENABLED. Type
correctness of `WorkflowExecution` and `TemplateSession` is proved as far as the invariants
above need it.

## 6. Abstractions to keep in mind

* Registries inside `WorkflowExecution` are atomic maps. This is what
  `RegistryIsLinearizable` and `MergeRegistryIsVersioned` establish of them.
* Lock poisoning is in `ParserRegistry` and provably never happens (`ControlInv`),
  since no host code runs under the lock.
* Hosts and providers are arbitrary within their signatures; only the number of
  outputs per answer is bounded.
* Time is one Boolean: the deadline has passed or not.
* A file write is the rename of a staged file. That rename is atomic is an
  assumption on the file system; the order of writes after a power failure is not
  modelled.
* `EditsSurvive` excludes edits made between the reread of a file and its rename,
  the window the installer's contract leaves open.
* `CleanKeepsLayout` compares the text around owners in the way the code does, which
  leaves out lines before a deleted or added owner at the end of the document, and text
  beside an owner on its own lines once owners were added or deleted.
  `AddedTextKept` states what that costs: text a tip adds can be lost in these two places
  and nowhere else.
* A template write truncates and then fills the file (`fs::write`), so it can be torn;
  the installer and the driver rename a staged file, so theirs cannot.
* The engines behind the merge driver and the adapters behind the templates are
  arbitrary or reduced to their effect; `JsonMerge` and `OwnerMerge` model two of them.
* JSON scalars are opaque, comments are those behind the last member on its line (none, one,
  or two in a row) and those between members, and documents nest to the depth of the instance.

## 7. Not modelled

`PROJECT.json` lists every part with its reason. In short: language analyses and
parser backends work on concrete syntax and enter the models as arbitrary answers;
bindings are generated from the facade; records, reports and configuration
translation are field-by-field conversions without state or order; benchmark
contracts validate a file format. More than half of the workspace's lines are the
generated bindings (`structuredmerge-core-ffi`, `structuredmerge-core-py` and the Ruby
extension), which hold no logic of their own. Left out of modelled parts: the list of
changes beside the conflicts of a sequence analysis (no merge modelled here reads it),
the template functions that only re-encode a request, the source-free selection
reports (the same selection without its execution), byte-origin evidence.

## 8. Plan

In this order, each with its TLC instance, its properties and, where marked, proofs:

1. **Proofs**: type correctness of `WorkflowExecution` and `TemplateSession` in full; what
   `AnalyzeThreeWaySequence` says of insertions and reorderings.
2. **Review and replay**: decisions recorded in one process and replayed in another
   against a document that may have changed.
3. **Structural edits**: a batch of line-range edits against their one-by-one
   application; abstract specification, refinement.
4. **Ingest observation, archive plan**: lineage checks, member plans.
5. **Composition**: the parser-registry changes of `WorkflowExecution` through an instance
   of `ParserRegistry`'s abstraction; `MergeDriver` over `JsonMerge`.
