---------------------------- MODULE ParseService ----------------------------
(***************************************************************************)
(* One parse operation of TreeHaverParseService over a retained registry   *)
(* snapshot (crates/tree-haver/src/service.rs): admission of the batch,    *)
(* parser selection with probes, grouped dispatch to provider callbacks,   *)
(* collection of the outputs.  Providers are host code: a probe or a parse *)
(* callback may take any time, fault, panic or answer with the wrong       *)
(* batch.  Meanwhile the operation may be cancelled from another thread    *)
(* (OperationControl) and its deadline may pass.                           *)
(***************************************************************************)
EXTENDS Integers, Sequences, FiniteSets

CONSTANTS
  Backends,         \* provider IDs of the snapshot; numbers, in ID order
  Descriptor,       \* backend -> family, langs, dialects, contracts, caps, priority
  Profile,          \* language -> profile_preferences, a sequence of IDs
  Constraints,      \* the service's conjunctive ParserConstraints
  Batches,          \* batches a caller may submit
  RequestIds,       \* request IDs an output may carry
  MaxBatchItems, MaxInputBytes,
  NoId              \* an absent optional field

ASSUME BackendsAssumption == Backends \subseteq Nat /\ IsFiniteSet(Backends)
ASSUME NoIdAssumption == NoId \notin Backends

\* The requests of a batch are a vector; so are the preferences of a request
\* and of a language's profile; a priority is a signed number.
Requests == UNION {{reqs[i] : i \in DOMAIN reqs} : reqs \in Batches}

ASSUME RequestsAssumption ==
  /\ Batches \subseteq Seq(Requests)
  /\ \A r \in Requests : r.preference \in Seq(Nat) /\ Profile[r.lang] \in Seq(Nat)
  /\ \A b \in Backends : Descriptor[b].priority \in Int
ASSUME LimitsAssumption == MaxBatchItems \in Nat /\ MaxInputBytes \in Nat

VARIABLES
  cancelled, expired,   \* the control: one-way flag, deadline in the past
  batch,                \* the submitted requests
  phase,                \* where the operation is
  cur,                  \* request being selected
  examined,             \* backends examined for it
  eligible,             \* of these, the ones not rejected
  target,               \* backend whose callback is running
  chosen,               \* per selected request, its backend
  served,               \* backends whose group has been dispatched
  results,              \* request ID -> backend that parsed it
  outcome,              \* "running", "ok" or the error returned
  probes, parses,       \* history: probes (request, backend), parse callbacks
  late                  \* history: a callback came back after control fired

parseVars == <<cancelled, expired, batch, phase, cur, examined, eligible, target,
          chosen, served, results, outcome, probes, parses, late>>

Phases == {"admit", "begin", "select", "probing", "dispatch", "parsing", "done"}
Outcomes == {"running", "ok", "Cancelled", "DeadlineExceeded", "InvalidRequest",
             "LimitExceeded", "Source", "Selection", "Provider", "ProviderPanic",
             "InvalidBatch", "InvalidResult"}

RequestIdsOf(reqs) == {reqs[i].rid : i \in DOMAIN reqs}

ParseInit ==
  /\ cancelled = FALSE /\ expired \in BOOLEAN
  /\ batch \in Batches
  /\ phase = "admit" /\ cur = 1
  /\ examined = {} /\ eligible = {} /\ target = NoId
  /\ chosen = <<>> /\ served = {} /\ results = <<>>
  /\ outcome = "running"
  /\ probes = {} /\ parses = <<>> /\ late = FALSE

-----------------------------------------------------------------------------
(* Control *)

Fired == cancelled \/ expired

\* ExecutionContext::check: cancellation is reported before the deadline.
CheckError == IF cancelled THEN "Cancelled" ELSE "DeadlineExceeded"

\* OperationControl::cancel from any thread, at any time.
Cancel ==
  /\ ~cancelled
  /\ cancelled' = TRUE
  /\ UNCHANGED <<expired, batch, phase, cur, examined, eligible, target,
                 chosen, served, results, outcome, probes, parses, late>>

\* The monotonic clock passes the deadline.
Expire ==
  /\ ~expired
  /\ expired' = TRUE
  /\ UNCHANGED <<cancelled, batch, phase, cur, examined, eligible, target,
                 chosen, served, results, outcome, probes, parses, late>>

FailWith(e) ==
  /\ outcome' = e
  /\ phase' = "done"
  /\ results' = <<>>

-----------------------------------------------------------------------------
(* Admission: the whole batch is validated before the first callback *)

\* Bytes of the first n requests.
BytesOf(reqs, n) ==
  LET total[k \in 0..n] == IF k = 0 THEN 0 ELSE total[k - 1] + reqs[k].bytes
  IN  total[n]

\* validate_request, duplicate IDs and SourceDocument::validate against the
\* remaining byte budget, for the request at position i.
RequestError(reqs, i) ==
  LET earlier == SubSeq(reqs, 1, i - 1)
  IN  IF ~reqs[i].wellformed THEN "InvalidRequest"
      ELSE IF reqs[i].rid \in RequestIdsOf(earlier) THEN "InvalidRequest"
      ELSE IF reqs[i].sid \in {earlier[j].sid : j \in DOMAIN earlier} THEN "Source"
      ELSE IF ~reqs[i].intact \/ BytesOf(reqs, i) > MaxInputBytes THEN "Source"
      ELSE "ok"

\* Error of the first request that has one.
BatchError(reqs) ==
  LET bad == {i \in DOMAIN reqs : RequestError(reqs, i) # "ok"}
  IN  IF bad = {} THEN "ok"
      ELSE RequestError(reqs, CHOOSE i \in bad : \A j \in bad : i <= j)

\* Fault: requests are validated one by one, as they are selected.
Admit_FirstOnly ==
  /\ phase = "admit"
  /\ LET error == IF Fired THEN CheckError
                  ELSE IF batch = <<>> THEN "InvalidRequest"
                  ELSE IF Len(batch) > MaxBatchItems THEN "LimitExceeded"
                  ELSE RequestError(batch, 1)
     IN  IF error = "ok"
           THEN phase' = "begin" /\ UNCHANGED <<outcome, results>>
           ELSE FailWith(error)
  /\ UNCHANGED <<cancelled, expired, batch, cur, examined, eligible, target,
                 chosen, served, probes, parses, late>>

Admit ==
  /\ phase = "admit"
  /\ LET error == IF Fired THEN CheckError
                  ELSE IF batch = <<>> THEN "InvalidRequest"
                  ELSE IF Len(batch) > MaxBatchItems THEN "LimitExceeded"
                  ELSE BatchError(batch)
     IN  IF error = "ok"
           THEN phase' = "begin" /\ UNCHANGED <<outcome, results>>
           ELSE FailWith(error)
  /\ UNCHANGED <<cancelled, expired, batch, cur, examined, eligible, target,
                 chosen, served, probes, parses, late>>

-----------------------------------------------------------------------------
(* Selection *)

Required(r) ==
  r.caps \cup UNION {c.caps : c \in Constraints}

\* The declaration-level rejections of select_parser.
StaticallyEligible(r, b) ==
  LET d == Descriptor[b]
  IN  /\ r.explicit \in {NoId, b}
      /\ \A c \in Constraints :
           /\ c.allowed # {} => b \in c.allowed
           /\ b \notin c.forbidden
           /\ c.families # {} => d.family \in c.families
           /\ d.family \notin c.forbiddenFamilies
           /\ c.contracts \subseteq d.contracts
      /\ r.lang \in d.langs
      /\ r.dialect = NoId \/ r.dialect \in d.dialects
      /\ Required(r) \subseteq d.caps

\* Position in a preference list; absent means last (usize::MAX).
Position(s, b) ==
  IF \E i \in DOMAIN s : s[i] = b
    THEN CHOOSE i \in DOMAIN s : s[i] = b
    ELSE Len(s) + 1

\* Candidate order: request preference, profile preference, priority
\* descending, stable ID.
Before(r, a, b) ==
  LET pa == Position(r.preference, a)   pb == Position(r.preference, b)
      qa == Position(Profile[r.lang], a) qb == Position(Profile[r.lang], b)
      ra == Descriptor[a].priority       rb == Descriptor[b].priority
  IN  \/ pa < pb
      \/ pa = pb /\ qa < qb
      \/ pa = pb /\ qa = qb /\ ra > rb
      \/ pa = pb /\ qa = qb /\ ra = rb /\ a < b

NextBackend == CHOOSE b \in Backends \ examined :
                 \A c \in Backends \ examined : b <= c

\* parser_for checks control before it looks at any candidate.
BeginSelection ==
  /\ phase = "begin"
  /\ IF Fired THEN FailWith(CheckError)
     ELSE phase' = "select" /\ UNCHANGED <<outcome, results>>
  /\ UNCHANGED <<cancelled, expired, batch, cur, examined, eligible, target,
                 chosen, served, probes, parses, late>>

\* Fault: a rejected candidate is not put behind.
Examine_Stuck ==
  /\ phase = "select" /\ examined # Backends
  /\ StaticallyEligible(batch[cur], NextBackend) /\ ~Fired
  /\ phase' = "probing" /\ target' = NextBackend
  /\ probes' = probes \cup {<<cur, NextBackend>>}
  /\ UNCHANGED <<cancelled, expired, batch, cur, examined, eligible, chosen,
                 served, outcome, results, parses, late>>

\* Next candidate in ID order: a declaration-level rejection needs no
\* callback; otherwise control is checked and the probe starts.
Examine ==
  /\ phase = "select" /\ examined # Backends
  /\ LET b == NextBackend
     IN  IF ~StaticallyEligible(batch[cur], b)
           THEN /\ examined' = examined \cup {b}
                /\ UNCHANGED <<phase, target, outcome, results, probes>>
           ELSE IF Fired
             THEN FailWith(CheckError) /\ UNCHANGED <<examined, target, probes>>
             ELSE /\ phase' = "probing" /\ target' = b
                  /\ probes' = probes \cup {<<cur, b>>}
                  /\ UNCHANGED <<examined, outcome, results>>
  /\ UNCHANGED <<cancelled, expired, batch, cur, eligible, chosen, served,
                 parses, late>>

\* Fault: control is not checked again when the probe comes back.
ProbeReturns_Unchecked(usable) ==
  /\ phase = "probing"
  /\ phase' = "select"
  /\ examined' = examined \cup {target}
  /\ eligible' = IF usable THEN eligible \cup {target} ELSE eligible
  /\ target' = NoId
  /\ late' = (late \/ Fired)
  /\ UNCHANGED <<cancelled, expired, batch, cur, chosen, served, outcome,
                 results, probes, parses>>

\* A probe comes back: available and loadable, or not, or faulted, or
\* panicked.  Control is checked first.
ProbeReturns(usable) ==
  /\ phase = "probing"
  /\ late' = (late \/ Fired)
  /\ target' = NoId
  /\ IF Fired
       THEN FailWith(CheckError) /\ UNCHANGED <<examined, eligible>>
       ELSE /\ phase' = "select"
            /\ examined' = examined \cup {target}
            /\ eligible' = IF usable THEN eligible \cup {target} ELSE eligible
            /\ UNCHANGED <<outcome, results>>
  /\ UNCHANGED <<cancelled, expired, batch, cur, chosen, served, probes, parses>>

\* Every candidate has been examined: the first one left wins, or the
\* request has no parser.
Choose ==
  /\ phase = "select" /\ examined = Backends
  /\ IF eligible = {}
       THEN FailWith("Selection") /\ UNCHANGED <<cur, chosen>>
       ELSE /\ chosen' = Append(chosen,
                 CHOOSE b \in eligible :
                   \A c \in eligible \ {b} : Before(batch[cur], b, c))
            /\ cur' = cur + 1
            /\ IF cur = Len(batch)
                 THEN phase' = "dispatch" /\ UNCHANGED <<outcome, results>>
                 ELSE phase' = "begin" /\ UNCHANGED <<outcome, results>>
  /\ examined' = {} /\ eligible' = {}
  /\ UNCHANGED <<cancelled, expired, batch, target, served, probes, parses, late>>

-----------------------------------------------------------------------------
(* Dispatch *)

Selected == {chosen[i] : i \in DOMAIN chosen}
Pending  == Selected \ served
Group(b) == {batch[i].rid : i \in {j \in DOMAIN chosen : chosen[j] = b}}

\* The next group, in backend ID order, after a control check.
Dispatch ==
  /\ phase = "dispatch" /\ Pending # {}
  /\ IF Fired
       THEN FailWith(CheckError) /\ UNCHANGED <<target, parses>>
       ELSE LET b == CHOOSE x \in Pending : \A y \in Pending : x <= y
            IN  /\ phase' = "parsing" /\ target' = b
                /\ parses' = Append(parses, b)
                /\ UNCHANGED <<outcome, results>>
  /\ UNCHANGED <<cancelled, expired, batch, cur, examined, eligible, chosen,
                 served, probes, late>>

\* Fault: outputs are matched by count only.
OutputError_CountOnly(b, outputs) ==
  IF Len(outputs) # Cardinality(Group(b)) THEN "InvalidBatch"
  ELSE IF \E i \in DOMAIN outputs : ~outputs[i].valid THEN "InvalidResult"
  ELSE "ok"

\* What is wrong with the outputs of backend b, if anything: cardinality,
\* then per output its request ID and ParsedDocument::validate.
OutputError(b, outputs) ==
  LET expectedAt(i) == Group(b) \ {outputs[j].rid : j \in 1..(i - 1)}
      ErrorAt(i) == IF outputs[i].rid \notin expectedAt(i) THEN "InvalidBatch"
                    ELSE IF ~outputs[i].valid THEN "InvalidResult" ELSE "ok"
      bad == {i \in DOMAIN outputs : ErrorAt(i) # "ok"}
  IN  IF Len(outputs) # Cardinality(Group(b)) THEN "InvalidBatch"
      ELSE IF bad = {} THEN "ok"
      ELSE ErrorAt(CHOOSE i \in bad : \A j \in bad : i <= j)

Collect(b, outputs) ==
  [i \in RequestIdsOf(outputs) \cup DOMAIN results |->
     IF i \in RequestIdsOf(outputs) THEN b ELSE results[i]]

\* The parse callback comes back with a panic, a fault or outputs.  Control
\* is checked before the answer is looked at.
ParseReturns(answer, outputs) ==
  /\ phase = "parsing"
  /\ late' = (late \/ Fired)
  /\ target' = NoId
  /\ LET error == IF Fired THEN CheckError
                  ELSE IF answer # "outputs" THEN answer
                  ELSE OutputError(target, outputs)
     IN  IF error # "ok"
           THEN FailWith(error) /\ UNCHANGED served
           ELSE /\ phase' = "dispatch"
                /\ served' = served \cup {target}
                /\ results' = Collect(target, outputs)
                /\ UNCHANGED outcome
  /\ UNCHANGED <<cancelled, expired, batch, cur, examined, eligible, chosen,
                 probes, parses>>

\* All groups are in: a last control check, then results in request order.
Finish ==
  /\ phase = "dispatch" /\ Pending = {}
  /\ IF Fired THEN FailWith(CheckError)
     ELSE /\ phase' = "done"
          /\ outcome' = IF \A i \in DOMAIN batch : batch[i].rid \in DOMAIN results
                          THEN "ok" ELSE "InvalidRequest"
          /\ UNCHANGED results
  /\ UNCHANGED <<cancelled, expired, batch, cur, examined, eligible, target,
                 chosen, served, probes, parses, late>>

-----------------------------------------------------------------------------

Answers == {"outputs", "Provider", "ProviderPanic"}
Outputs == [rid : RequestIds, valid : BOOLEAN]
\* Bound: a callback answers with at most one output too many.
OutputSeqs == UNION {[1..n -> Outputs] : n \in 0..3}

CallbackReturns ==
  \/ \E usable \in BOOLEAN : ProbeReturns(usable)
  \/ \E answer \in Answers, outputs \in OutputSeqs :
       /\ answer # "outputs" => outputs = <<>>
       /\ ParseReturns(answer, outputs)

Run == Admit \/ BeginSelection \/ Examine \/ Choose \/ Dispatch \/ Finish \/ CallbackReturns

ParseNext == Run \/ Cancel \/ Expire

ParseSpec == ParseInit /\ [][ParseNext]_parseVars

\* Callbacks are cooperative but do return; nobody is obliged to cancel.
ParseFairSpec == ParseSpec /\ WF_parseVars(Run)

-----------------------------------------------------------------------------
(* Properties *)

\* Every variable ranges over its type.
ParseTypeOK ==
  /\ cancelled \in BOOLEAN /\ expired \in BOOLEAN /\ late \in BOOLEAN
  /\ batch \in Batches
  /\ phase \in Phases /\ outcome \in Outcomes
  /\ cur \in 1..(Len(batch) + 1)
  /\ examined \subseteq Backends /\ eligible \subseteq examined
  /\ target \in Backends \cup {NoId}
  /\ chosen \in Seq(Backends) /\ Len(chosen) = cur - 1
  /\ served \subseteq Backends
  /\ DOMAIN results \subseteq RequestIds
  /\ probes \subseteq (1..Len(batch)) \X Backends
  /\ parses \in Seq(Backends)

\* "late results are rejected, not preempted" (host.rs): a callback that
\* comes back after cancellation or the deadline decides nothing, whatever
\* it answered; the operation reports the control.
LateAnswersDiscarded ==
  late => phase = "done" /\ outcome \in {"Cancelled", "DeadlineExceeded"}

\* "Validate the whole batch before the first callback, including probes":
\* no provider code has run for a batch any part of which is invalid.
NoCallbackForInvalidBatch ==
  (probes # {} \/ parses # <<>>) =>
    Len(batch) \in 1..MaxBatchItems /\ BatchError(batch) = "ok"

\* A success has exactly one result per request, parsed by the backend that
\* was selected and successfully probed for that very request; an explicit
\* backend is never substituted.
ResultsMatchSelection ==
  outcome = "ok" =>
    /\ DOMAIN results = RequestIdsOf(batch)
    /\ \A i \in DOMAIN batch :
         /\ results[batch[i].rid] = chosen[i]
         /\ <<i, chosen[i]>> \in probes
         /\ batch[i].explicit \in {NoId, chosen[i]}

\* An operation ends once its callbacks return.
OperationEnds == <>(phase = "done")

=============================================================================
