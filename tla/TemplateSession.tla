-------------------------- MODULE TemplateSession ---------------------------
(***************************************************************************)
(* Template directory sessions (crates/ast-template/src/lib.rs over the    *)
(* directory functions of crates/ast-merge/src/lib.rs).  A session resolves*)
(* its request, reads the destination once, plans, and in the apply modes  *)
(* writes file after file in sorted order.  A write may fail or be cut     *)
(* short, and the user may edit the destination at any time; a session may *)
(* be inspected before it runs, and run again.                             *)
(***************************************************************************)
EXTENDS TemplatePlan

CONSTANTS
  Setups,      \* what a behaviour starts from: sources, templates, tree, request
  Profiles,    \* profile name -> options
  PathOrder,   \* destination paths in sorted order
  UserEdit,    \* atom the user's edits consist of
  MaxRuns,     \* bound: sessions
  MaxEdits     \* bound: edits by the user

IsTree(tree) == \A p \in DOMAIN tree : tree[p] \in Contents
IsReplacement(map) == \A k \in DOMAIN map : map[k] \in Atoms

ASSUME SetupAssumption ==
  /\ UserEdit \in Atoms
  /\ \A p \in DOMAIN Profiles : IsReplacement(Profiles[p].replacements)
  /\ \A s \in Setups :
       /\ s.sources \in Seq(ToSet(s.sources))
       /\ \A i \in DOMAIN s.sources : s.templates[s.sources[i]] \in Contents
       /\ s.request.kind \in {"options", "profile"}
       /\ IsTree(s.tree) /\ IsReplacement(s.request.options.replacements)

VARIABLES
  setup,       \* the member of Setups this behaviour runs with
  files,       \* the destination tree
  session,     \* the session that is writing, or None
  outcome,     \* what the last session returned
  runs,
  view,        \* history: the tree the session read, with the edits since
  edited,      \* history: paths edited since the start
  torn,        \* history: paths a write was cut short on
  inspected    \* history: status of an inspection of this very tree, or None

vars == <<setup, files, session, outcome, runs, view, edited, torn, inspected>>

-----------------------------------------------------------------------------
(* Resolving the request *)

DefaultOptions == [mode |-> "plan", strategy |-> "merge", overrides |-> <<>>,
                   replacements |-> <<>>, allowed |-> None, project |-> None]

\* A field of the request that has its default value is inherited.
ResolveSessionOptions(request) ==
  IF request.kind = "options" THEN request.options
  ELSE [f \in DOMAIN DefaultOptions |->
          IF request.options[f] = DefaultOptions[f]
          THEN Profiles[request.profile][f] ELSE request.options[f]]

\* The mode the report of the request names.
RequestMode(request) ==
  IF /\ request.kind = "profile" /\ request.profile \in DOMAIN Profiles
     /\ request.options.mode = "plan" /\ Profiles[request.profile].mode # "plan"
  THEN Profiles[request.profile].mode ELSE request.options.mode

RequestDiagnostics(request) ==
  {[reason |-> r, path |-> None] :
     r \in request.missing \cup (IF /\ request.kind = "profile"
                                    /\ request.profile \notin DOMAIN Profiles
                                 THEN {"missing_profile"} ELSE {})}

Options  == ResolveSessionOptions(setup.request)
Registry(o) == IF o.allowed = None THEN Adapters ELSE Adapters \cap o.allowed
PlanOf(tree) == PlanTemplateTreeExecution(setup.sources, setup.templates, tree, Options)

-----------------------------------------------------------------------------
(* Reports of a session *)

\* Fault: the adapters the caller does not allow count as available.
MissingFamilies_AnyAdapter(plan, o) ==
  {e.family : e \in {x \in ToSet(plan) : x.action = "merge"}} \ Adapters

MissingFamilies(plan, o) ==
  {e.family : e \in {x \in ToSet(plan) : x.action = "merge"}} \ Registry(o)

\* result is None for a session that only plans.
SessionStatus(plan, result, o) ==
  LET planned == ReportTemplateDirectoryPlan(plan)
      applied == IF result = None THEN <<>> ELSE ReportTemplateDirectoryApply(plan, result)
      blocked == {planned[i].dest : i \in {k \in DOMAIN planned : planned[k].status = "blocked"}}
                   \cup {applied[i].dest :
                           i \in {k \in DOMAIN applied : applied[k].status = "blocked"}}
  IN  [ready   |-> MissingFamilies(plan, o) = {} /\ blocked \ {None} = {},
       missing |-> MissingFamilies(plan, o),
       blocked |-> blocked \ {None},
       planned |-> Cardinality({i \in DOMAIN planned :
                                  planned[i].status \in {"create", "update"}}),
       written |-> Cardinality({i \in DOMAIN applied : applied[i].written})]

\* A missing adapter is reported for every merge when nothing was blocked.
SessionDiagnostics(plan, result, o) ==
  LET Path(e) == IF e.dest = None THEN e.logical ELSE e.dest
  IN  {[reason |-> "unresolved_tokens", path |-> Path(e)] :
         e \in {x \in ToSet(plan) : x.blocked}}
      \cup {[reason |-> "missing_family_adapter", path |-> Path(e)] :
              e \in {x \in ToSet(plan) :
                       /\ x.action = "merge" /\ x.family \in MissingFamilies(plan, o)
                       /\ \/ result = None
                          \/ result.blocked = {} \/ Path(x) \in result.blocked}}

\* A session that failed, was refused, planned, or applied.
Outcome(kind, mode, plan, result) ==
  [kind |-> kind, mode |-> mode, plan |-> plan, result |-> result,
   status |-> SessionStatus(plan, result, Options),
   diagnostics |-> SessionDiagnostics(plan, result, Options)]
Failure == [kind |-> "error"]
Refusal(request) == [kind |-> "refused", mode |-> RequestMode(request),
                     diagnostics |-> RequestDiagnostics(request)]

-----------------------------------------------------------------------------
(* The steps of a session *)

Init ==
  /\ setup \in Setups
  /\ files = setup.tree /\ view = setup.tree
  /\ session = None /\ outcome = [kind |-> "none"] /\ runs = 0
  /\ edited = {} /\ torn = {} /\ inspected = None

Start == session = None /\ runs < MaxRuns /\ runs' = runs + 1
Ready == RequestDiagnostics(setup.request) = {}
Unwritten == UNCHANGED <<setup, files, session, view, edited, torn>>

\* An operation the dispatcher does not know, or a tree that cannot be read.
Fail ==
  /\ Start
  /\ outcome' = Failure
  /\ Unwritten /\ UNCHANGED inspected

Refuse ==
  /\ Start /\ ~Ready
  /\ outcome' = Refusal(setup.request)
  /\ Unwritten /\ UNCHANGED inspected

\* "inspect" plans whatever the mode.
Inspect ==
  /\ Start /\ Ready
  /\ outcome' = Outcome("inspection", "plan", PlanOf(files), None)
  /\ inspected' = outcome'.status
  /\ Unwritten

RunPlan ==
  /\ Start /\ Ready /\ Options.mode = "plan"
  /\ outcome' = Outcome("planned", "plan", PlanOf(files), None)
  /\ Unwritten /\ UNCHANGED inspected

\* Everything is decided from one reading of the destination.
RunApply ==
  /\ Start /\ Ready /\ Options.mode \in {"apply", "reapply"}
  /\ LET plan   == PlanOf(files)
         result == ApplyTemplateExecution(plan, Registry(Options))
         writes == FilesToWrite(result)
     IN  session' = [plan |-> plan, result |-> result, writes |-> writes,
                     todo |-> DOMAIN writes]
  /\ view' = files
  /\ outcome' = [kind |-> "none"]
  /\ UNCHANGED <<setup, files, edited, torn, inspected>>

\* The path that comes first among those still to be written.
Due(path) ==
  \E k \in DOMAIN PathOrder : /\ PathOrder[k] = path /\ path \in session.todo
                              /\ \A j \in 1..(k - 1) : PathOrder[j] \notin session.todo

WriteNext(path) ==
  /\ session # None /\ Due(path)
  /\ files' = Put(files, path, session.writes[path])
  /\ session' = [session EXCEPT !.todo = @ \ {path}]
  /\ UNCHANGED <<setup, outcome, runs, view, edited, torn, inspected>>

\* The rest is not written and no report is returned.
WriteFails ==
  /\ session # None /\ session.todo # {}
  /\ session' = None /\ outcome' = Failure /\ inspected' = None
  /\ UNCHANGED <<setup, files, runs, view, edited, torn>>

\* The file is truncated before it is filled: a write may stop in between.
WriteTorn(path) ==
  /\ session # None /\ Due(path)
  /\ LET text == session.writes[path]
     IN  /\ \E n \in 0..(Len(text) - 1), cut \in {<<>>, <<Bad>>} :
              files' = Put(files, path, SubSeq(text, 1, n) \o cut)
         /\ torn' = torn \cup {path}
  /\ session' = None /\ outcome' = Failure /\ inspected' = None
  /\ UNCHANGED <<setup, runs, view, edited>>

Finish ==
  /\ session # None /\ session.todo = {}
  /\ outcome' = Outcome("applied", Options.mode, session.plan, session.result)
  /\ session' = None
  /\ UNCHANGED <<setup, files, runs, view, edited, torn, inspected>>

\* The user changes a file of the destination, or adds one.
Edit(path) ==
  /\ Cardinality(edited) < MaxEdits
  /\ files' = Put(files, path, <<UserEdit>>)
  /\ view' = Put(view, path, <<UserEdit>>)
  /\ edited' = edited \cup {path}
  /\ inspected' = None
  /\ outcome' = [kind |-> "none"]
  /\ UNCHANGED <<setup, session, runs, torn>>

Next ==
  \/ Fail \/ Refuse \/ Inspect \/ RunPlan \/ RunApply
  \/ WriteFails \/ Finish
  \/ \E path \in ToSet(PathOrder) : WriteNext(path) \/ WriteTorn(path) \/ Edit(path)

Spec == Init /\ [][Next]_vars

-----------------------------------------------------------------------------
(* Properties *)

Same(a, b, path) ==
  /\ path \in DOMAIN a <=> path \in DOMAIN b
  /\ path \in DOMAIN a => a[path] = b[path]

\* Two templates may resolve to one destination; the last one wins.
Alone(path) == \A e, f \in {x \in ToSet(PlanOf(files)) : x.dest = path} : e = f

\* A preview (preview_template_execution has its own copy of the rules) says
\* of every path that no merge is involved in what applying the plan does.
PreviewAgrees ==
  (outcome.kind = "applied") =>
    LET preview == PreviewTemplateExecution(outcome.plan)
        result  == outcome.result
    IN  \A path \in ToSet(PathOrder) :
          (\A e \in ToSet(outcome.plan) :
             e.dest = path => (e.action # "merge" \/ e.content = None))
          => /\ Same(preview.files, result.files, path)
             /\ \A list \in {"created", "updated", "kept", "blocked"} :
                  path \in preview[list] <=> path \in result[list]

\* The report of an applied session tells what happened on disk, for every
\* destination that one template has to itself and the user left alone.
\* (An entry to keep a destination that is not there is reported as created,
\* though nothing is written.)
ReportMatchesDisk ==
  (outcome.kind = "applied") =>
    LET report == ReportTemplateDirectoryApply(outcome.plan, outcome.result)
    IN  \A i \in DOMAIN report :
          LET d == report[i].dest
              s == report[i].status
          IN  (d # None /\ Alone(d) /\ d \notin edited) =>
                /\ report[i].written <=> ~Same(view, files, d)
                /\ s = "created" => d \notin DOMAIN view
                /\ s = "updated" => d \in DOMAIN view /\ report[i].written
                /\ s \in {"kept", "blocked"} => ~report[i].written
                /\ (s = "created" /\ ~report[i].written) => outcome.plan[i].action = "keep"

Overlay(f, g) == [p \in DOMAIN f \cup DOMAIN g |-> IF p \in DOMAIN f THEN f[p] ELSE g[p]]

\* However many sessions failed half way, one that ends without an error
\* leaves what an undisturbed first session would have left.  A merge whose
\* write was cut short is the exception: what it lost is not in the template.
RetryRecovers ==
  (outcome.kind = "applied" /\ edited = {}) =>
    LET first == FilesToWrite(ApplyTemplateExecution(PlanOf(setup.tree), Registry(Options)))
    IN  \A d \in ToSet(PathOrder) :
          (/\ Alone(d)
           /\ \/ d \notin torn
              \/ \A e \in ToSet(outcome.plan) : e.dest # d \/ e.action # "merge")
          => Same(files, Overlay(first, setup.tree), d)

\* A session that ends ready has no diagnostics and would have been called
\* ready by an inspection of the same tree.  One that an inspection calls ready
\* ends ready, unless an adapter then refuses a merge: an inspection runs no
\* adapter, so it cannot know what does not parse or is not rendered.
InspectionPredictsRun ==
  (outcome.kind = "applied" /\ inspected # None) =>
    /\ outcome.status.ready => inspected.ready /\ outcome.diagnostics = {}
    /\ inspected.ready =>
         \/ outcome.status.ready
         \/ \E e \in ToSet(outcome.plan) : e.action = "merge" /\ e.content # None /\ Refuses(e)

\* What the user saves while a session runs is overwritten only at a path
\* that the session reports as created or updated.
EditsLostOnlyWhereReported ==
  LET result == IF session # None THEN session.result
                ELSE IF outcome.kind = "applied" THEN outcome.result ELSE None
  IN  (result # None) =>
        \A d \in ToSet(PathOrder) \ (result.created \cup result.updated) : Same(files, view, d)

=============================================================================
