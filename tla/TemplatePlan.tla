---------------------------- MODULE TemplatePlan ----------------------------
(***************************************************************************)
(* Planning, previewing and applying a tree of templates to a destination  *)
(* tree (crates/ast-merge/src/lib.rs).  Every operator is one function of  *)
(* the code, applied to all entries of a plan.                             *)
(*                                                                         *)
(* A template source is its path with one ".example" suffix told apart     *)
(* from it; a content is a sequence of atoms, some of them tokens; a tree  *)
(* maps the paths present to their contents.                               *)
(***************************************************************************)
EXTENDS Naturals, FiniteSets, SequencesExt

CONSTANTS
  Atoms,       \* what contents are made of
  TokenKeys,   \* atoms that are well-formed template tokens
  Bad,         \* an atom no merge adapter parses
  Unrendered,  \* pairs of a destination and a template that parse, but whose
               \* merge the adapter does not render or verify
  Adapters,    \* families the default registry has an adapter for
  FamilyOf,    \* path -> family of its file type
  None

Contents == Seq(Atoms)

ASSUME ContentAssumption == TokenKeys \cup {Bad} \subseteq Atoms /\ None \notin Contents

Strategies == {"merge", "accept_template", "keep_destination", "raw_copy"}

-----------------------------------------------------------------------------
(* One entry of the plan: it has the fields of all the planning passes, and *)
(* each pass fills in its own.                                             *)

\* "x.no-osc.example" and "x.example" stand for "x".
NormalizeTemplateSourcePath(source) == source.path

\* The project's gemspec takes the place of gem.gemspec, one file is never
\* copied and one keeps its suffix.
ResolveTemplateDestinationPath(path, project) ==
  IF path = ".kettle-jem.yml" THEN None
  ELSE IF path = ".env.local" THEN ".env.local.example"
  ELSE IF path = "gem.gemspec" /\ project # None THEN project
  ELSE path

\* The first override for the path, or the default.
SelectTemplateStrategy(path, default, overrides) ==
  LET matching == SelectSeq(overrides, LAMBDA o : o.path = path)
  IN  IF matching = <<>> THEN default ELSE matching[1].strategy

PlanTemplateEntry(source, o) ==
  LET path == NormalizeTemplateSourcePath(source)
  IN  [source   |-> source,
       logical  |-> path,
       dest     |-> ResolveTemplateDestinationPath(path, o.project),
       family   |-> FamilyOf[path],
       strategy |-> SelectTemplateStrategy(path, o.strategy, o.overrides),
       exists   |-> FALSE, write |-> "none", required |-> FALSE, blocked |-> FALSE,
       prepared |-> None, action |-> "none", content |-> None]

\* Fault: a destination that is there already is not written again.
Enrich_KeepsExisting(e, existing) ==
  LET exists == e.dest \in existing
  IN  [e EXCEPT !.exists = exists,
                !.write = IF e.dest = None THEN "omit"
                          ELSE IF exists \/ e.strategy = "keep_destination" THEN "keep"
                          ELSE "create"]

EnrichTemplatePlanEntry(e, existing) ==
  LET exists == e.dest \in existing
  IN  [e EXCEPT !.exists = exists,
                !.write = IF e.dest = None THEN "omit"
                          ELSE IF e.strategy = "keep_destination" THEN "keep"
                          ELSE IF exists THEN "update" ELSE "create"]

\* The tokens of a content; they are replaced in the order of first use.
TemplateTokenKeys(content) == ToSet(content) \cap TokenKeys
FirstUse(content, i) == /\ content[i] \in TokenKeys
                        /\ \A j \in 1..(i - 1) : content[j] # content[i]

UnresolvedTemplateTokenKeys(content, replacements) ==
  TemplateTokenKeys(content) \ DOMAIN replacements

\* One replacement after the other, over the text as it has become: what an
\* earlier replacement brought in, a later one replaces too.
ReplaceToken(text, key, value) ==
  [i \in DOMAIN text |-> IF text[i] = key THEN value ELSE text[i]]
ResolveTemplateTokens(content, replacements) ==
  LET resolved[k \in 0..Len(content)] ==
        IF k = 0 THEN content
        ELSE IF FirstUse(content, k) /\ content[k] \in DOMAIN replacements
        THEN ReplaceToken(resolved[k - 1], content[k], replacements[content[k]])
        ELSE resolved[k - 1]
  IN  resolved[Len(content)]

EnrichWithTokenState(e, content, replacements) ==
  LET required == e.dest # None /\ e.strategy \notin {"keep_destination", "raw_copy"}
  IN  [e EXCEPT !.required = required,
                !.blocked = /\ required
                            /\ UnresolvedTemplateTokenKeys(content, replacements) # {}]

PrepareTemplateEntry(e, content, replacements) ==
  [e EXCEPT !.prepared = IF e.blocked THEN None
                         ELSE IF e.required THEN ResolveTemplateTokens(content, replacements)
                         ELSE content]

PlanTemplateExecution(e, tree) ==
  [e EXCEPT !.action = IF e.blocked THEN "blocked"
                       ELSE IF e.dest = None THEN "omit"
                       ELSE IF e.write = "keep" THEN "keep"
                       ELSE IF e.strategy = "raw_copy" THEN "raw_copy"
                       ELSE IF e.strategy = "accept_template" THEN "write" ELSE "merge",
            !.content = IF e.dest \in DOMAIN tree THEN tree[e.dest] ELSE None]

\* The whole plan, in the sorted order of the template paths.
PlanTemplateTreeExecution(sources, templates, tree, o) ==
  LET planned(s)  == EnrichTemplatePlanEntry(PlanTemplateEntry(s, o), DOMAIN tree)
      checked(s)  == EnrichWithTokenState(planned(s), templates[s], o.replacements)
      prepared(s) == PrepareTemplateEntry(checked(s), templates[s], o.replacements)
  IN  [i \in DOMAIN sources |-> PlanTemplateExecution(prepared(sources[i]), tree)]

-----------------------------------------------------------------------------
(* Preview and application *)

NoResult == [files |-> <<>>, created |-> {}, updated |-> {}, kept |-> {},
             blocked |-> {}, omitted |-> {}]

Put(files, path, content) == [p \in DOMAIN files \cup {path} |->
                                IF p = path THEN content ELSE files[p]]

\* Fault: an existing destination counts as updated even when it is equal.
RecordTemplateApplyOutput_Blind(r, e, output) ==
  LET placed == [r EXCEPT !.files = Put(@, e.dest, output)]
  IN  IF e.exists THEN [placed EXCEPT !.updated = @ \cup {e.dest}]
      ELSE [placed EXCEPT !.created = @ \cup {e.dest}]

RecordTemplateApplyOutput(r, e, output) ==
  LET placed == [r EXCEPT !.files = Put(@, e.dest, output)]
  IN  CASE e.exists /\ e.content = output -> [placed EXCEPT !.kept = @ \cup {e.dest}]
        [] e.exists /\ e.content # output -> [placed EXCEPT !.updated = @ \cup {e.dest}]
        [] ~e.exists -> [placed EXCEPT !.created = @ \cup {e.dest}]

\* What preview and application do alike.
Settle(r, e) ==
  CASE e.action = "blocked" -> [r EXCEPT !.blocked = @ \cup {e.dest}]
    [] e.action = "omit" -> [r EXCEPT !.omitted = @ \cup {e.logical}]
    [] e.action = "keep" ->
         IF e.content = None THEN r
         ELSE [r EXCEPT !.files = Put(@, e.dest, e.content), !.kept = @ \cup {e.dest}]

\* A merge with an existing destination cannot be previewed.
PreviewEntry(r, e) ==
  CASE e.action \in {"blocked", "omit", "keep"} -> Settle(r, e)
    [] e.action \in {"raw_copy", "write"} ->
         LET placed == [r EXCEPT !.files = Put(@, e.dest, e.prepared)]
         IN  IF e.exists /\ e.content = e.prepared
             THEN [placed EXCEPT !.kept = @ \cup {e.dest}]
             ELSE IF e.exists THEN [placed EXCEPT !.updated = @ \cup {e.dest}]
             ELSE [placed EXCEPT !.created = @ \cup {e.dest}]
    [] e.action = "merge" ->
         IF e.content # None THEN r
         ELSE LET placed == [r EXCEPT !.files = Put(@, e.dest, e.prepared)]
              IN  IF e.exists THEN [placed EXCEPT !.updated = @ \cup {e.dest}]
                  ELSE [placed EXCEPT !.created = @ \cup {e.dest}]

PreviewTemplateExecution(plan) ==
  LET after[k \in 0..Len(plan)] ==
        IF k = 0 THEN NoResult ELSE PreviewEntry(after[k - 1], plan[k])
  IN  after[Len(plan)]

\* A family adapter gives up where the template or the destination does not
\* parse, and where it cannot render or verify the merge of the two.
Refuses(e) ==
  \/ Bad \in ToSet(e.prepared) \/ Bad \in ToSet(e.content)
  \/ <<e.content, e.prepared>> \in Unrendered

\* Otherwise: the destination, then what the template adds to it.
MergePreparedContentFromRegistry(e, registry) ==
  LET merged[k \in 0..Len(e.prepared)] ==
        IF k = 0 THEN e.content
        ELSE IF e.prepared[k] \in ToSet(e.content) THEN merged[k - 1]
        ELSE Append(merged[k - 1], e.prepared[k])
  IN  IF e.family \notin registry \/ Refuses(e) THEN None
      ELSE merged[Len(e.prepared)]

ApplyEntry(r, e, registry) ==
  CASE e.action \in {"blocked", "omit", "keep"} -> Settle(r, e)
    [] e.action \in {"raw_copy", "write"} \/ (e.action = "merge" /\ e.content = None) ->
         RecordTemplateApplyOutput(r, e, e.prepared)
    [] e.action = "merge" /\ e.content # None ->
         LET output == MergePreparedContentFromRegistry(e, registry)
         IN  IF output = None THEN [r EXCEPT !.blocked = @ \cup {e.dest}]
             ELSE RecordTemplateApplyOutput(r, e, output)

ApplyTemplateExecution(plan, registry) ==
  LET after[k \in 0..Len(plan)] ==
        IF k = 0 THEN NoResult ELSE ApplyEntry(after[k - 1], plan[k], registry)
  IN  after[Len(plan)]

\* Fault: kept files are written back with the rest.
FilesToWrite_All(result) == result.files

\* Only what the result calls created or updated goes to disk.
FilesToWrite(result) ==
  [p \in (result.created \cup result.updated) \cap DOMAIN result.files |-> result.files[p]]

-----------------------------------------------------------------------------
(* Reports *)

\* Fault: an entry that was blocked while it was applied is not looked for.
RunStatus_PlanOnly(e, result) ==
  CASE e.action = "omit" \/ e.logical \in result.omitted -> "omitted"
    [] e.action = "blocked" -> "blocked"
    [] e.dest \in result.kept -> "kept"
    [] e.dest \in result.updated -> "updated"
    [] OTHER -> "created"

\* The first list that names the destination decides; none of them: created.
RunStatus(e, result) ==
  IF e.action = "omit" \/ e.logical \in result.omitted THEN "omitted"
  ELSE IF e.dest \in result.blocked THEN "blocked"
  ELSE IF e.dest \in result.kept THEN "kept"
  ELSE IF e.dest \in result.updated THEN "updated"
  ELSE "created"

ReportTemplateDirectoryApply(plan, result) ==
  [i \in DOMAIN plan |->
     [dest    |-> plan[i].dest,
      status  |-> RunStatus(plan[i], result),
      written |-> plan[i].dest \in result.created \cup result.updated]]

ReportTemplateDirectoryPlan(plan) ==
  [i \in DOMAIN plan |->
     [dest   |-> plan[i].dest,
      status |-> IF plan[i].action \in {"blocked", "keep"} THEN plan[i].action
                 ELSE IF plan[i].action = "omit" THEN "omitted"
                 ELSE IF plan[i].write = "create" THEN "create" ELSE "update",
      previewable |-> /\ plan[i].action # "blocked"
                      /\ plan[i].action = "merge" => plan[i].write = "create"]]
=============================================================================
