----------------------------- MODULE JsonMerge -----------------------------
(***************************************************************************)
(* Source-preserving JSON merges (crates/json-merge/src/                   *)
(* source_preserving.rs, typed.rs): the three-way merge, over the typed    *)
(* entry point with its duplicate-member guard and over the untyped one    *)
(* without it, and the two-way merge of a template into a destination.  A  *)
(* merge plans edits of one revision's text, applies them and accepts the  *)
(* text only if it still means what was planned.                           *)
(*                                                                         *)
(* A value is what was parsed: an object keeps its members in order,       *)
(* repeated keys included, whether it stands on one line, and its comments: *)
(* "tail" is the one behind the last member on its line, "second" another  *)
(* directly behind that one, and "inner" one between members.  What a      *)
(* value means (semantic) knows none of that.                              *)
(*                                                                         *)
(* The merges descend three documents, or two, at once.  Here they are     *)
(* functions of where they have got to: the path of keys from the root,    *)
(* which names the one value of each document that is being merged.        *)
(***************************************************************************)
EXTENDS NodeMatching

CONSTANTS
  KeyOrder,     \* the keys, in their sort order
  IdKey,        \* the key "id"
  MaxDepth,     \* how deep documents nest
  Families      \* merges to run: sets of lanes, bases, ours and theirs

Keys == ToSet(KeyOrder)

VARIABLES
  input,
  pc,
  plan,         \* what the output must mean, edits, additions, conflicts
  rendered,     \* the candidate output
  outcome       \* running, clean, conflict or refused

vars == <<input, pc, plan, rendered, outcome>>

-----------------------------------------------------------------------------
(* Values and what they mean *)

Absent == [kind |-> "absent"]

\* build_object: the members are put into a map one by one, so that the last
\* of repeated members counts.
MeaningOf(members) ==
  [k \in Keys |->
     LET named == {i \in DOMAIN members : members[i].key = k}
     IN  IF named = {} THEN Absent ELSE members[Max(named)].value.semantic]

\* build_value: one value of each kind; fields a kind does not use are empty.
Scalar(v) ==
  [semantic |-> [kind |-> "scalar", scalar |-> v],
   members |-> <<>>, elements |-> <<>>, inline |-> TRUE, notes |-> {}]
ArrayOf(s) ==
  [semantic |-> [kind |-> "array", elements |-> [i \in DOMAIN s |-> s[i].semantic]],
   members |-> <<>>, elements |-> s, inline |-> TRUE, notes |-> {}]
Object(members, inline, notes) ==
  [semantic |-> [kind |-> "object", members |-> MeaningOf(members)],
   members |-> members, elements |-> <<>>, inline |-> inline, notes |-> notes]

Kind(v) == v.semantic.kind
KeysOf(v) == {v.members[i].key : i \in DOMAIN v.members}
Positions(v, k) == {i \in DOMAIN v.members : v.members[i].key = k}

\* member: lookup by key finds the first of repeated members.
FirstMember(v, k) == v.members[Min(Positions(v, k))]

\* What a key of a meaning means; Absent if it has no such key.
At(m, k) == IF m.kind = "object" /\ k \in Keys THEN m.members[k] ELSE Absent

\* What the lookups along a path of keys find, NoValue where there is no
\* such member; and what the path means.
NoValue == [semantic |-> Absent, members |-> <<>>, elements |-> <<>>,
            inline |-> TRUE, notes |-> {}]
MemberValue(v, k) == IF k \in KeysOf(v) THEN FirstMember(v, k).value ELSE NoValue
ValueAt(v, path) ==
  LET at[n \in 0..Len(path)] == IF n = 0 THEN v ELSE MemberValue(at[n - 1], path[n])
  IN  at[Len(path)]
MeaningAt(m, path) ==
  LET at[n \in 0..Len(path)] == IF n = 0 THEN m ELSE At(at[n - 1], path[n])
  IN  at[Len(path)]

\* All values of a document, with the keys and indices that lead to them.
Index(i) == <<"#", i>>
Below(node) ==
  {<<Append(node[1], m.key), m.value>> : m \in ToSet(node[2].members)}
    \cup {<<Append(node[1], Index(i)), node[2].elements[i]>> : i \in DOMAIN node[2].elements}
Level(v, depth) ==
  LET level[n \in 0..depth] ==
        IF n = 0 THEN {<< <<>>, v>>} ELSE UNION {Below(node) : node \in level[n - 1]}
  IN  level[depth]
Nodes(v) == UNION {Level(v, n) : n \in 0..MaxDepth}

\* What the parser builds.
IsBuilt(v) ==
  /\ v.members \in Seq(ToSet(v.members)) /\ v.elements \in Seq(ToSet(v.elements))
  /\ \A m \in ToSet(v.members) : m.key \in Keys /\ m = [key |-> m.key, value |-> m.value]
  /\ "second" \in v.notes => "tail" \in v.notes
  /\ "tail" \in v.notes => v.members # <<>>
  /\ \/ Kind(v) = "scalar" /\ v = Scalar(v.semantic.scalar)
     \/ Kind(v) = "array" /\ v = ArrayOf(v.elements)
     \/ Kind(v) = "object" /\ v = Object(v.members, v.inline, v.notes)
IsDocument(v) ==
  /\ \A node \in Nodes(v) : IsBuilt(node[2])
  /\ Level(v, MaxDepth + 1) = {}

ASSUME JsonAssumption ==
  /\ MaxDepth \in Nat /\ IdKey \in Keys
  /\ KeyOrder \in Seq(Keys)
  /\ \A f \in Families :
       /\ f.lanes \subseteq {"typed", "untyped", "template"}
       /\ \A v \in f.bases \cup f.ours \cup f.theirs : IsDocument(v)

-----------------------------------------------------------------------------
(* Arrays: their elements as nodes of a sequence *)

\* object_identity: a scalar id, of the first member named so.
ObjectIdentity(v) ==
  IF Kind(MemberValue(v, IdKey)) = "scalar" THEN {MemberValue(v, IdKey).semantic} ELSE {}

\* json_sequence_nodes
JsonSequenceNodes(elements) ==
  [i \in DOMAIN elements |->
     LET content == elements[i].semantic
         ids == ObjectIdentity(elements[i])
         contentSig == <<"content", content>>
         position == <<"position", i>>
     IN  [primary |-> IF ids = {} THEN contentSig ELSE <<"id", CHOOSE x \in ids : TRUE>>,
          aliases |-> IF ids = {} THEN <<position>> ELSE <<contentSig, position>>,
          content |-> content]]

\* merge_three_arrays: the analysis explains the conflict; an array that
\* both sides changed is never merged.
ArrayConflicts(b, o, t, path) ==
  LET found == AnalyzeThreeWaySequence(JsonSequenceNodes(b.elements),
                 JsonSequenceNodes(o.elements), JsonSequenceNodes(t.elements))
  IN  IF found = {} THEN {[path |-> path, index |-> 0, category |-> "atomic_array_edit"]}
      ELSE {[path |-> path, index |-> c.index, category |-> c.category] : c \in found}

-----------------------------------------------------------------------------
(* Plans.  Edits say which value they replace, additions to which object  *)
(* they belong, by its path.                                               *)

Planned(value) == [value |-> value, edits |-> {}, adds |-> <<>>, conflicts |-> {}]
Conflicting(value, path, category) ==
  [Planned(value) EXCEPT !.conflicts = {[path |-> path, index |-> 0, category |-> category]}]

\* MergePlan::add_member, in front of the first member of a key, or at the end.
AtEnd == <<>>
InFrontOf(k) == <<k>>
AddMember(path, donor, before) == [at |-> path, member |-> donor, before |-> before]

\* The plan of an object from the plans of its keys, in their order.
Joined(parts) ==
  LET adds[n \in 0..Len(KeyOrder)] ==
        IF n = 0 THEN <<>> ELSE adds[n - 1] \o parts[KeyOrder[n]].adds
  IN  [value     |-> [kind |-> "object", members |-> [k \in Keys |-> parts[k].value]],
       edits     |-> UNION {parts[k].edits : k \in Keys},
       adds      |-> adds[Len(KeyOrder)],
       conflicts |-> UNION {parts[k].conflicts : k \in Keys}]

\* The cases of merge_three_values for one key of ours or theirs; inside is
\* the plan of the members of this key, where all three have one.
MergeThreeMembers(b, o, t, k, path, inside) ==
  LET sb == At(b.semantic, k)
      so == At(o.semantic, k)
      st == At(t.semantic, k)
      here == Append(path, k)
  IN  IF sb = Absent /\ st = Absent THEN Planned(so)
      ELSE IF sb = Absent /\ so = Absent
        THEN [Planned(st) EXCEPT !.adds = <<AddMember(path, FirstMember(t, k), AtEnd)>>]
      ELSE IF sb = Absent /\ so = st THEN Planned(so)
      ELSE IF so = Absent /\ st = Absent THEN Planned(Absent)
      ELSE IF so = Absent /\ sb = st THEN Planned(Absent)
      ELSE IF st = Absent /\ sb = so
        THEN Conflicting(Absent, here, "delete_requires_owner_edit")
      ELSE IF Absent \notin {sb, so, st} THEN inside
      ELSE Conflicting(Absent, here, "ambiguous_owner_change")

\* merge_three_values, of three values at path; inside is for each key the
\* plan of its members.
MergeThree(b, o, t, path, inside) ==
  LET sb == b.semantic
      so == o.semantic
      st == t.semantic
      kinds == {Kind(b), Kind(o), Kind(t)}
  IN  IF so = st THEN Planned(so)
      ELSE IF so = sb THEN [Planned(st) EXCEPT !.edits = {[at |-> path, source |-> t]}]
      ELSE IF st = sb THEN Planned(so)
      ELSE IF kinds = {"array"} THEN
        [Planned(so) EXCEPT !.conflicts = ArrayConflicts(b, o, t, path)]
      ELSE IF kinds # {"object"} THEN Conflicting(so, path, "modify_modify")
      ELSE Joined([k \in Keys |-> MergeThreeMembers(b, o, t, k, path, inside[k])])

MergeThreeValues(base, ours, theirs) ==
  LET merge[path \in Seq(Keys)] ==
        MergeThree(ValueAt(base, path), ValueAt(ours, path), ValueAt(theirs, path), path,
                   [k \in Keys |-> merge[Append(path, k)]])
  IN  merge[<<>>]

\* merge_template_value, for member i of a template object: the destination
\* wins, and a member it lacks goes in front of the next one they share.
MergeTemplateMember(t, d, i, path, inside) ==
  LET m == t.members[i]
      following == {j \in (i + 1)..Len(t.members) : t.members[j].key \in KeysOf(d)}
      before == IF following = {} THEN AtEnd ELSE InFrontOf(t.members[Min(following)].key)
  IN  IF m.key \in KeysOf(d) THEN inside
      ELSE [Planned(m.value.semantic) EXCEPT !.adds = <<AddMember(path, m, before)>>]

\* merge_template_value, of two values; inside is for each member of the
\* template its plan.
MergeTemplate(t, d, path, inside) ==
  LET merged[i \in 0..Len(t.members)] ==
        IF i = 0 THEN Planned(d.semantic)
        ELSE LET part == MergeTemplateMember(t, d, i, path, inside[i])
             IN  [merged[i - 1] EXCEPT !.value.members[t.members[i].key] = part.value,
                                       !.adds = @ \o part.adds]
  IN  IF {Kind(t), Kind(d)} # {"object"} THEN Planned(d.semantic) ELSE merged[Len(t.members)]

\* The value at some positions of a template, and the keys that lead there.
Placed(template, places) ==
  LET node[n \in 0..Len(places)] ==
        IF n = 0 THEN [path |-> <<>>, value |-> template]
        ELSE LET up == node[n - 1]
             IN  IF places[n] \in DOMAIN up.value.members
                 THEN [path  |-> Append(up.path, up.value.members[places[n]].key),
                       value |-> up.value.members[places[n]].value]
                 ELSE [path |-> up.path, value |-> NoValue]
  IN  node[Len(places)]

\* Fault: members that both have are left as they are, nested ones missing.
MergeTemplateValue_Shallow(template, destination) ==
  MergeTemplate(template, destination, <<>>,
    [i \in DOMAIN template.members |-> Planned(At(destination.semantic, template.members[i].key))])

MergeTemplateValue(template, destination) ==
  LET merge[places \in Seq(Nat)] ==
        LET node == Placed(template, places)
        IN  MergeTemplate(node.value, ValueAt(destination, node.path), node.path,
                          [i \in DOMAIN node.value.members |-> merge[Append(places, i)]])
  IN  merge[<<>>]

-----------------------------------------------------------------------------
(* The duplicate-member guard of the typed entry point *)

DuplicateMemberPaths(v) ==
  UNION {{Append(node[1], k) : k \in {x \in KeysOf(node[2]) : Cardinality(Positions(node[2], x)) > 1}} :
         node \in Nodes(v)}

\* What a segment leads to from v: all members of that key, in order, or
\* the element at that index.
Children(v, segment) ==
  LET named[n \in 0..Len(v.members)] ==
        IF n = 0 THEN <<>>
        ELSE IF v.members[n].key = segment THEN Append(named[n - 1], v.members[n].value)
        ELSE named[n - 1]
      at == {i \in DOMAIN v.elements : Index(i) = segment}
  IN  IF at = {} THEN named[Len(v.members)] ELSE <<v.elements[CHOOSE i \in at : TRUE]>>

Descend(v, path) ==
  LET reach[n \in 0..Len(path)] ==
        IF n = 0 THEN <<v>>
        ELSE FlattenSeq([i \in DOMAIN reach[n - 1] |-> Children(reach[n - 1][i], path[n])])
  IN  reach[Len(path)]

\* member_values_at_path
MemberValuesAtPath(root, path) ==
  LET found == Descend(root, path)
  IN  [i \in DOMAIN found |-> found[i].semantic]

Duplicates(i) ==
  UNION {DuplicateMemberPaths(v) : v \in {i.base, i.ours, i.theirs}}

\* Fault: repeated members are left to the merge.
ContestedPaths_None(i) == {}

\* Repeated members whose values both sides changed, differently.
ContestedPaths(i) ==
  {p \in Duplicates(i) :
     LET b == MemberValuesAtPath(i.base, p)
         o == MemberValuesAtPath(i.ours, p)
         t == MemberValuesAtPath(i.theirs, p)
     IN  o # b /\ t # b /\ o # t}

-----------------------------------------------------------------------------
(* Rendering: edits of the text of one revision *)

AddedAt(p, path) == {a \in ToSet(p.adds) : a.at = path}

\* Fault: a comment behind the last member is not looked for.
AfterTrailingComment_Never(v, added) == FALSE

\* append_after_trailing_inline_comment: members go behind the comment, if
\* they all go to the end and no second comment follows.
AfterTrailingComment(v, added) ==
  /\ "tail" \in v.notes /\ "second" \notin v.notes
  /\ v.members # <<>> /\ \A a \in added : a.before = AtEnd

\* An object on one line is written anew from its members when it gains
\* some; on several lines, the new members are inserted.
WrittenAnew(v, added) == added # {} /\ v.inline /\ ~AfterTrailingComment(v, added)

\* Fault: members inserted between others count as a rewrite of the object.
Overlapping_Any(v, p) ==
  \E a \in ToSet(p.adds), e \in {x.at : x \in ToSet(p.adds)} \cup {x.at : x \in p.edits} :
    IsStrictPrefix(a.at, e)

\* apply_source_edits refuses edits that overlap: another one inside an
\* object that is written anew.
Overlapping(v, p) ==
  \E a \in ToSet(p.adds) :
    /\ WrittenAnew(ValueAt(v, a.at), AddedAt(p, a.at))
    /\ \E e \in {x.at : x \in ToSet(p.adds)} \cup {x.at : x \in p.edits} :
         IsStrictPrefix(a.at, e)

\* The members added to the object at path, in front of one, in the order planned.
Group(adds, path, before) ==
  LET group[n \in 0..Len(adds)] ==
        IF n = 0 THEN <<>>
        ELSE IF adds[n].at = path /\ adds[n].before = before
          THEN Append(group[n - 1], adds[n].member)
        ELSE group[n - 1]
  IN  group[Len(adds)]

\* The members of an object after the edits: its own, the first of each key
\* with what was edited inside, and the groups of additions between them.
RenderMembers(v, p, path, inside) ==
  LET text[i \in 0..Len(v.members)] ==
        IF i = 0 THEN <<>>
        ELSE LET m == v.members[i]
             IN  IF i = Min(Positions(v, m.key))
                 THEN text[i - 1] \o Append(Group(p.adds, path, InFrontOf(m.key)),
                                            [key |-> m.key, value |-> inside[m.key]])
                 ELSE Append(text[i - 1], m)
  IN  text[Len(v.members)] \o Group(p.adds, path, AtEnd)

\* render_plan, for the value at path, and what the parser makes of it.
Render(v, p, path, inside) ==
  LET edits == {e \in p.edits : e.at = path}
  IN  IF edits # {} THEN (CHOOSE e \in edits : TRUE).source
      ELSE IF Kind(v) # "object" THEN v
      ELSE Object(RenderMembers(v, p, path, inside), v.inline,
                  IF WrittenAnew(v, AddedAt(p, path)) THEN {} ELSE v.notes)

RenderValue(v, p) ==
  LET render[path \in Seq(Keys)] ==
        Render(ValueAt(v, path), p, path, [k \in Keys |-> render[Append(path, k)]])
  IN  render[<<>>]

-----------------------------------------------------------------------------
(* A merge *)

Init ==
  /\ \E f \in Families :
       \E l \in f.lanes, b \in f.bases, o \in f.ours, t \in f.theirs :
         input = [lane |-> l, base |-> b, ours |-> o, theirs |-> t]
  /\ pc = IF input.lane = "typed" THEN "guard"
          ELSE IF input.lane = "untyped" THEN "select" ELSE "plan"
  /\ plan = Planned(Absent)
  /\ rendered = Scalar(0)
  /\ outcome = "running"

End(result) == pc' = "done" /\ outcome' = result

\* merge3_with_evidence, before the merge proper.
GuardDuplicates ==
  /\ pc = "guard"
  /\ plan' = [plan EXCEPT !.conflicts =
               {[path |-> p, index |-> 0, category |-> "edit_edit"] : p \in ContestedPaths(input)}]
  /\ IF ContestedPaths(input) # {} THEN End("conflict")
     ELSE pc' = "select" /\ UNCHANGED outcome
  /\ UNCHANGED <<input, rendered>>

\* merge_documents_three_way: a revision that stands for both is taken whole.
Selected ==
  LET sb == input.base.semantic
      so == input.ours.semantic
      st == input.theirs.semantic
  IN  IF so = st THEN <<input.ours>>
      ELSE IF so = sb THEN <<input.theirs>>
      ELSE IF st = sb THEN <<input.ours>>
      ELSE <<>>

SelectRevision ==
  /\ pc = "select"
  /\ IF Selected = <<>> THEN pc' = "plan" /\ UNCHANGED <<plan, rendered>>
     ELSE /\ pc' = "verify"
          /\ rendered' = Selected[1]
          /\ plan' = Planned(Selected[1].semantic)
  /\ UNCHANGED <<input, outcome>>

\* merge_documents_three_way, merge_documents_two_way; the template is in
\* the place of theirs, the destination in that of ours.
MakePlan ==
  /\ pc = "plan"
  /\ plan' = IF input.lane = "template"
               THEN MergeTemplateValue(input.theirs, input.ours)
               ELSE MergeThreeValues(input.base, input.ours, input.theirs)
  /\ IF plan'.conflicts # {} THEN End("conflict")
     ELSE pc' = "render" /\ UNCHANGED outcome
  /\ UNCHANGED <<input, rendered>>

RenderPlan ==
  /\ pc = "render"
  /\ IF Overlapping(input.ours, plan) THEN End("overlap") /\ UNCHANGED rendered
     ELSE /\ rendered' = RenderValue(input.ours, plan)
          /\ pc' = "verify" /\ UNCHANGED outcome
  /\ UNCHANGED <<input, plan>>

\* The output still means what was planned.
Accepts(v) == v.semantic = plan.value

Verify ==
  /\ pc = "verify"
  /\ End(IF Accepts(rendered) THEN "clean" ELSE "mismatch")
  /\ UNCHANGED <<input, plan, rendered>>

\* The parser rejects the output.
VerifyFails ==
  /\ pc = "verify"
  /\ End("unparsed")
  /\ UNCHANGED <<input, plan, rendered>>

Done == pc = "done" /\ UNCHANGED vars

Next ==
  \/ GuardDuplicates \/ SelectRevision \/ MakePlan \/ RenderPlan
  \/ Verify \/ VerifyFails \/ Done

Spec == Init /\ [][Next]_vars

-----------------------------------------------------------------------------
(* Properties *)

\* Paths of keys: one step beyond what a document can hold.
KeyPaths == BoundedSeq(Keys, MaxDepth + 1)

\* Both sides changed what the path means, differently.
Diverged(b, o, t, path) ==
  LET mb == MeaningAt(b, path)
      mo == MeaningAt(o, path)
      mt == MeaningAt(t, path)
  IN  mo # mt /\ mo # mb /\ mt # mb

\* v has every change of either side and nothing else, down to the deepest
\* object that both changed.
IsThreeWayMerge(b, o, t, v) ==
  \A p \in KeyPaths :
    (\A n \in 0..(Len(p) - 1) : Diverged(b, o, t, SubSeq(p, 1, n))) =>
      LET mb == MeaningAt(b, p)
          mo == MeaningAt(o, p)
          mt == MeaningAt(t, p)
          mv == MeaningAt(v, p)
      IN  /\ mo = mt => mv = mo
          /\ mo = mb => mv = mt
          /\ mt = mb => mv = mo
          /\ Diverged(b, o, t, p) => {mb.kind, mo.kind, mt.kind, mv.kind} = {"object"}

\* A repeated member whose values only one side changed.
ChangedByOneSide(i) ==
  {p \in Duplicates(i) :
     LET b == MemberValuesAtPath(i.base, p)
     IN  (MemberValuesAtPath(i.ours, p) = b) # (MemberValuesAtPath(i.theirs, p) = b)}

\* A clean merge means exactly what a three-way merge of the meanings does.
\* Lookups find the first of repeated members while the last one counts, so
\* this depends on the duplicate guard, the edits and the verification
\* together.  The untyped entry point promises it without repeated members;
\* the typed one also with them, unless only one side changed their values:
\* the guard lets those pass, and the change may be lost.
CleanIsThreeWayMerge ==
  (/\ outcome = "clean" /\ input.lane # "template"
   /\ IF input.lane = "typed" THEN ChangedByOneSide(input) = {} ELSE Duplicates(input) = {}) =>
    IsThreeWayMerge(input.base.semantic, input.ours.semantic,
                    input.theirs.semantic, rendered.semantic)

\* The paths of the objects of v that lookups reach.
ObjectPaths(v) == {p \in KeyPaths : Kind(ValueAt(v, p)) = "object"}

\* The members theirs brings to the object of ours at a path.
NewKeys(path) ==
  {k \in Keys : At(MeaningAt(input.theirs.semantic, path), k) # Absent}
    \ KeysOf(ValueAt(input.ours, path))

\* Without repeated members a merge fails for a reason: each conflict is
\* where both sides changed one value differently, or where theirs deleted
\* what ours left alone; and the rendering is refused only when an object on
\* one line gains a member and changes inside at the same time.
FailuresExplained ==
  Duplicates(input) = {} =>
    /\ outcome = "conflict" =>
         \A c \in plan.conflicts :
           LET b == MeaningAt(input.base.semantic, c.path)
               o == MeaningAt(input.ours.semantic, c.path)
               t == MeaningAt(input.theirs.semantic, c.path)
           IN  o # t /\ (o = b => t = Absent) /\ t # b
    /\ outcome # "mismatch"
    /\ outcome = "overlap" =>
         \E p \in ObjectPaths(input.ours) :
           /\ ValueAt(input.ours, p).inline
           /\ NewKeys(p) # {}
           /\ \E k \in KeysOf(ValueAt(input.ours, p)) :
                MeaningAt(input.theirs.semantic, Append(p, k))
                  # MeaningAt(input.ours.semantic, Append(p, k))

\* The object at path, or one around it, was taken from theirs, because
\* ours had not changed what it means.
TakenFromTheirs(path) ==
  /\ input.lane # "template"
  /\ \E n \in 0..Len(path) :
       LET p == SubSeq(path, 1, n)
           o == MeaningAt(input.ours.semantic, p)
       IN  o = MeaningAt(input.base.semantic, p) /\ o # MeaningAt(input.theirs.semantic, p)

\* Verification does not look at comments.  A clean merge drops a comment of
\* ours only with an object it takes from theirs, or when it writes an
\* object on one line anew: a single one behind the last member survives
\* even that, unless a template member goes in front of others.
CommentsLostOnlyInRewrites ==
  (outcome = "clean" /\ Duplicates(input) = {}) =>
    \A p \in ObjectPaths(input.ours) :
      LET old == ValueAt(input.ours, p)
          gone == old.notes \ ValueAt(rendered, p).notes
      IN  (gone # {} /\ ~TakenFromTheirs(p)) =>
            /\ old.inline /\ NewKeys(p) # {}
            /\ "tail" \in old.notes => input.lane = "template" \/ "second" \in old.notes

\* v keeps every value of the destination and has the rest of the template.
IsOverlay(t, d, v) ==
  \A p \in KeyPaths :
    (\A n \in 0..(Len(p) - 1) :
       {MeaningAt(t, SubSeq(p, 1, n)).kind, MeaningAt(d, SubSeq(p, 1, n)).kind} = {"object"}) =>
      LET mt == MeaningAt(t, p)
          md == MeaningAt(d, p)
          mv == MeaningAt(v, p)
      IN  IF md = Absent THEN mv = mt
          ELSE IF {mt.kind, md.kind} = {"object"} THEN mv.kind = "object"
          ELSE mv = md

\* Merging a template keeps every value of the destination and adds all it
\* lacks.  Without repeated members it is done after one time: a second
\* merge of the same template finds nothing to edit or to add.  (Of repeated
\* members the merge looks at the first, while the output means the last: a
\* second merge may add to the first what the others brought, or be refused.)
TemplateMergeSettles ==
  (outcome = "clean" /\ input.lane = "template") =>
    /\ IsOverlay(input.theirs.semantic, input.ours.semantic, rendered.semantic)
    /\ Duplicates(input) = {} =>
         MergeTemplateValue(input.theirs, rendered) = Planned(rendered.semantic)

\* Elements of an array with a given id.
WithId(v, id) == {i \in DOMAIN v.elements : ObjectIdentity(v.elements[i]) = {id}}
ElementMeaning(v, id) ==
  IF WithId(v, id) = {} THEN Absent ELSE v.elements[Min(WithId(v, id))].semantic

\* In arrays that both sides changed, an identified element that the sides
\* changed or deleted differently is reported at its own index, wherever
\* insertions, deletions and reorderings have moved it.
ElementConflictsFound ==
  (/\ input.lane # "template" /\ outcome = "conflict" /\ Duplicates(input) = {}
   /\ {Kind(input.base), Kind(input.ours), Kind(input.theirs)} = {"array"}) =>
    \A n \in DOMAIN input.base.elements :
      \A id \in ObjectIdentity(input.base.elements[n]) :
        LET b == ElementMeaning(input.base, id)
            o == ElementMeaning(input.ours, id)
            t == ElementMeaning(input.theirs, id)
        IN  (/\ \A v \in {input.base, input.ours, input.theirs} : Cardinality(WithId(v, id)) <= 1
             /\ o # b /\ t # b /\ o # t) =>
              \E c \in plan.conflicts : c.path = <<>> /\ c.index = n

=============================================================================
