----------------------------- MODULE OwnerMerge -----------------------------
(***************************************************************************)
(* The source-preserving three-way merge of owners (declarations, keys)    *)
(* that the language kernels share (crates/ast-merge/src/                  *)
(* declaration_merge.rs).  It selects a whole source when two agree, else  *)
(* decides every owner by comparing fingerprints, picks one tip as the     *)
(* baseline of the layout, replaces its owners by the selected ones, and   *)
(* accepts its own output only after the caller's parser has read it back. *)
(*                                                                         *)
(* A document is its owners, each on lines of its own, and the text before,*)
(* between and after them.  Such a gap is the tail of the last line of the *)
(* owner before it, whole lines, and the head of the first line of the     *)
(* owner after it: an owner's range need not fill its lines.  An owner's   *)
(* fingerprint stands for the text in its range, as the kernels compute it *)
(* from that text.  The byte-origin evidence is left out.                  *)
(***************************************************************************)
EXTENDS Integers, FiniteSets, SequencesExt

CONSTANTS
  Ids,        \* owner identities
  Prints,     \* fingerprints
  Words,      \* what the text between owners is made of
  NoNewline,  \* the word that ends a last line without a newline
  Inputs,     \* the triples [base, ours, theirs] merged
  NoOwner     \* "this document has no such owner"

Owners == [id : Ids, print : Prints]
Gaps == [tail : Seq(Words), lines : Seq(Words), head : Seq(Words)]
Lines(text) == [tail |-> <<>>, lines |-> text, head |-> <<>>]

\* Every document is owners with a gap before each and after the last; the
\* first gap follows no owner and the last precedes none.
ASSUME OwnerAssumption ==
  /\ NoOwner \notin Prints
  /\ \A t \in Inputs : \A r \in {"base", "ours", "theirs"} :
       /\ t[r].owners \in Seq(Owners)
       /\ t[r].gaps \in Seq(Gaps)
       /\ Len(t[r].gaps) = Len(t[r].owners) + 1
       /\ t[r].gaps[1].tail = <<>> /\ Last(t[r].gaps).head = <<>>

VARIABLES
  in,         \* the three documents
  pc,         \* what is done next
  selected,   \* owner -> the revision it is taken from
  baseline,   \* the revision that gives the layout
  output,     \* the rendered document
  outcome     \* running, clean, or how the merge was refused
vars == <<in, pc, selected, baseline, output, outcome>>

-----------------------------------------------------------------------------
(* Documents *)

Nothing == [owners |-> <<>>, gaps |-> <<Lines(<<>>)>>, flaw |-> "none"]

IdsOf(d) == {d.owners[k].id : k \in DOMAIN d.owners}
Order(d) == [k \in DOMAIN d.owners |-> d.owners[k].id]
PrintIn(d, i) ==
  IF i \in IdsOf(d) THEN (CHOOSE o \in {d.owners[k] : k \in DOMAIN d.owners} : o.id = i).print
  ELSE NoOwner

\* validate: identities are unique and ranges are ordered and in bounds.
Valid(d) == d.flaw # "invalid"

\* owner_order_for_ids
OrderFor(d, ids) ==
  LET kept[k \in 0..Len(d.owners)] ==
        IF k = 0 THEN <<>>
        ELSE IF d.owners[k].id \in ids THEN Append(kept[k - 1], d.owners[k].id)
        ELSE kept[k - 1]
  IN  kept[Len(d.owners)]

\* Fault: the lines before an owner outside ids are left out wherever they are.
LayoutSegments_OwnLines(order, lines, ids) ==
  LET n == Len(order)
      scan[k \in 0..n] ==
        IF k = 0 THEN <<>>
        ELSE IF order[k] \in ids THEN Append(scan[k - 1], lines[k]) ELSE scan[k - 1]
  IN  Append(scan[n], lines[n + 1])

\* layout_segments_for_ids: the whole lines before each of the given owners,
\* the lines of other owners taken out; what follows the last one starts
\* after the last owner.  What stands on an owner's line is in no segment.
LayoutSegments(order, lines, ids) ==
  LET n == Len(order)
      scan[k \in 0..n] ==
        IF k = 0 THEN [segments |-> <<>>, segment |-> <<>>, trailing |-> FALSE]
        ELSE LET text == scan[k - 1].segment \o lines[k]
             IN  IF order[k] \in ids
                 THEN [segments |-> Append(scan[k - 1].segments, text),
                       segment |-> <<>>, trailing |-> FALSE]
                 ELSE [segments |-> scan[k - 1].segments, segment |-> text,
                       trailing |-> scan[k - 1].segments # <<>>]
  IN  Append(scan[n].segments,
             IF scan[n].trailing THEN lines[n + 1] ELSE scan[n].segment \o lines[n + 1])
WholeLines(gaps) == [k \in DOMAIN gaps |-> gaps[k].lines]
LayoutFor(d, ids) == LayoutSegments(Order(d), WholeLines(d.gaps), ids)

\* physical_line_range fails when owners share a line.
LinesKnown(d) == d.flaw # "shared"

\* What stands before and after an owner on its lines.
Position(d, i) == CHOOSE k \in DOMAIN d.owners : d.owners[k].id = i
HeadOf(d, i) == d.gaps[Position(d, i)].head
TailOf(d, i) == d.gaps[Position(d, i) + 1].tail
Unended(d) == NoNewline \in ToSet(Last(d.gaps).tail) \cup ToSet(Last(d.gaps).lines)

Source(r) == in[r]

-----------------------------------------------------------------------------
(* Decisions *)

\* Fault: an owner deleted by one side is dropped without looking further.
Decide_DropsEdited(b, o, t) ==
  IF o = t \/ b = t THEN IF o = NoOwner THEN "delete" ELSE "ours"
  ELSE IF b = o \/ o = NoOwner THEN IF t = NoOwner THEN "delete" ELSE "theirs"
  ELSE IF t = NoOwner THEN "delete" ELSE "conflict"

\* classify_owner, on the three fingerprints of an owner some document has.
\* The three kinds of conflict are one: they differ in who had the owner.
Decide(b, o, t) ==
  CASE b # NoOwner /\ o # NoOwner /\ t # NoOwner ->
         IF o = t \/ b = t THEN "ours" ELSE IF b = o THEN "theirs" ELSE "conflict"
    [] b # NoOwner /\ o # NoOwner /\ t = NoOwner -> IF b = o THEN "delete" ELSE "conflict"
    [] b # NoOwner /\ o = NoOwner /\ t # NoOwner -> IF b = t THEN "delete" ELSE "conflict"
    [] b # NoOwner /\ o = NoOwner /\ t = NoOwner -> "delete"
    [] b = NoOwner /\ o # NoOwner /\ t # NoOwner -> IF o = t THEN "ours" ELSE "conflict"
    [] b = NoOwner /\ o # NoOwner /\ t = NoOwner -> "ours"
    [] b = NoOwner /\ o = NoOwner /\ t # NoOwner -> "theirs"

\* all_owner_ids
AllIds == IdsOf(in.base) \cup IdsOf(in.ours) \cup IdsOf(in.theirs)
Decision(i) == Decide(PrintIn(in.base, i), PrintIn(in.ours, i), PrintIn(in.theirs, i))

SelectedIds == DOMAIN selected
Stable == IdsOf(in.base) \cap IdsOf(in.ours) \cap IdsOf(in.theirs)
MembershipChanged == Order(in.base) # Order(in.ours) \/ Order(in.base) # Order(in.theirs)

\* Owners of theirs are appended to ours' layout.
CombinedAdditions ==
  /\ SelectedIds # IdsOf(in.ours) /\ SelectedIds # IdsOf(in.theirs)
  /\ IdsOf(in.ours) \subseteq SelectedIds

Init ==
  /\ in \in Inputs
  /\ pc = "validate"
  /\ selected = <<>> /\ baseline = "none" /\ output = Nothing
  /\ outcome = [kind |-> "running"]

Return(o) == pc' = "done" /\ outcome' = o
Clean == [kind |-> "clean"]
Refused(category) == [kind |-> "error", category |-> category]
Conflicts(ids) == [kind |-> "conflict", ids |-> ids]

-----------------------------------------------------------------------------
(* The merge *)

Validate ==
  /\ pc = "validate"
  /\ IF \A r \in {"base", "ours", "theirs"} : Valid(Source(r))
     THEN pc' = "whole" /\ UNCHANGED outcome
     ELSE Return(Refused("ambiguity"))
  /\ UNCHANGED <<in, selected, baseline, output>>

\* Fault: agreeing with the base is not asked.
WholeSource_OursFirst ==
  IF in.base = in.ours \/ in.ours = in.theirs THEN "ours"
  ELSE IF in.base = in.theirs THEN "theirs" ELSE "none"

WholeSource ==
  IF in.ours = in.theirs \/ in.base = in.theirs THEN "ours"
  ELSE IF in.base = in.ours THEN "theirs" ELSE "none"

SelectWhole ==
  /\ pc = "whole"
  /\ IF WholeSource = "none"
     THEN pc' = "classify" /\ UNCHANGED <<output, outcome>>
     ELSE Return(Clean) /\ output' = in[WholeSource]
  /\ UNCHANGED <<in, selected, baseline>>

ClassifyOwners ==
  /\ pc = "classify"
  /\ LET clashing == {i \in AllIds : Decision(i) = "conflict"}
         taken == {i \in AllIds : Decision(i) \in {"ours", "theirs"}}
     IN  IF clashing # {}
         THEN Return(Conflicts(clashing)) /\ UNCHANGED selected
         ELSE /\ selected' = [i \in taken |-> Decision(i)]
              /\ pc' = "plan" /\ UNCHANGED outcome
  /\ UNCHANGED <<in, baseline, output>>

ChosenBaseline ==
  IF SelectedIds = IdsOf(in.ours) THEN "ours"
  ELSE IF SelectedIds = IdsOf(in.theirs) THEN "theirs"
  ELSE IF CombinedAdditions THEN "ours" ELSE "none"

\* Fault: one tip in the order of the base is enough.
OrdersAgree_WithBase ==
  Stable = {} \/ OrderFor(in.base, Stable) = OrderFor(in.theirs, Stable)
              \/ OrderFor(in.base, Stable) = OrderFor(in.ours, Stable)

OrdersAgree == Stable = {} \/ OrderFor(in.ours, Stable) = OrderFor(in.theirs, Stable)
OrderChanged == Stable # {} /\ OrderFor(in.base, Stable) # OrderFor(in.ours, Stable)

\* Fault: the layout of theirs is not looked at.
LayoutMatches_OursOnly ==
  LET Layout(d) == IF MembershipChanged THEN LayoutFor(d, Stable) ELSE d.gaps
  IN  /\ ~(MembershipChanged /\ Stable = {})
      /\ OrderChanged \/ Layout(in.base) = Layout(in.ours)

\* The layout must be the base's in both tips, or, where the owners have been
\* reordered, the same in both tips.
LayoutMatches ==
  LET Layout(d) == IF MembershipChanged THEN LayoutFor(d, Stable) ELSE d.gaps
  IN  /\ ~(MembershipChanged /\ Stable = {})
      /\ Layout(in.ours) = Layout(in.theirs)
      /\ OrderChanged \/ Layout(in.base) = Layout(in.ours)

PlanError ==
  IF ChosenBaseline = "none" \/ ~OrdersAgree THEN "unsupported"
  ELSE IF /\ MembershipChanged /\ Stable # {}
          /\ \E r \in {"base", "ours", "theirs"} : ~LinesKnown(Source(r)) THEN "configuration"
  ELSE IF ~LayoutMatches THEN "unsupported" ELSE "none"

Plan ==
  /\ pc = "plan"
  /\ IF PlanError = "none"
     THEN pc' = "render" /\ baseline' = ChosenBaseline /\ UNCHANGED outcome
     ELSE Return(Refused(PlanError)) /\ UNCHANGED baseline
  /\ UNCHANGED <<in, selected, output>>

\* Owners of theirs that ours lacks, in the order of theirs.
Added == IF CombinedAdditions
         THEN OrderFor(in.theirs, {i \in SelectedIds \ IdsOf(in.ours) : selected[i] = "theirs"})
         ELSE <<>>
Taken(i) == [id |-> i, print |-> PrintIn(in[selected[i]], i)]

\* The owners the output should have, and the output: the baseline with its
\* owners exchanged, then the lines of the added owners as theirs has them.
\* Where the baseline does not end in a newline they continue its last line.
Expected ==
  LET ids == Order(in[baseline]) \o Added
  IN  [k \in DOMAIN ids |-> Taken(ids[k])]

AddedHead(k) == IF k \in DOMAIN Added THEN HeadOf(in.theirs, Added[k]) ELSE <<>>
AddedGap(k) ==
  [tail |-> TailOf(in.theirs, Added[k]), lines |-> <<>>, head |-> AddedHead(k + 1)]

Rendered ==
  [owners |-> Expected,
   gaps |-> [in[baseline].gaps EXCEPT ![Len(in[baseline].gaps)].head = AddedHead(1)]
              \o [k \in DOMAIN Added |-> AddedGap(k)],
   flaw |-> IF Added # <<>> /\ Unended(in[baseline]) THEN "shared" ELSE "none"]

Render ==
  /\ pc = "render"
  /\ output' = Rendered
  /\ pc' = "verify"
  /\ UNCHANGED <<in, selected, baseline, outcome>>

\* The gaps around owner k as one, with the text given between them.
Spliced(before, text, after) ==
  [tail |-> before.tail, lines |-> before.lines \o text \o after.lines, head |-> after.head]

\* Owner k is text like what surrounds it.
Engulfed(d, k) ==
  LET line == d.gaps[k].head \o <<"owner">> \o d.gaps[k + 1].tail
      text == Spliced(d.gaps[k], line, d.gaps[k + 1])
  IN  [d EXCEPT !.owners = RemoveAt(d.owners, k),
                !.gaps = RemoveAt([d.gaps EXCEPT ![k] = text], k + 1)]

\* What the caller's parser may make of the output: the document it is, or,
\* where texts that were apart run together, another one: ranges it cannot
\* give, an owner that swallows its surroundings, or one lost in them.
Misread(d) ==
  {[d EXCEPT !.flaw = f] : f \in {"invalid", "shared"}}
    \cup {[d EXCEPT !.owners[k].print = p] : k \in DOMAIN d.owners, p \in Prints}
    \cup {Engulfed(d, k) : k \in DOMAIN d.owners}

\* The checks on the document the parser read.
Accepted(d) ==
  /\ Valid(d)
  /\ d.owners = Expected
  /\ IF MembershipChanged
     THEN LinesKnown(d) /\ LayoutFor(d, Stable) = LayoutFor(in[baseline], Stable)
     ELSE d.gaps = in[baseline].gaps

VerifyFails ==
  /\ pc = "verify"
  /\ Return(Refused("configuration"))
  /\ output' = Nothing
  /\ UNCHANGED <<in, selected, baseline>>

VerifyReads(d) ==
  /\ pc = "verify"
  /\ IF Accepted(d)
     THEN Return(Clean) /\ UNCHANGED output
     ELSE Return(Refused("configuration")) /\ output' = Nothing
  /\ UNCHANGED <<in, selected, baseline>>

Done == pc = "done" /\ UNCHANGED vars

Next ==
  \/ Validate \/ SelectWhole \/ ClassifyOwners \/ Plan \/ Render
  \/ VerifyFails
  \/ \E d \in {output} \cup Misread(output) : VerifyReads(d)
  \/ Done

Spec == Init /\ [][Next]_vars

-----------------------------------------------------------------------------
(* Properties *)

TypeOK ==
  /\ \A r \in {"base", "ours", "theirs"} : Len(in[r].gaps) = Len(in[r].owners) + 1
  /\ pc \in {"validate", "whole", "classify", "plan", "render", "verify", "done"}
  /\ SelectedIds \subseteq Ids /\ \A i \in SelectedIds : selected[i] \in {"ours", "theirs"}
  /\ baseline \in {"none", "ours", "theirs"}
  /\ IdsOf(output) \subseteq Ids /\ Len(output.gaps) = Len(output.owners) + 1
  /\ outcome.kind \in {"running", "clean", "conflict", "error"}

\* Three-way choice between the two tips' views of one thing.
Changed(b, x) == x # b
Merged(b, o, t) == IF Changed(b, o) THEN o ELSE t
Clash(b, o, t) == Changed(b, o) /\ Changed(b, t) /\ o # t

\* A clean merge loses nothing: every owner that a tip edited, added or
\* deleted is in the output as that tip has it, and no two tips clashed.
CleanAppliesBothTips ==
  outcome.kind = "clean" =>
    \A i \in Ids :
      LET b == PrintIn(in.base, i)  o == PrintIn(in.ours, i)  t == PrintIn(in.theirs, i)
      IN  ~Clash(b, o, t) /\ PrintIn(output, i) = Merged(b, o, t)

\* A conflict names exactly the owners that both tips changed differently,
\* and such an owner never ends in anything but a conflict.
ConflictsAreExact ==
  LET clashing == {i \in Ids : Clash(PrintIn(in.base, i), PrintIn(in.ours, i), PrintIn(in.theirs, i))}
  IN  /\ outcome.kind = "conflict" => outcome.ids = clashing /\ clashing # {}
      /\ pc \in {"plan", "render", "verify"} \/ outcome.kind = "clean" => clashing = {}

\* A clean merge keeps the reorderings: two owners that all three documents
\* have are in the order of the tip that changed their order, if one did.
Earlier(d, i, j) == \E k, l \in DOMAIN d.owners :
                      k < l /\ d.owners[k].id = i /\ d.owners[l].id = j
CleanKeepsReorderings ==
  outcome.kind = "clean" =>
    \A i, j \in Stable :
      Earlier(output, i, j) <=>
        Merged(Earlier(in.base, i, j), Earlier(in.ours, i, j), Earlier(in.theirs, i, j))

\* A clean merge keeps the layout of the owners common to all three: a tip's
\* change of the whole lines around them is in the output, and nothing else
\* is.  Of the text on an owner's own lines this says nothing (see below).
CleanKeepsLayout ==
  outcome.kind = "clean" =>
    LET L(d) == LayoutFor(d, Stable)
    IN  L(output) = Merged(L(in.base), L(in.ours), L(in.theirs))

Texts(lines) == UNION {ToSet(lines[k]) : k \in DOMAIN lines}
LineTexts(gaps) == UNION {ToSet(gaps[k].head) \cup ToSet(gaps[k].tail) : k \in DOMAIN gaps}
BeforeTrailingOwner(d, k) ==
  k \in DOMAIN d.owners /\ \A j \in k..Len(d.owners) : d.owners[j].id \notin Stable

\* Text a tip adds between owners is in a clean output.  Where the three
\* documents have the same owners this holds of all text.  Otherwise it holds
\* of whole lines, but not of those that layout_segments_for_ids stops looking
\* at (after the last owner that all three documents have and before an owner
\* that not all of them have), nor of text beside an owner on its own lines,
\* which the physical line ranges leave out.
AddedTextKept ==
  outcome.kind = "clean" =>
    \A r \in {"ours", "theirs"} :
      /\ \A k \in DOMAIN in[r].gaps :
           \/ ToSet(in[r].gaps[k].lines)
                \subseteq Texts(WholeLines(in.base.gaps)) \cup Texts(WholeLines(output.gaps))
           \/ MembershipChanged /\ BeforeTrailingOwner(in[r], k)
      /\ \/ LineTexts(in[r].gaps) \subseteq LineTexts(in.base.gaps) \cup LineTexts(output.gaps)
         \/ MembershipChanged
=============================================================================
