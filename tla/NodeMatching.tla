--------------------------- MODULE NodeMatching ---------------------------
(***************************************************************************)
(* Matching of nodes by identity (crates/ast-merge/src/matching.rs) and    *)
(* the conflicts of a three-way sequence that it exposes (crates/ast-merge/ *)
(* src/sequence_merge.rs, analyze_three_way_sequence), as operators.       *)
(*                                                                         *)
(* A node is a record: primary, a signature; aliases, a sequence of        *)
(* further signatures; content, what its hash tells apart.                 *)
(***************************************************************************)
EXTENDS Integers, Sequences, FiniteSets, FiniteSetsExt, SequencesExt

\* The signatures the two passes look at, for each node in order.
AllSignatures(nodes) == [n \in DOMAIN nodes |-> <<nodes[n].primary>> \o nodes[n].aliases]
PrimarySignatures(nodes) == [n \in DOMAIN nodes |-> <<nodes[n].primary>>]

\* Unmatched nodes of destination that carry sig.
Candidates(destination, taken, sig) ==
  {d \in DOMAIN destination \ taken : sig \in ToSet(destination[d])}

\* One step of a pass: node n of template takes the first candidate of the
\* first of its signatures that has one.
MatchNode(template, destination, matched, n) ==
  LET taken == {m[2] : m \in matched}
      found == {i \in DOMAIN template[n] :
                  Candidates(destination, taken, template[n][i]) # {}}
  IN  IF n \in {m[1] : m \in matched} \/ found = {} THEN matched
      ELSE matched \cup
             {<<n, Min(Candidates(destination, taken, template[n][Min(found)]))>>}

\* match_identity_pass: the signatures of template nodes in order, over the
\* matches so far.
MatchPass(template, destination, matched) ==
  LET pass[n \in 0..Len(template)] ==
        IF n = 0 THEN matched ELSE MatchNode(template, destination, pass[n - 1], n)
  IN  pass[Len(template)]

\* Fault: aliases compete with primary signatures.
MatchNodeIdentities_OnePass(template, destination) ==
  MatchPass(AllSignatures(template), AllSignatures(destination), {})

\* match_node_identities: pairs of a template and a destination index.
\* Primary signatures come first, aliases only match what is left.
MatchNodeIdentities(template, destination) ==
  MatchPass(AllSignatures(template), AllSignatures(destination),
            MatchPass(PrimarySignatures(template), PrimarySignatures(destination), {}))

-----------------------------------------------------------------------------
(* Three-way analysis *)

\* The partner of index n in a set of pairs; 0 if there is none.
PartnerOf(matched, n) ==
  IF \E m \in matched : m[1] = n THEN (CHOOSE m \in matched : m[1] = n)[2] ELSE 0

\* matched_base_indices: the base nodes of a side, in the side's order.
BaseOrder(side, alignment) ==
  LET back == {<<m[2], m[1]>> : m \in alignment}
  IN  SelectSeq([i \in DOMAIN side |-> PartnerOf(back, i)], LAMBDA b : b # 0)

\* base_order_changed
Reordered(order) == \E i, j \in DOMAIN order : i < j /\ order[i] > order[j]

\* content_conflicts, for one base node.
ContentConflict(base, ours, theirs, toOurs, toTheirs, n) ==
  LET o == PartnerOf(toOurs, n)
      t == PartnerOf(toTheirs, n)
      oursChanged   == o # 0 /\ ours[o].content # base[n].content
      theirsChanged == t # 0 /\ theirs[t].content # base[n].content
  IN  IF (o = 0 /\ theirsChanged) \/ (t = 0 /\ oursChanged) THEN {"delete_modify"}
      ELSE IF oursChanged /\ theirsChanged /\ ours[o].content # theirs[t].content
        THEN {"modify_modify"}
      ELSE {}

\* insertion_conflicts: what both sides added under one identity.
Inserted(side, alignment) ==
  SetToSortSeq(DOMAIN side \ {m[2] : m \in alignment}, <)

DuplicateInsertion(ours, theirs, toOurs, toTheirs) ==
  LET o == Inserted(ours, toOurs)
      t == Inserted(theirs, toTheirs)
      pairs == MatchNodeIdentities([i \in DOMAIN o |-> ours[o[i]]],
                                   [i \in DOMAIN t |-> theirs[t[i]]])
  IN  \E m \in pairs : ours[o[m[1]]].content # theirs[t[m[2]]].content

\* The conflicts of analyze_three_way_sequence: category and base index, 0
\* for those that concern no single base node.
AnalyzeThreeWaySequence(base, ours, theirs) ==
  LET toOurs   == MatchNodeIdentities(base, ours)
      toTheirs == MatchNodeIdentities(base, theirs)
      oursOrder   == BaseOrder(ours, toOurs)
      theirsOrder == BaseOrder(theirs, toTheirs)
  IN  UNION {{[category |-> c, index |-> n] :
                c \in ContentConflict(base, ours, theirs, toOurs, toTheirs, n)} :
               n \in DOMAIN base}
      \cup (IF DuplicateInsertion(ours, theirs, toOurs, toTheirs)
              THEN {[category |-> "duplicate_insertion", index |-> 0]} ELSE {})
      \cup (IF oursOrder # theirsOrder /\ Reordered(oursOrder) /\ Reordered(theirsOrder)
              THEN {[category |-> "order", index |-> 0]} ELSE {})

=============================================================================
