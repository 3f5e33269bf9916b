---------------------------- MODULE SequenceOrder ----------------------------
(***************************************************************************)
(* merge_sequence_order_constraints of ast-merge: the order in which the   *)
(* selected nodes of a merge are written, so that the order of every input *)
(* sequence (base, ours, theirs) is kept.  The function is one loop that   *)
(* scans the sequences, collecting ranks and precedence edges, and one     *)
(* that repeatedly takes the ready node of least rank.  Each iteration is  *)
(* a step here; node IDs are abstract.                                     *)
(***************************************************************************)
EXTENDS Integers, Sequences, FiniteSets
LOCAL INSTANCE FiniteSetsExt

CONSTANTS Nodes,        \* the node IDs that occur in a call
          NumSeqs,      \* how many sequences constrain the order
          MaxLen,       \* bound on the length of a sequence
          MaxTotal,     \* bound on the length of all sequences together
          MaxSelected,  \* bound on the length of the selection
          NoNode        \* "no selected node seen yet in this sequence"

ASSUME NodesAssumption == IsFiniteSet(Nodes) /\ NoNode \notin Nodes
ASSUME BoundsAssumption == NumSeqs \in Nat /\ MaxLen \in Nat /\ MaxSelected \in Nat

VARIABLES sequences,  \* the input sequences
          selected,   \* the input selection, a sequence
          pc,         \* the loop that is running
          at,         \* <<sequence, position>> the scan looks at
          last,       \* the selected node the scan saw last in this sequence
          ranked,     \* the nodes that have a rank, in rank order
          edges,      \* <<left, right>>: left must come before right
          indegree,   \* unplaced predecessors of each selected node
          ready,      \* the selected nodes without unplaced predecessor
          output,     \* the order built so far
          result      \* what the call returns

vars == <<sequences, selected, pc, at, last, ranked, edges, indegree, ready,
          output, result>>
inputs == <<sequences, selected>>

Inputs(max) == UNION {[1..n -> Nodes] : n \in 0..max}
Elements(s) == {s[i] : i \in DOMAIN s}
HasDuplicate(s) == \E i, j \in DOMAIN s : i < j /\ s[i] = s[j]
Precedes(s, m, n) == \E i, j \in DOMAIN s : i < j /\ s[i] = m /\ s[j] = n
Selected == Elements(selected)
Predecessors(n) == {m \in Nodes : <<m, n>> \in edges}

Pending == [kind |-> "pending"]
Ok(order) == [kind |-> "ok", order |-> order]
DuplicateSelection == [kind |-> "duplicate_selection"]
DuplicateIdentity(i, n) == [kind |-> "duplicate_identity", sequence |-> i, node |-> n]
IncompatibleOrder(nodes) == [kind |-> "incompatible", nodes |-> nodes]

(* Only the bound on the sequences' total length is a matter of the model. *)
Total == MapThenSumSet(LAMBDA s : Len(sequences[s]), 1..NumSeqs)

Init ==
    /\ sequences \in [1..NumSeqs -> Inputs(MaxLen)]
    /\ Total <= MaxTotal
    /\ selected \in Inputs(MaxSelected)
    /\ pc = "select"
    /\ at = <<1, 1>> /\ last = NoNode
    /\ ranked = <<>> /\ edges = {} /\ indegree = [n \in {} |-> 0]
    /\ ready = {} /\ output = <<>>
    /\ result = Pending

Return(r) == pc' = "done" /\ result' = r

-----------------------------------------------------------------------------
(* The selection is made into a set, which fails on a repeated node.        *)
CollectSelection ==
    /\ pc = "select"
    /\ IF HasDuplicate(selected)
       THEN Return(DuplicateSelection) /\ UNCHANGED indegree
       ELSE /\ pc' = "scan" /\ UNCHANGED result
            /\ indegree' = [n \in Selected |-> 0]
    /\ UNCHANGED <<inputs, at, last, ranked, edges, ready, output>>

Scanning(i, p) == pc = "scan" /\ at = <<i, p>> /\ i \in 1..NumSeqs
Here(i, p) == sequences[i][p]

(* A node that already occurred in its sequence, selected or not, fails.    *)
ScanDuplicate(i, p) ==
    /\ Scanning(i, p) /\ p \in DOMAIN sequences[i]
    /\ \E q \in 1..(p - 1) : Here(i, q) = Here(i, p)
    /\ Return(DuplicateIdentity(i, Here(i, p)))
    /\ UNCHANGED <<inputs, at, last, ranked, edges, indegree, ready, output>>

(* The edge from the previous selected node of the sequence; an edge that   *)
(* is known already is neither stored nor counted again.                    *)
AddEdge_CountsRepeats(m, n) ==
    IF m = NoNode
    THEN UNCHANGED <<edges, indegree>>
    ELSE /\ edges' = edges \cup {<<m, n>>}
         /\ indegree' = [indegree EXCEPT ![n] = @ + 1]
AddEdge(m, n) ==
    IF m = NoNode \/ <<m, n>> \in edges
    THEN UNCHANGED <<edges, indegree>>
    ELSE /\ edges' = edges \cup {<<m, n>>}
         /\ indegree' = [indegree EXCEPT ![n] = @ + 1]

(* A node gets the next rank the first time it is seen.                     *)
Rank(n) == IF n \in Elements(ranked) THEN ranked ELSE Append(ranked, n)

(* Only selected nodes are ranked and constrained.                          *)
ScanNode(i, p) ==
    /\ Scanning(i, p) /\ p \in DOMAIN sequences[i]
    /\ \A q \in 1..(p - 1) : Here(i, q) # Here(i, p)
    /\ IF Here(i, p) \in Selected
       THEN /\ ranked' = Rank(Here(i, p))
            /\ AddEdge(last, Here(i, p))
            /\ last' = Here(i, p)
       ELSE UNCHANGED <<ranked, edges, indegree, last>>
    /\ at' = <<i, p + 1>>
    /\ UNCHANGED <<inputs, pc, ready, output, result>>

NextSequence(i, p) ==
    /\ Scanning(i, p) /\ p \notin DOMAIN sequences[i]
    /\ at' = <<i + 1, 1>> /\ last' = NoNode
    /\ UNCHANGED <<inputs, pc, ranked, edges, indegree, ready, output, result>>

(* After the scan the nodes no sequence mentions are ranked in selection    *)
(* order, one per step; then the nodes without predecessor become ready.    *)
RankRest(k) ==
    /\ pc = "scan" /\ at = <<NumSeqs + 1, k>> /\ k \in DOMAIN selected
    /\ ranked' = Rank(selected[k])
    /\ at' = <<NumSeqs + 1, k + 1>>
    /\ UNCHANGED <<inputs, pc, last, edges, indegree, ready, output, result>>

CollectReady(k) ==
    /\ pc = "scan" /\ at = <<NumSeqs + 1, k>> /\ k \notin DOMAIN selected
    /\ ready' = {n \in Selected : indegree[n] = 0}
    /\ pc' = "order"
    /\ UNCHANGED <<inputs, at, last, ranked, edges, indegree, output, result>>

-----------------------------------------------------------------------------
(* The head of the ready list, which is kept sorted by rank, is placed and  *)
(* each of its successors loses a predecessor.                              *)
IsHead(n) == n \in ready /\ \A m \in ready \ {n} : Precedes(ranked, n, m)

Released_AnySuccessor(n) == {m \in Selected : <<n, m>> \in edges}
Released(n) == {m \in Selected : <<n, m>> \in edges /\ indegree[m] - 1 = 0}

Place(n) ==
    /\ pc = "order" /\ IsHead(n)
    /\ output' = Append(output, n)
    /\ indegree' = [m \in Selected |->
           IF <<n, m>> \in edges THEN indegree[m] - 1 ELSE indegree[m]]
    /\ ready' = (ready \ {n}) \cup Released(n)
    /\ UNCHANGED <<inputs, pc, at, last, ranked, edges, result>>

(* With nothing ready the order is complete, or the nodes that still wait   *)
(* for a predecessor are reported.                                          *)
Waiting == {n \in Selected : indegree[n] > 0}
Finish ==
    /\ pc = "order" /\ ready = {}
    /\ Return(IF Len(output) = Len(selected) THEN Ok(output)
              ELSE IncompatibleOrder(Waiting))
    /\ UNCHANGED <<inputs, at, last, ranked, edges, indegree, ready, output>>

Done == pc = "done" /\ UNCHANGED vars

Scan(i, p) == ScanDuplicate(i, p) \/ ScanNode(i, p) \/ NextSequence(i, p)

Next ==
    \/ CollectSelection
    \/ \E i \in 1..NumSeqs : \E p \in 1..(MaxLen + 1) : Scan(i, p)
    \/ \E k \in 1..(MaxSelected + 1) : RankRest(k) \/ CollectReady(k)
    \/ \E n \in Nodes : Place(n)
    \/ Finish
    \/ Done

Spec == Init /\ [][Next]_vars

-----------------------------------------------------------------------------
(* Type correctness.  The in-degrees are unsigned in the code: a decrement  *)
(* below zero would panic.                                                  *)
ResultOK ==
    \/ result \in {Pending, DuplicateSelection}
    \/ \E i \in 1..NumSeqs, n \in Nodes : result = DuplicateIdentity(i, n)
    \/ \E s \in SUBSET Nodes : result = IncompatibleOrder(s)
    \/ result.kind = "ok" /\ result = Ok(output)

TypeOK ==
    /\ sequences \in [1..NumSeqs -> Inputs(MaxLen)]
    /\ selected \in Inputs(MaxSelected)
    /\ pc \in {"select", "scan", "order", "done"}
    /\ at \in (Nat \ {0}) \X (Nat \ {0})
    /\ last \in Nodes \cup {NoNode}
    /\ ranked \in Seq(Nodes)
    /\ edges \in SUBSET (Nodes \X Nodes)
    /\ pc \in {"scan", "order"} => indegree \in [Selected -> Nat]
    /\ ready \in SUBSET Nodes
    /\ output \in Seq(Nodes)
    /\ ResultOK

(* No output, complete or partial, breaks the order of an input sequence:   *)
(* when a node has been placed, every selected node that comes before it in *)
(* some sequence has been placed before it.                                 *)
PlacedBefore(m, k) == \E l \in 1..(k - 1) : output[l] = m
OrderRespected ==
    \A s \in 1..NumSeqs : \A i, j \in DOMAIN sequences[s] : \A k \in DOMAIN output :
        (i < j /\ sequences[s][i] \in Selected /\ output[k] = sequences[s][j])
            => PlacedBefore(sequences[s][i], k)

(* A node is placed at most once, which also bounds the ordering loop, and  *)
(* a success lists every selected node.                                     *)
PlacedOnce ==
    /\ Elements(output) \subseteq Selected /\ ~HasDuplicate(output)
    /\ result.kind = "ok" => Elements(result.order) = Selected

(* A reported incompatibility is real: every reported node is preceded, in  *)
(* some input sequence, by another reported node, so no order of them can   *)
(* respect all the sequences.                                               *)
ConflictIsReal ==
    result.kind = "incompatible" =>
        /\ result.nodes # {}
        /\ \A n \in result.nodes : \E m \in result.nodes :
               \E s \in 1..NumSeqs : Precedes(sequences[s], m, n)

(* The result a specification of the function would ask for: an error for   *)
(* duplicates, the order that respects every sequence and is first by rank  *)
(* when one exists, and an incompatibility exactly when none does.          *)
Orders == {f \in [1..Cardinality(Selected) -> Selected] : ~HasDuplicate(f)}
Respects(o) == \A s \in 1..NumSeqs : \A m, n \in Selected :
                   Precedes(sequences[s], m, n) => Precedes(o, m, n)
Ranking == [s \in 1..(NumSeqs + 1) |-> IF s <= NumSeqs THEN sequences[s] ELSE selected]
Mentions(s, n) == n \in Elements(Ranking[s])
FirstMention(m, n) ==
    \E s \in 1..(NumSeqs + 1) :
        /\ \A t \in 1..(s - 1) : ~Mentions(t, m) /\ ~Mentions(t, n)
        /\ Mentions(s, m) /\ (Mentions(s, n) => Precedes(Ranking[s], m, n))
EarlierOrder(o, q) ==
    \E k \in DOMAIN o : FirstMention(o[k], q[k]) /\ \A l \in 1..(k - 1) : o[l] = q[l]

ResultIsSpecified ==
    pc = "done" =>
        LET good == {o \in Orders : Respects(o)}
            bad  == {s \in 1..NumSeqs : HasDuplicate(sequences[s])}
        IN  IF HasDuplicate(selected) THEN result = DuplicateSelection
            ELSE IF bad # {}
            THEN /\ result.kind = "duplicate_identity"
                 /\ result.sequence \in bad /\ \A s \in bad : result.sequence <= s
            ELSE \/ good = {} /\ result.kind = "incompatible"
                 \/ \E o \in good : result = Ok(o)
                      /\ \A q \in good \ {o} : EarlierOrder(o, q)
=============================================================================
