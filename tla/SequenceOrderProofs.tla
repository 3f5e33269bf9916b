------------------------ MODULE SequenceOrderProofs ------------------------
(***************************************************************************)
(* Proofs about SequenceOrder, for every number of nodes and sequences and *)
(* every length.                                                           *)
(***************************************************************************)
EXTENDS SequenceOrder, FiniteSetTheorems, WellFoundedInduction, TLAPS

Placed == Elements(output)

\* Where the function is, and what it has not touched yet.
ControlInv ==
  /\ pc # "done" => result = Pending
  /\ pc \in {"select", "scan"} => output = <<>>
  /\ pc = "select" => at = <<1, 1>> /\ last = NoNode /\ edges = {}
  /\ pc \in {"scan", "order"} => ~HasDuplicate(selected)
  /\ at[1] \in 1..(NumSeqs + 1)
  /\ pc = "order" => at[1] = NumSeqs + 1

\* An edge relates selected nodes, one before the other in some sequence.
EdgesSound ==
  \A m, n \in Nodes : <<m, n>> \in edges =>
      /\ m \in Selected /\ n \in Selected
      /\ \E s \in 1..NumSeqs : Precedes(sequences[s], m, n)

\* i is the selected node next before position p of sequence s.
NextBefore(s, i, p) ==
  /\ sequences[s][i] \in Selected
  /\ \A k \in (i + 1)..(p - 1) : sequences[s][k] \notin Selected

NoneBefore(s, p) == \A k \in 1..(p - 1) : sequences[s][k] \notin Selected

Scanned(s, j) == s < at[1] \/ (s = at[1] /\ j < at[2])

\* Every scanned selected node has an edge from the selected node next
\* before it in its sequence.  Edges alone thus carry the whole order.
EdgesComplete ==
  \A s \in 1..NumSeqs : \A j \in DOMAIN sequences[s] :
      (Scanned(s, j) /\ sequences[s][j] \in Selected) =>
          \/ NoneBefore(s, j)
          \/ \E i \in 1..(j - 1) :
                NextBefore(s, i, j) /\ <<sequences[s][i], sequences[s][j]>> \in edges

\* "last" is the selected node next before the position the scan looks at.
LastSeen ==
  (pc = "scan" /\ at[1] \in 1..NumSeqs) =>
      /\ at[2] <= Len(sequences[at[1]]) + 1
      /\ \/ last = NoNode /\ NoneBefore(at[1], at[2])
         \/ \E i \in 1..(at[2] - 1) :
               NextBefore(at[1], i, at[2]) /\ last = sequences[at[1]][i]

\* The in-degree counts the predecessors that are not placed yet.
Counted ==
  pc \in {"scan", "order"} =>
      \A n \in Selected : indegree[n] = Cardinality(Predecessors(n) \ Placed)

\* Nodes are placed once, after all their predecessors, and the ready list
\* holds exactly the unplaced nodes with no predecessor left.
PlacementInv ==
  /\ Placed \subseteq Selected /\ ~HasDuplicate(output)
  /\ \A n \in Placed : Predecessors(n) \subseteq Placed
  /\ pc = "order" => ready = {n \in Selected : indegree[n] = 0 /\ n \notin Placed}

Inv == /\ TypeOK /\ ControlInv /\ EdgesSound /\ EdgesComplete /\ LastSeen
       /\ Counted /\ PlacementInv /\ OrderRespected /\ PlacedOnce /\ ConflictIsReal

-----------------------------------------------------------------------------
\* A bounded input is a finite sequence of nodes.
LEMMA InputFacts ==
  ASSUME NEW max \in Nat, NEW s \in Inputs(max)
  PROVE  /\ s \in Seq(Nodes) /\ Len(s) \in Nat
         /\ DOMAIN s = 1..Len(s)
         /\ \A i \in DOMAIN s : s[i] \in Nodes
         /\ Elements(s) \subseteq Nodes
<1>1. PICK n \in 0..max : s \in [1..n -> Nodes]
  BY DEF Inputs
<1>2. n \in Nat
  BY <1>1
<1>3. s \in Seq(Nodes) /\ Len(s) = n
  BY <1>1, <1>2
<1>4. QED
  BY <1>1, <1>2, <1>3 DEF Elements

\* A sequence without repetition is as long as its set of elements.
LEMMA DistinctLength ==
  ASSUME NEW s \in Seq(Nodes), ~HasDuplicate(s)
  PROVE  IsFiniteSet(Elements(s)) /\ Cardinality(Elements(s)) = Len(s)
<1> DEFINE n == Len(s)
<1>1. n \in Nat /\ DOMAIN s = 1..n
  OBVIOUS
<1>2. IsFiniteSet(1..n) /\ Cardinality(1..n) = n
  BY <1>1, FS_Interval, SMTT(30)
<1>3. s \in Bijection(1..n, Elements(s))
  <2>1. s \in [1..n -> Elements(s)]
    BY <1>1 DEF Elements
  <2>2. \A i, j \in 1..n : s[i] = s[j] => i = j
    BY <1>1 DEF HasDuplicate
  <2>3. \A t \in Elements(s) : \E i \in 1..n : s[i] = t
    BY <1>1 DEF Elements
  <2>4. QED
    BY <2>1, <2>2, <2>3 DEF Bijection, Injection, Surjection, IsInjective
<1>4. ExistsBijection(1..n, Elements(s))
  BY <1>3 DEF ExistsBijection
<1>5. QED
  BY <1>2, <1>4, FS_Bijection

LEMMA AppendFacts ==
  ASSUME NEW s \in Seq(Nodes), NEW n \in Nodes
  PROVE  /\ Append(s, n) \in Seq(Nodes)
         /\ DOMAIN s = 1..Len(s) /\ Len(s) \in Nat
         /\ DOMAIN Append(s, n) = 1..(Len(s) + 1)
         /\ Len(Append(s, n)) = Len(s) + 1
         /\ \A k \in 1..Len(s) : Append(s, n)[k] = s[k]
         /\ Append(s, n)[Len(s) + 1] = n
OBVIOUS

LEMMA AppendElements ==
  ASSUME NEW s \in Seq(Nodes), NEW n \in Nodes
  PROVE  Elements(Append(s, n)) = Elements(s) \cup {n}
<1>1. \A x \in Elements(Append(s, n)) : x \in Elements(s) \cup {n}
  BY AppendFacts DEF Elements
<1>2. \A x \in Elements(s) \cup {n} : x \in Elements(Append(s, n))
  <2> TAKE x \in Elements(s) \cup {n}
  <2>1. CASE x = n
    <3>1. Len(s) + 1 \in DOMAIN Append(s, n)
      BY AppendFacts
    <3> QED
      BY <2>1, <3>1, AppendFacts DEF Elements
  <2>2. CASE x \in Elements(s)
    <3>1. PICK k \in DOMAIN s : s[k] = x
      BY <2>2 DEF Elements
    <3>2. k \in DOMAIN Append(s, n) /\ Append(s, n)[k] = x
      BY <3>1, AppendFacts
    <3> QED
      BY <3>2 DEF Elements
  <2> QED
    BY <2>1, <2>2
<1>3. QED
  BY <1>1, <1>2

\* What every step leaves alone.
LEMMA InputsStay ==
  ASSUME [Next]_vars
  PROVE  sequences' = sequences /\ selected' = selected /\ Selected' = Selected
<1>1. sequences' = sequences /\ selected' = selected
  BY DEF Next, vars, inputs, CollectSelection, Scan, ScanDuplicate, ScanNode,
         NextSequence, RankRest, CollectReady, Place, Finish, Done
<1>2. QED
  BY <1>1 DEF Selected

\* Typing facts in the form the steps below use them.
LEMMA InvFacts ==
  ASSUME TypeOK
  PROVE  /\ Selected \subseteq Nodes
         /\ \A s \in 1..NumSeqs :
               /\ sequences[s] \in Seq(Nodes) /\ Len(sequences[s]) \in Nat
               /\ DOMAIN sequences[s] = 1..Len(sequences[s])
               /\ \A i \in DOMAIN sequences[s] : sequences[s][i] \in Nodes
         /\ DOMAIN selected = 1..Len(selected) /\ selected \in Seq(Nodes)
         /\ \A n : IsFiniteSet(Predecessors(n) \ Placed)
<1>1. selected \in Inputs(MaxSelected) /\ sequences \in [1..NumSeqs -> Inputs(MaxLen)]
  BY DEF TypeOK
<1>2. ASSUME NEW n PROVE IsFiniteSet(Predecessors(n) \ Placed)
  <2>1. Predecessors(n) \ Placed \in SUBSET Nodes
    BY DEF Predecessors
  <2> QED
    BY <2>1, FS_Subset, NodesAssumption
<1>3. Selected \subseteq Nodes /\ DOMAIN selected = 1..Len(selected) /\ selected \in Seq(Nodes)
  BY <1>1, InputFacts, BoundsAssumption DEF Selected
<1>4. ASSUME NEW s \in 1..NumSeqs
      PROVE  /\ sequences[s] \in Seq(Nodes) /\ Len(sequences[s]) \in Nat
             /\ DOMAIN sequences[s] = 1..Len(sequences[s])
             /\ \A i \in DOMAIN sequences[s] : sequences[s][i] \in Nodes
  <2>1. sequences[s] \in Inputs(MaxLen)
    BY <1>1
  <2> QED
    BY <2>1, InputFacts, BoundsAssumption
<1>5. QED
  BY <1>2, <1>3, <1>4

-----------------------------------------------------------------------------
\* Each part of the invariant is kept by every step.
LEMMA InitInv == Init => Inv
<1> SUFFICES ASSUME Init PROVE Inv
  OBVIOUS
<1> USE BoundsAssumption
<1>1. output = <<>> /\ DOMAIN output = {} /\ Elements(output) = {} /\ Len(output) = 0
  BY DEF Init, Elements
<1>2. TypeOK
  BY <1>1 DEF Init, TypeOK, ResultOK
<1>3. ControlInv
  BY DEF Init, ControlInv
<1>4. EdgesSound
  BY DEF Init, EdgesSound
<1>5. EdgesComplete
  BY <1>2, InvFacts DEF Init, EdgesComplete, Scanned
<1>6. LastSeen /\ Counted
  BY DEF Init, LastSeen, Counted
<1>7. PlacementInv /\ OrderRespected
  BY <1>1 DEF Init, PlacementInv, OrderRespected, Placed, HasDuplicate
<1>8. PlacedOnce /\ ConflictIsReal
  BY <1>1 DEF Init, PlacedOnce, ConflictIsReal, Pending, HasDuplicate
<1>9. QED
  BY <1>2, <1>3, <1>4, <1>5, <1>6, <1>7, <1>8 DEF Inv

\* The order in which the function moves through its loops.
LEMMA ControlStep ==
  ASSUME Inv, [Next]_vars
  PROVE  ControlInv'
<1> USE BoundsAssumption
<1> ControlInv /\ TypeOK
  BY DEF Inv
<1>1. sequences' = sequences /\ selected' = selected
  BY InputsStay
<1>2. CASE CollectSelection
  BY <1>1, <1>2 DEF CollectSelection, ControlInv, Return, TypeOK
<1>3. ASSUME NEW i \in 1..NumSeqs, NEW p \in 1..(MaxLen + 1), ScanDuplicate(i, p) PROVE ControlInv'
  BY <1>1, <1>3 DEF ScanDuplicate, ControlInv, Return
<1>4. ASSUME NEW i \in 1..NumSeqs, NEW p \in 1..(MaxLen + 1), ScanNode(i, p) PROVE ControlInv'
  BY <1>1, <1>4 DEF ScanNode, Scanning, ControlInv
<1>5. ASSUME NEW i \in 1..NumSeqs, NEW p \in 1..(MaxLen + 1), NextSequence(i, p) PROVE ControlInv'
  BY <1>1, <1>5 DEF NextSequence, Scanning, ControlInv
<1>6. ASSUME NEW k \in 1..(MaxSelected + 1), RankRest(k) PROVE ControlInv'
  BY <1>1, <1>6 DEF RankRest, ControlInv
<1>7. ASSUME NEW k \in 1..(MaxSelected + 1), CollectReady(k) PROVE ControlInv'
  BY <1>1, <1>7 DEF CollectReady, ControlInv
<1>8. ASSUME NEW n \in Nodes, Place(n) PROVE ControlInv'
  BY <1>1, <1>8 DEF Place, ControlInv
<1>9. CASE Finish
  BY <1>1, <1>9 DEF Finish, Return, ControlInv
<1>10. CASE UNCHANGED vars
  BY <1>10 DEF vars, ControlInv
<1>11. QED
  BY <1>2, <1>3, <1>4, <1>5, <1>6, <1>7, <1>8, <1>9, <1>10 DEF Next, Scan, Done

\* What placing n does to the predecessors that are left: n is gone.
LEMMA PlaceCounts ==
  ASSUME Inv, NEW n \in Nodes, Place(n)
  PROVE  /\ n \in Selected /\ n \notin Placed /\ indegree[n] = 0
         /\ Placed' = Placed \cup {n} /\ edges' = edges
         /\ Predecessors(n) \subseteq Placed
         /\ indegree' \in [Selected -> Nat]
         /\ \A m \in Selected :
               indegree'[m] = Cardinality(Predecessors(m) \ (Placed \cup {n}))
<1> USE DEF Inv
<1>1. n \in Selected /\ n \notin Placed /\ indegree[n] = 0
  BY DEF Place, IsHead, PlacementInv
<1>2. Placed' = Placed \cup {n} /\ edges' = edges
  BY AppendElements DEF Place, Placed, TypeOK
<1>3. pc = "order" /\ Selected \subseteq Nodes
  BY InvFacts DEF Place
<1>4. Predecessors(n) \subseteq Placed
  <2>1. Cardinality(Predecessors(n) \ Placed) = 0 /\ IsFiniteSet(Predecessors(n) \ Placed)
    BY <1>1, <1>3, InvFacts DEF Counted
  <2> QED
    BY <2>1, FS_EmptySet
<1>5. ASSUME NEW m \in Selected
      PROVE  /\ indegree'[m] = Cardinality(Predecessors(m) \ (Placed \cup {n}))
             /\ indegree'[m] \in Nat
  <2> DEFINE S == Predecessors(m) \ Placed
  <2>1. IsFiniteSet(S) /\ indegree[m] = Cardinality(S)
    BY <1>3, InvFacts DEF Counted
  <2>2. /\ IsFiniteSet(S \ {n})
        /\ Cardinality(S \ {n}) = IF n \in S THEN Cardinality(S) - 1 ELSE Cardinality(S)
    BY <2>1, FS_RemoveElement
  <2>3. Cardinality(S \ {n}) \in Nat
    BY <2>2, FS_CardinalityType
  <2>4. n \in S <=> <<n, m>> \in edges
    BY <1>1 DEF Predecessors
  <2>5. indegree'[m] = IF <<n, m>> \in edges THEN indegree[m] - 1 ELSE indegree[m]
    BY DEF Place
  <2>6. S \ {n} = Predecessors(m) \ (Placed \cup {n})
    OBVIOUS
  <2>7. QED
    BY <2>1, <2>2, <2>3, <2>4, <2>5, <2>6
<1>6. indegree' \in [Selected -> Nat]
  BY <1>5 DEF Place
<1>7. QED
  BY <1>1, <1>2, <1>4, <1>5, <1>6

\* What adding the edge from m to n does to the in-degrees.
LEMMA EdgeCounts ==
  ASSUME Inv, pc = "scan", NEW m \in Nodes \cup {NoNode}, NEW n \in Selected, AddEdge(m, n)
  PROVE  /\ edges' = IF m = NoNode THEN edges ELSE edges \cup {<<m, n>>}
         /\ edges' \in SUBSET (Nodes \X Nodes)
         /\ indegree' \in [Selected -> Nat]
         /\ \A k \in Selected : indegree'[k] = Cardinality(Predecessors(k)')
<1> USE DEF Inv
<1>1. /\ n \in Nodes /\ indegree \in [Selected -> Nat] /\ Placed = {}
      /\ edges \in SUBSET (Nodes \X Nodes)
  BY InvFacts DEF TypeOK, ControlInv, Placed, Elements
<1>2. \A k \in Selected : indegree[k] = Cardinality(Predecessors(k)) /\ IsFiniteSet(Predecessors(k))
  <2>1. \A k : Predecessors(k) \ Placed = Predecessors(k)
    BY <1>1
  <2> QED
    BY <2>1, InvFacts DEF Counted
<1>3. CASE m = NoNode \/ <<m, n>> \in edges
  <2>1. edges' = edges /\ indegree' = indegree
    BY <1>3 DEF AddEdge
  <2>2. \A k : Predecessors(k)' = Predecessors(k)
    BY <2>1 DEF Predecessors
  <2>3. edges' = IF m = NoNode THEN edges ELSE edges \cup {<<m, n>>}
    BY <1>3, <2>1
  <2> QED
    BY <1>1, <1>2, <2>1, <2>2, <2>3
<1>4. CASE m # NoNode /\ <<m, n>> \notin edges
  <2>1. edges' = edges \cup {<<m, n>>} /\ indegree' = [indegree EXCEPT ![n] = @ + 1] /\ m \in Nodes
    BY <1>4 DEF AddEdge
  <2>2. ASSUME NEW k \in Selected PROVE indegree'[k] = Cardinality(Predecessors(k)')
    <3>1. CASE k = n
      <4>1. Predecessors(n)' = Predecessors(n) \cup {m} /\ m \notin Predecessors(n)
        BY <1>4, <2>1 DEF Predecessors
      <4>2. Cardinality(Predecessors(n) \cup {m}) = Cardinality(Predecessors(n)) + 1
        BY <1>2, <4>1, FS_AddElement
      <4> QED
        BY <1>1, <1>2, <2>1, <3>1, <4>1, <4>2
    <3>2. CASE k # n
      <4>1. Predecessors(k)' = Predecessors(k)
        BY <2>1, <3>2 DEF Predecessors
      <4> QED
        BY <1>1, <1>2, <2>1, <3>2, <4>1
    <3> QED
      BY <3>1, <3>2
  <2> QED
    BY <1>1, <1>4, <2>1, <2>2
<1>5. QED
  BY <1>3, <1>4

\* The two cases of scanning a node: a selected one is ranked, linked to the
\* selected node before it and remembered; another is passed over.
LEMMA ScanNodeCases ==
  ASSUME Inv, NEW i \in 1..NumSeqs, NEW p \in 1..(MaxLen + 1), ScanNode(i, p)
  PROVE  /\ pc = "scan" /\ pc' = pc /\ at = <<i, p>> /\ at' = <<i, p + 1>> /\ p \in Nat \ {0}
         /\ p \in DOMAIN sequences[i] /\ sequences[i][p] \in Nodes
         /\ output' = output /\ ready' = ready /\ result' = result
         /\ \/ /\ sequences[i][p] \in Selected /\ AddEdge(last, sequences[i][p])
               /\ last' = sequences[i][p] /\ ranked' = Rank(sequences[i][p])
            \/ /\ sequences[i][p] \notin Selected
               /\ edges' = edges /\ indegree' = indegree /\ last' = last /\ ranked' = ranked
<1>1. p \in Nat \ {0}
  BY BoundsAssumption
<1>2. p \in DOMAIN sequences[i] => sequences[i][p] \in Nodes
  BY InvFacts DEF Inv
<1>3. QED
  BY <1>1, <1>2 DEF ScanNode, Scanning, Here

\* Type correctness is kept.
LEMMA TypeStep ==
  ASSUME Inv, [Next]_vars
  PROVE  TypeOK'
<1> USE BoundsAssumption
<1> TypeOK /\ ControlInv
  BY DEF Inv
<1>1. sequences' = sequences /\ selected' = selected /\ Selected' = Selected
  BY InputsStay
<1>2. \A n \in Nodes : Rank(n) \in Seq(Nodes)
  BY DEF Rank, TypeOK
<1>3. CASE CollectSelection
  <2>1. pc' = "scan" => indegree' \in [Selected -> Nat]
    BY <1>3 DEF CollectSelection, Return
  <2> QED
    BY <1>1, <1>3, <2>1 DEF CollectSelection, Return, TypeOK, ResultOK
<1>4. ASSUME NEW i \in 1..NumSeqs, NEW p \in 1..(MaxLen + 1), ScanDuplicate(i, p) PROVE TypeOK'
  <2>1. sequences[i][p] \in Nodes
    BY <1>4, InvFacts DEF ScanDuplicate
  <2>2. ResultOK'
    BY <1>4, <2>1 DEF ScanDuplicate, Return, ResultOK, Here
  <2> QED
    BY <1>1, <1>4, <2>2 DEF ScanDuplicate, Return, TypeOK
<1>5. ASSUME NEW i \in 1..NumSeqs, NEW p \in 1..(MaxLen + 1), ScanNode(i, p) PROVE TypeOK'
  <2>0. at' \in (Nat \ {0}) \X (Nat \ {0}) /\ (ResultOK' <=> ResultOK)
    BY <1>5, ScanNodeCases DEF ResultOK
  <2>1. CASE sequences[i][p] \in Selected
    <3>1. edges' \in SUBSET (Nodes \X Nodes) /\ indegree' \in [Selected -> Nat]
      BY <1>5, <2>1, ScanNodeCases, EdgeCounts DEF TypeOK
    <3>2. ranked' \in Seq(Nodes) /\ last' \in Nodes
      BY <1>2, <1>5, <2>1, ScanNodeCases
    <3> QED
      BY <1>1, <1>5, <2>0, <3>1, <3>2, ScanNodeCases DEF TypeOK
  <2>2. CASE sequences[i][p] \notin Selected
    BY <1>1, <1>5, <2>0, <2>2, ScanNodeCases DEF TypeOK
  <2> QED
    BY <2>1, <2>2
<1>6. ASSUME NEW i \in 1..NumSeqs, NEW p \in 1..(MaxLen + 1), NextSequence(i, p) PROVE TypeOK'
  BY <1>1, <1>6, SMTT(30) DEF NextSequence, TypeOK, ResultOK
<1>7. ASSUME NEW k \in 1..(MaxSelected + 1), RankRest(k) PROVE TypeOK'
  <2>1. selected[k] \in Nodes
    BY <1>7, InvFacts DEF RankRest
  <2>2. ranked' \in Seq(Nodes) /\ at' \in (Nat \ {0}) \X (Nat \ {0})
    BY <1>2, <1>7, <2>1 DEF RankRest
  <2> QED
    BY <1>1, <1>7, <2>2 DEF RankRest, TypeOK, ResultOK
<1>8. ASSUME NEW k \in 1..(MaxSelected + 1), CollectReady(k) PROVE TypeOK'
  BY <1>1, <1>8, InvFacts DEF CollectReady, TypeOK, ResultOK
<1>9. ASSUME NEW n \in Nodes, Place(n) PROVE TypeOK'
  <2>1. indegree' \in [Selected -> Nat] /\ output' \in Seq(Nodes) /\ ready' \in SUBSET Nodes
    BY <1>9, PlaceCounts, AppendFacts, InvFacts DEF Place, TypeOK, Released
  <2>2. ResultOK'
    BY <1>9 DEF Place, ControlInv, ResultOK
  <2> QED
    BY <1>1, <1>9, <2>1, <2>2 DEF Place, TypeOK
<1>10. CASE Finish
  <2>1. ResultOK'
    BY <1>10, InvFacts DEF Finish, Return, ResultOK, Ok, Waiting
  <2> QED
    BY <1>1, <1>10, <2>1 DEF Finish, Return, TypeOK
<1>11. CASE UNCHANGED vars
  BY <1>1, <1>11 DEF vars, TypeOK, ResultOK
<1>12. QED
  BY <1>3, <1>4, <1>5, <1>6, <1>7, <1>8, <1>9, <1>10, <1>11 DEF Next, Scan, Done

\* The in-degrees keep counting the predecessors that are left.
LEMMA CountedStep ==
  ASSUME Inv, [Next]_vars
  PROVE  Counted'
<1> USE BoundsAssumption
<1> Counted /\ ControlInv /\ TypeOK
  BY DEF Inv
<1>1. Selected' = Selected
  BY InputsStay
<1>2. ASSUME edges' = edges, output' = output, indegree' = indegree,
             pc' \in {"scan", "order"} => pc \in {"scan", "order"}
      PROVE  Counted'
  BY <1>1, <1>2 DEF Counted, Predecessors, Placed, Elements
<1>3. CASE CollectSelection
  <2>1. CASE HasDuplicate(selected)
    BY <1>3, <2>1 DEF CollectSelection, Return, Counted
  <2>2. CASE ~HasDuplicate(selected)
    <3>1. \A n : (Predecessors(n) \ Placed)' = {}
      BY <1>3 DEF CollectSelection, ControlInv, Predecessors
    <3>2. \A n \in Selected : indegree'[n] = 0
      BY <1>3, <2>2 DEF CollectSelection
    <3> QED
      BY <1>1, <3>1, <3>2, FS_EmptySet DEF Counted
  <2> QED
    BY <2>1, <2>2
<1>4. ASSUME NEW i \in 1..NumSeqs, NEW p \in 1..(MaxLen + 1), ScanNode(i, p) PROVE Counted'
  <2>1. CASE sequences[i][p] \in Selected
    <3>1. \A k \in Selected : indegree'[k] = Cardinality(Predecessors(k)')
      BY <1>4, <2>1, ScanNodeCases, EdgeCounts DEF TypeOK
    <3>2. Placed' = {}
      <4>1. output' = <<>>
        BY <1>4, ScanNodeCases DEF ControlInv
      <4> QED
        BY <4>1 DEF Placed, Elements
    <3>3. \A k : (Predecessors(k) \ Placed)' = Predecessors(k)'
      BY <3>2
    <3> QED
      BY <1>1, <3>1, <3>3 DEF Counted
  <2>2. CASE sequences[i][p] \notin Selected
    BY <1>2, <1>4, <2>2, ScanNodeCases
  <2> QED
    BY <2>1, <2>2
<1>5. ASSUME NEW n \in Nodes, Place(n) PROVE Counted'
  <2>1. \A m : (Predecessors(m) \ Placed)' = Predecessors(m) \ (Placed \cup {n})
    BY <1>5, PlaceCounts DEF Predecessors
  <2> QED
    BY <1>1, <1>5, <2>1, PlaceCounts DEF Counted
<1>6. ASSUME NEW i \in 1..NumSeqs, NEW p \in 1..(MaxLen + 1), ScanDuplicate(i, p) \/ NextSequence(i, p)
      PROVE  Counted'
  BY <1>2, <1>6 DEF ScanDuplicate, NextSequence, Return, Scanning
<1>7. ASSUME NEW k \in 1..(MaxSelected + 1), RankRest(k) \/ CollectReady(k) PROVE Counted'
  BY <1>2, <1>7 DEF RankRest, CollectReady
<1>8. CASE Finish \/ UNCHANGED vars
  BY <1>2, <1>8 DEF Finish, Return, vars
<1>9. QED
  BY <1>3, <1>4, <1>5, <1>6, <1>7, <1>8 DEF Next, Scan, Done

-----------------------------------------------------------------------------
\* The scan of a selected node adds the edge that the order needs.
LEMMA ScanNodeEdges ==
  ASSUME Inv, NEW i \in 1..NumSeqs, NEW p \in 1..(MaxLen + 1), ScanNode(i, p)
  PROVE  EdgesSound' /\ EdgesComplete' /\ LastSeen'
<1> DEFINE sq == sequences[i]
           x == sequences[i][p]
<1> USE BoundsAssumption
<1>1. /\ pc = "scan" /\ pc' = pc /\ at = <<i, p>> /\ at' = <<i, p + 1>> /\ p \in Nat \ {0}
      /\ p \in DOMAIN sq /\ x \in Nodes
      /\ \/ /\ x \in Selected /\ AddEdge(last, x) /\ last' = x
         \/ /\ x \notin Selected /\ edges' = edges /\ last' = last
  BY ScanNodeCases
<1>2. sequences' = sequences /\ Selected' = Selected
  BY DEF ScanNode, inputs, Selected
<1>3. DOMAIN sq = 1..Len(sq) /\ Len(sq) \in Nat
  BY InvFacts DEF Inv
<1>4. \/ last = NoNode /\ NoneBefore(i, p)
      \/ \E k \in 1..(p - 1) : NextBefore(i, k, p) /\ last = sq[k]
  BY <1>1 DEF Inv, LastSeen
<1>5. /\ x \in Selected => edges' = IF last = NoNode THEN edges ELSE edges \cup {<<last, x>>}
      /\ x \notin Selected => edges' = edges
  BY <1>1, EdgeCounts DEF Inv, TypeOK
<1>6. \A k \in 1..(p - 1) : k \in DOMAIN sq /\ sq[k] \in Nodes
  BY <1>1, <1>3, InvFacts DEF Inv
<1>7. EdgesSound'
  <2>1. ASSUME NEW m \in Nodes, NEW n \in Nodes, <<m, n>> \in edges', <<m, n>> \notin edges
        PROVE  m \in Selected /\ n \in Selected /\ Precedes(sq, m, n)
    <3>1. x \in Selected /\ last # NoNode /\ m = last /\ n = x
      BY <1>5, <2>1
    <3>2. PICK k \in 1..(p - 1) : NextBefore(i, k, p) /\ last = sq[k]
      BY <1>4, <3>1
    <3>3. k < p /\ k \in DOMAIN sq /\ sq[k] = m /\ sq[p] = n
      BY <1>1, <1>6, <3>1, <3>2
    <3> QED
      BY <1>1, <3>1, <3>2, <3>3 DEF NextBefore, Precedes
  <2>2. EdgesSound
    BY DEF Inv
  <2> QED
    BY <1>2, <2>1, <2>2 DEF EdgesSound
<1>8. EdgesComplete'
  <2> SUFFICES ASSUME NEW s \in 1..NumSeqs, NEW j \in DOMAIN sequences[s],
                      Scanned(s, j)', sequences[s][j] \in Selected
               PROVE  \/ NoneBefore(s, j)
                      \/ \E k \in 1..(j - 1) : NextBefore(s, k, j)
                             /\ <<sequences[s][k], sequences[s][j]>> \in edges'
    BY <1>2 DEF EdgesComplete, NoneBefore, NextBefore
  <2>0. j \in Nat /\ s \in Nat /\ i \in Nat
    BY InvFacts DEF Inv
  <2>1. CASE Scanned(s, j)
    <3>1. \/ NoneBefore(s, j)
          \/ \E k \in 1..(j - 1) : NextBefore(s, k, j)
                 /\ <<sequences[s][k], sequences[s][j]>> \in edges
      BY <2>1 DEF Inv, EdgesComplete
    <3>2. edges \subseteq edges'
      BY <1>5
    <3> QED
      BY <3>1, <3>2
  <2>2. CASE ~Scanned(s, j)
    <3>1. s = i /\ j = p
      BY <1>1, <2>0, <2>2 DEF Scanned
    <3>2. CASE last = NoNode /\ NoneBefore(i, p)
      BY <3>1, <3>2
    <3>3. CASE \E k \in 1..(p - 1) : NextBefore(i, k, p) /\ last = sq[k]
      <4>1. PICK k \in 1..(p - 1) : NextBefore(i, k, p) /\ last = sq[k]
        BY <3>3
      <4>2. last # NoNode
        BY <1>6, <4>1, NodesAssumption
      <4> QED
        BY <1>5, <3>1, <4>1, <4>2
    <3> QED
      BY <1>4, <3>2, <3>3
  <2> QED
    BY <2>1, <2>2
<1>9. LastSeen'
  <2>1. p + 1 <= Len(sq) + 1
    BY <1>1, <1>3
  <2>2. CASE x \in Selected
    <3>1. p \in 1..((p + 1) - 1) /\ NextBefore(i, p, p + 1) /\ last' = sq[p]
      BY <1>1, <2>2 DEF NextBefore
    <3> QED
      BY <1>1, <1>2, <2>1, <3>1 DEF LastSeen, NextBefore, NoneBefore
  <2>3. CASE x \notin Selected
    <3>1. NoneBefore(i, p) => NoneBefore(i, p + 1)
      BY <1>1, <2>3 DEF NoneBefore
    <3>2. \A k \in 1..(p - 1) : NextBefore(i, k, p) => NextBefore(i, k, p + 1)
      BY <1>1, <2>3 DEF NextBefore
    <3>3. \A k \in 1..(p - 1) : k \in 1..((p + 1) - 1)
      BY <1>1
    <3>4. \/ last' = NoNode /\ NoneBefore(i, p + 1)
          \/ \E k \in 1..((p + 1) - 1) : NextBefore(i, k, p + 1) /\ last' = sq[k]
      BY <1>1, <1>4, <2>3, <3>1, <3>2, <3>3
    <3> QED
      BY <1>1, <1>2, <2>1, <3>4 DEF LastSeen, NextBefore, NoneBefore
  <2> QED
    BY <2>2, <2>3
<1>10. QED
  BY <1>7, <1>8, <1>9

\* Soundness and completeness of the edges are kept by every step.
LEMMA EdgesStep ==
  ASSUME Inv, [Next]_vars
  PROVE  EdgesSound' /\ EdgesComplete' /\ LastSeen'
<1> USE BoundsAssumption
<1> EdgesSound /\ EdgesComplete /\ LastSeen /\ ControlInv /\ TypeOK
  BY DEF Inv
<1>1. sequences' = sequences /\ Selected' = Selected
  BY InputsStay
<1>2. ASSUME edges' = edges PROVE EdgesSound'
  BY <1>1, <1>2 DEF EdgesSound
<1>3. ASSUME edges' = edges,
             \A s \in 1..NumSeqs : \A j \in DOMAIN sequences[s] : Scanned(s, j)' => Scanned(s, j)
      PROVE  EdgesComplete'
  BY <1>1, <1>3 DEF EdgesComplete, NoneBefore, NextBefore
<1>4. ASSUME edges' = edges, at' = at, last' = last, pc' = "scan" => pc = "scan"
      PROVE  EdgesComplete' /\ LastSeen'
  <2>1. EdgesComplete'
    BY <1>3, <1>4 DEF Scanned
  <2>2. LastSeen'
    BY <1>1, <1>4 DEF LastSeen, NoneBefore, NextBefore
  <2> QED
    BY <2>1, <2>2
<1>5. CASE CollectSelection
  <2>1. edges' = edges /\ at' = <<1, 1>> /\ at = <<1, 1>> /\ last' = NoNode
    BY <1>5 DEF CollectSelection, ControlInv
  <2>2. EdgesComplete'
    BY <1>3, <2>1 DEF Scanned
  <2>3. LastSeen'
    BY <1>1, <2>1, InvFacts DEF LastSeen, NoneBefore
  <2> QED
    BY <1>2, <2>1, <2>2, <2>3
<1>6. ASSUME NEW i \in 1..NumSeqs, NEW p \in 1..(MaxLen + 1), ScanNode(i, p)
      PROVE  EdgesSound' /\ EdgesComplete' /\ LastSeen'
  BY <1>6, ScanNodeEdges
<1>7. ASSUME NEW i \in 1..NumSeqs, NEW p \in 1..(MaxLen + 1), NextSequence(i, p)
      PROVE  EdgesSound' /\ EdgesComplete' /\ LastSeen'
  <2>1. /\ edges' = edges /\ at = <<i, p>> /\ at' = <<i + 1, 1>> /\ last' = NoNode
        /\ p \notin DOMAIN sequences[i] /\ i \in Nat /\ p \in Nat \ {0}
    BY <1>7 DEF NextSequence, Scanning
  <2>2. \A j \in DOMAIN sequences[i] : j < p /\ j \in Nat
    BY <2>1, InvFacts
  <2>3. EdgesComplete'
    <3>1. ASSUME NEW s \in 1..NumSeqs, NEW j \in DOMAIN sequences[s], Scanned(s, j)'
          PROVE  Scanned(s, j)
      <4>1. s \in Nat /\ j \in Nat \ {0}
        BY InvFacts
      <4>2. s < i + 1
        BY <2>1, <3>1, <4>1 DEF Scanned
      <4> QED
        BY <2>1, <2>2, <4>1, <4>2 DEF Scanned
    <3> QED
      BY <1>3, <2>1, <3>1
  <2>4. LastSeen'
    BY <1>1, <2>1, InvFacts DEF LastSeen, NoneBefore
  <2> QED
    BY <1>2, <2>1, <2>3, <2>4
<1>8. ASSUME NEW k \in 1..(MaxSelected + 1), RankRest(k)
      PROVE  EdgesSound' /\ EdgesComplete' /\ LastSeen'
  <2>1. edges' = edges /\ at = <<NumSeqs + 1, k>> /\ at' = <<NumSeqs + 1, k + 1>>
    BY <1>8 DEF RankRest
  <2>2. EdgesComplete'
    BY <1>3, <2>1 DEF Scanned
  <2>3. LastSeen'
    BY <2>1 DEF LastSeen
  <2> QED
    BY <1>2, <2>1, <2>2, <2>3
<1>9. ASSUME NEW i \in 1..NumSeqs, NEW p \in 1..(MaxLen + 1), ScanDuplicate(i, p)
      PROVE  EdgesSound' /\ EdgesComplete' /\ LastSeen'
  BY <1>2, <1>4, <1>9 DEF ScanDuplicate, Return
<1>10. ASSUME NEW k \in 1..(MaxSelected + 1), CollectReady(k)
       PROVE  EdgesSound' /\ EdgesComplete' /\ LastSeen'
  BY <1>2, <1>4, <1>10 DEF CollectReady
<1>11. ASSUME NEW n \in Nodes, Place(n) PROVE EdgesSound' /\ EdgesComplete' /\ LastSeen'
  BY <1>2, <1>4, <1>11 DEF Place
<1>12. CASE Finish \/ UNCHANGED vars
  BY <1>2, <1>4, <1>12 DEF Finish, Return, vars
<1>13. QED
  BY <1>5, <1>6, <1>7, <1>8, <1>9, <1>10, <1>11, <1>12 DEF Next, Scan, Done

-----------------------------------------------------------------------------
\* Placing a node keeps the placement invariant and the order: its
\* neighbour before it in each sequence is placed, and with it, by the
\* invariant, everything before that neighbour.
LEMMA PlaceKeepsOrder ==
  ASSUME Inv, NEW n \in Nodes, Place(n)
  PROVE  PlacementInv' /\ OrderRespected'
<1> USE BoundsAssumption
<1> DEFINE len == Len(output)
<1> TypeOK /\ PlacementInv /\ OrderRespected /\ Counted /\ EdgesComplete
  BY DEF Inv
<1>1. /\ n \in Selected /\ n \notin Placed /\ indegree[n] = 0
      /\ Placed' = Placed \cup {n} /\ edges' = edges
      /\ Predecessors(n) \subseteq Placed
      /\ indegree' \in [Selected -> Nat]
  BY PlaceCounts
<1>2. /\ sequences' = sequences /\ Selected' = Selected /\ pc = "order" /\ pc' = "order"
      /\ at[1] = NumSeqs + 1 /\ output' = Append(output, n)
      /\ ready' = (ready \ {n}) \cup Released(n)
  BY DEF Place, inputs, Selected, Inv, ControlInv
<1>3. /\ len \in Nat /\ DOMAIN output = 1..len /\ DOMAIN output' = 1..(len + 1)
      /\ output'[len + 1] = n /\ \A k \in 1..len : output'[k] = output[k]
  BY <1>2, AppendFacts DEF TypeOK
<1>4. \A m : m \in Placed <=> \E k \in 1..len : output[k] = m
  BY <1>3 DEF Placed, Elements
<1>5. PlacementInv'
  <2>1. Placed' \subseteq Selected
    BY <1>1 DEF PlacementInv
  <2>2. ~HasDuplicate(output')
    BY <1>1, <1>3, <1>4 DEF HasDuplicate, PlacementInv
  <2>3. \A m \in Placed' : Predecessors(m)' \subseteq Placed'
    BY <1>1 DEF PlacementInv, Predecessors
  <2>4. ready' = {m \in Selected : indegree'[m] = 0 /\ m \notin Placed'}
    <3>1. ready = {m \in Selected : indegree[m] = 0 /\ m \notin Placed}
      BY <1>2 DEF PlacementInv
    <3>2. ASSUME NEW m \in Selected, <<n, m>> \in edges PROVE m \notin Placed /\ m # n /\ indegree[m] # 0
      <4>1. n \in Predecessors(m)
        BY <3>2 DEF Predecessors
      <4>2. m \notin Placed
        BY <1>1, <4>1 DEF PlacementInv
      <4>3. m # n
        BY <1>1, <4>1
      <4>4. indegree[m] # 0
        <5>1. indegree[m] = Cardinality(Predecessors(m) \ Placed) /\ IsFiniteSet(Predecessors(m) \ Placed)
          BY <1>2, InvFacts DEF Counted
        <5>2. n \in Predecessors(m) \ Placed
          BY <1>1, <4>1
        <5> QED
          BY <5>1, <5>2, FS_EmptySet
      <4> QED
        BY <4>2, <4>3, <4>4
    <3>3. \A m \in Selected :
             indegree'[m] = IF <<n, m>> \in edges THEN indegree[m] - 1 ELSE indegree[m]
      BY DEF Place
    <3>4. ASSUME NEW m \in Selected
          PROVE  m \in ready' <=> indegree'[m] = 0 /\ m \notin Placed'
      <4>1. CASE <<n, m>> \in edges
        BY <1>1, <1>2, <3>1, <3>2, <3>3, <4>1 DEF Released
      <4>2. CASE <<n, m>> \notin edges
        BY <1>1, <1>2, <3>1, <3>3, <4>2 DEF Released
      <4> QED
        BY <4>1, <4>2
    <3>5. ready' \subseteq Selected
      BY <1>2, <3>1 DEF Released
    <3> QED
      BY <3>4, <3>5
  <2> QED
    BY <1>2, <2>1, <2>2, <2>3, <2>4 DEF PlacementInv, Placed
<1>6. OrderRespected'
  <2> SUFFICES ASSUME NEW s \in 1..NumSeqs, NEW i \in DOMAIN sequences[s],
                      NEW j \in DOMAIN sequences[s], NEW k \in 1..(len + 1),
                      i < j, sequences[s][i] \in Selected, output'[k] = sequences[s][j]
               PROVE  \E l \in 1..(k - 1) : output'[l] = sequences[s][i]
    BY <1>2, <1>3 DEF OrderRespected, PlacedBefore
  <2>0. i \in Nat \ {0} /\ j \in Nat \ {0} /\ DOMAIN sequences[s] = 1..Len(sequences[s])
    BY InvFacts
  <2>1. CASE k \in 1..len
    <3>1. PlacedBefore(sequences[s][i], k)
      BY <1>3, <2>1 DEF OrderRespected
    <3> QED
      BY <1>3, <2>1, <3>1 DEF PlacedBefore
  <2>2. CASE k = len + 1
    <3>1. sequences[s][j] = n
      BY <1>3, <2>2
    <3>2. SUFFICES sequences[s][i] \in Placed
      BY <1>3, <1>4, <2>2
    <3>3. Scanned(s, j)
      BY <1>2 DEF Scanned
    <3>4. ~NoneBefore(s, j)
      BY <2>0 DEF NoneBefore
    <3>5. PICK h \in 1..(j - 1) : NextBefore(s, h, j) /\ <<sequences[s][h], n>> \in edges
      BY <1>1, <3>1, <3>3, <3>4 DEF EdgesComplete
    <3>6. h \in DOMAIN sequences[s] /\ sequences[s][h] \in Nodes
      BY <2>0, InvFacts
    <3>7. sequences[s][h] \in Placed
      BY <1>1, <3>5, <3>6 DEF Predecessors
    <3>8. CASE h = i
      BY <3>7, <3>8
    <3>9. CASE i < h
      <4>1. PICK l \in 1..len : output[l] = sequences[s][h]
        BY <1>4, <3>7
      <4>2. PlacedBefore(sequences[s][i], l)
        BY <1>3, <3>6, <3>9, <4>1 DEF OrderRespected
      <4> QED
        BY <1>4, <4>1, <4>2 DEF PlacedBefore
    <3>10. CASE h < i
      BY <2>0, <3>5, <3>10 DEF NextBefore
    <3> QED
      BY <2>0, <3>8, <3>9, <3>10
  <2> QED
    BY <1>3, <2>1, <2>2
<1>7. QED
  BY <1>5, <1>6

\* Steps that place nothing keep both, and the ready list is started from
\* the nodes without predecessor.
LEMMA PlacementStep ==
  ASSUME Inv, [Next]_vars
  PROVE  PlacementInv' /\ OrderRespected'
<1> TypeOK /\ PlacementInv /\ OrderRespected /\ ControlInv
  BY DEF Inv
<1>1. sequences' = sequences /\ Selected' = Selected
  BY InputsStay
<1>2. ASSUME output' = output PROVE OrderRespected'
  BY <1>1, <1>2 DEF OrderRespected, PlacedBefore
<1>3. ASSUME output' = output, edges' = edges,
             pc' = "order" => pc = "order" /\ ready' = ready /\ indegree' = indegree
      PROVE  PlacementInv' /\ OrderRespected'
  BY <1>1, <1>2, <1>3 DEF PlacementInv, Placed, Elements, Predecessors, HasDuplicate
<1>4. ASSUME output = <<>>, output' = output, pc' # "order"
      PROVE  PlacementInv' /\ OrderRespected'
  <2>1. DOMAIN output' = {} /\ Placed' = {}
    BY <1>4 DEF Placed, Elements
  <2> QED
    BY <1>2, <1>4, <2>1 DEF PlacementInv, HasDuplicate
<1>5. CASE CollectSelection
  BY <1>3, <1>5 DEF CollectSelection, Return
<1>6. ASSUME NEW i \in 1..NumSeqs, NEW p \in 1..(MaxLen + 1), ScanNode(i, p)
      PROVE  PlacementInv' /\ OrderRespected'
  <2>1. output = <<>> /\ output' = output /\ pc' # "order"
    BY <1>6, ScanNodeCases DEF ControlInv
  <2> QED
    BY <1>4, <2>1
<1>7. ASSUME NEW i \in 1..NumSeqs, NEW p \in 1..(MaxLen + 1), ScanDuplicate(i, p) \/ NextSequence(i, p)
      PROVE  PlacementInv' /\ OrderRespected'
  BY <1>3, <1>7 DEF ScanDuplicate, NextSequence, Return, Scanning
<1>8. ASSUME NEW k \in 1..(MaxSelected + 1), RankRest(k)
      PROVE  PlacementInv' /\ OrderRespected'
  BY <1>3, <1>8 DEF RankRest
<1>9. ASSUME NEW k \in 1..(MaxSelected + 1), CollectReady(k)
      PROVE  PlacementInv' /\ OrderRespected'
  <2>1. output = <<>> /\ output' = <<>> /\ indegree' = indegree
        /\ ready' = {n \in Selected : indegree[n] = 0}
    BY <1>9 DEF CollectReady, ControlInv
  <2>2. DOMAIN output' = {} /\ Placed' = {}
    BY <2>1 DEF Placed, Elements
  <2> QED
    BY <1>1, <1>2, <2>1, <2>2 DEF PlacementInv, HasDuplicate
<1>10. ASSUME NEW n \in Nodes, Place(n) PROVE PlacementInv' /\ OrderRespected'
  BY <1>10, PlaceKeepsOrder
<1>11. CASE Finish \/ UNCHANGED vars
  BY <1>3, <1>11 DEF Finish, Return, vars
<1>12. QED
  BY <1>5, <1>6, <1>7, <1>8, <1>9, <1>10, <1>11 DEF Next, Scan, Done

-----------------------------------------------------------------------------
\* When nothing is ready, the nodes that wait are exactly the unplaced ones,
\* each of them behind another, and the lengths decide whether there are any.
LEMMA FinishFacts ==
  ASSUME Inv, Finish
  PROVE  /\ Waiting = Selected \ Placed
         /\ Len(output) = Len(selected) <=> Placed = Selected
         /\ \A n \in Waiting : \E m \in Waiting :
               \E s \in 1..NumSeqs : Precedes(sequences[s], m, n)
<1> TypeOK /\ PlacementInv /\ Counted /\ ControlInv /\ EdgesSound
  BY DEF Inv
<1>1. pc = "order" /\ ready = {} /\ ~HasDuplicate(selected)
  BY DEF Finish, ControlInv
<1>2. Selected \subseteq Nodes /\ selected \in Seq(Nodes) /\ output \in Seq(Nodes)
  BY InvFacts DEF TypeOK
<1>3. \A n \in Selected : indegree[n] \in Nat
  BY <1>1 DEF TypeOK
<1>4. \A n \in Selected : n \in Placed => indegree[n] = 0
  <2> TAKE n \in Selected
  <2> HAVE n \in Placed
  <2>1. Predecessors(n) \ Placed = {}
    BY DEF PlacementInv
  <2> QED
    BY <1>1, <2>1, FS_EmptySet DEF Counted
<1>5. Waiting = Selected \ Placed
  BY <1>1, <1>3, <1>4 DEF Waiting, PlacementInv
<1>6. Len(output) = Len(selected) <=> Placed = Selected
  <2>1. IsFiniteSet(Placed) /\ Cardinality(Placed) = Len(output)
    BY <1>2, DistinctLength DEF Placed, PlacementInv
  <2>2. IsFiniteSet(Selected) /\ Cardinality(Selected) = Len(selected)
    BY <1>1, <1>2, DistinctLength DEF Selected
  <2>3. Placed \in SUBSET Selected
    BY DEF PlacementInv
  <2> QED
    BY <2>1, <2>2, <2>3, FS_Subset
<1>7. ASSUME NEW n \in Waiting
      PROVE  \E m \in Waiting : \E s \in 1..NumSeqs : Precedes(sequences[s], m, n)
  <2>1. n \in Selected /\ n \in Nodes /\ indegree[n] # 0
    BY <1>2, <1>3 DEF Waiting
  <2>2. Predecessors(n) \ Placed # {}
    BY <1>1, <2>1, FS_EmptySet DEF Counted
  <2>3. PICK m \in Nodes : <<m, n>> \in edges /\ m \notin Placed
    BY <2>2 DEF Predecessors
  <2>4. m \in Selected /\ \E s \in 1..NumSeqs : Precedes(sequences[s], m, n)
    BY <2>1, <2>3 DEF EdgesSound
  <2> QED
    BY <1>5, <2>3, <2>4
<1>8. QED
  BY <1>5, <1>6, <1>7

\* What is returned is complete, or a real conflict.
LEMMA ResultStep ==
  ASSUME Inv, [Next]_vars
  PROVE  PlacedOnce' /\ ConflictIsReal'
<1> PlacedOnce /\ ConflictIsReal /\ ControlInv /\ PlacementInv
  BY DEF Inv
<1>1. sequences' = sequences /\ Selected' = Selected
  BY InputsStay
<1>2. (Placed \subseteq Selected /\ ~HasDuplicate(output))'
  BY PlacementStep DEF PlacementInv
<1>3. ASSUME result' = result PROVE PlacedOnce' /\ ConflictIsReal'
  BY <1>1, <1>2, <1>3 DEF PlacedOnce, ConflictIsReal, Placed
<1>4. ASSUME result'.kind \notin {"ok", "incompatible"} PROVE PlacedOnce' /\ ConflictIsReal'
  BY <1>2, <1>4 DEF PlacedOnce, ConflictIsReal, Placed
<1>5. CASE CollectSelection
  BY <1>3, <1>4, <1>5 DEF CollectSelection, Return, DuplicateSelection
<1>6. ASSUME NEW i \in 1..NumSeqs, NEW p \in 1..(MaxLen + 1), Scan(i, p)
      PROVE  PlacedOnce' /\ ConflictIsReal'
  BY <1>3, <1>4, <1>6 DEF Scan, ScanDuplicate, ScanNode, NextSequence, Return, DuplicateIdentity
<1>7. ASSUME NEW k \in 1..(MaxSelected + 1), RankRest(k) \/ CollectReady(k)
      PROVE  PlacedOnce' /\ ConflictIsReal'
  BY <1>3, <1>7 DEF RankRest, CollectReady
<1>8. ASSUME NEW n \in Nodes, Place(n) PROVE PlacedOnce' /\ ConflictIsReal'
  BY <1>3, <1>8 DEF Place
<1>9. CASE Finish
  <2>1. CASE Len(output) = Len(selected)
    <3>1. result' = Ok(output) /\ Placed = Selected
      BY <1>9, <2>1, FinishFacts DEF Finish, Return
    <3>2. result'.kind = "ok" /\ result'.order = output
      BY <3>1 DEF Ok
    <3> QED
      BY <1>1, <1>2, <3>1, <3>2 DEF PlacedOnce, ConflictIsReal, Placed
  <2>2. CASE Len(output) # Len(selected)
    <3>1. result' = IncompatibleOrder(Waiting) /\ Waiting # {}
      BY <1>9, <2>2, FinishFacts DEF Finish, Return, PlacementInv
    <3>2. result'.kind = "incompatible" /\ result'.nodes = Waiting
      BY <3>1 DEF IncompatibleOrder
    <3>3. ConflictIsReal'
      BY <1>1, <1>9, <3>1, <3>2, FinishFacts DEF ConflictIsReal
    <3> QED
      BY <1>2, <3>2, <3>3 DEF PlacedOnce, Placed
  <2> QED
    BY <2>1, <2>2
<1>10. CASE UNCHANGED vars
  BY <1>3, <1>10 DEF vars
<1>11. QED
  BY <1>5, <1>6, <1>7, <1>8, <1>9, <1>10 DEF Next, Done

\* The inductive invariant.
LEMMA Invariance == Spec => []Inv
<1>1. Inv /\ [Next]_vars => Inv'
  BY TypeStep, ControlStep, EdgesStep, CountedStep, PlacementStep, ResultStep DEF Inv
<1>2. QED
  BY <1>1, InitInv, PTL DEF Spec

-----------------------------------------------------------------------------
\* Type correctness; in particular no in-degree is ever decremented below
\* zero, which would panic.
THEOREM OrderTypeCorrectness == Spec => []TypeOK
<1>1. Inv => TypeOK
  BY DEF Inv
<1>2. QED
  BY <1>1, Invariance, PTL

\* Whatever merge_sequence_order_constraints has written keeps the order of
\* every input sequence, for every number of sequences and nodes.
THEOREM OutputKeepsOrder == Spec => []OrderRespected
<1>1. Inv => OrderRespected
  BY DEF Inv
<1>2. QED
  BY <1>1, Invariance, PTL

\* Every selected node is written at most once, and on success exactly once.
THEOREM OutputIsPermutation == Spec => []PlacedOnce
<1>1. Inv => PlacedOnce
  BY DEF Inv
<1>2. QED
  BY <1>1, Invariance, PTL

\* An IncompatibleOrder error is justified: the reported nodes each come
\* after another of them in some sequence.
THEOREM ConflictsAreJustified == Spec => []ConflictIsReal
<1>1. Inv => ConflictIsReal
  BY DEF Inv
<1>2. QED
  BY <1>1, Invariance, PTL

-----------------------------------------------------------------------------
(* The result is the one the specification asks for.  Four more facts are  *)
(* needed: how the ranks come about, that what is scanned has no           *)
(* duplicate, that every placed node was the first of those that could     *)
(* have been placed, and which of the returns was taken.                   *)

\* A position of the sequence where n is mentioned first has been scanned.
FirstSeen(n) ==
  \E s \in 1..(NumSeqs + 1) : \E j \in DOMAIN Ranking[s] :
      Scanned(s, j) /\ Ranking[s][j] = n /\ \A t \in 1..(s - 1) : ~Mentions(t, n)

\* The ranked nodes are the selected ones among the scanned, by first mention.
RankInv ==
  /\ \A s \in 1..(NumSeqs + 1) : \A j \in DOMAIN Ranking[s] :
        Scanned(s, j) /\ Ranking[s][j] \in Selected => Ranking[s][j] \in Elements(ranked)
  /\ \A n \in Elements(ranked) : FirstSeen(n)
  /\ \A k, l \in DOMAIN ranked : k < l => FirstMention(ranked[k], ranked[l])

\* No scanned node repeats an earlier one of its sequence.
ScanClean ==
  \A s \in 1..NumSeqs : \A j, k \in DOMAIN sequences[s] :
      j < k /\ Scanned(s, k) => sequences[s][j] # sequences[s][k]

\* n could have been placed where output has its k-th node.
Available(n, k) ==
  n \in Selected /\ ~PlacedBefore(n, k) /\ \A m \in Predecessors(n) : PlacedBefore(m, k)

Greedy ==
  \A k \in DOMAIN output : \A n \in Nodes :
      Available(n, k) => n = output[k] \/ FirstMention(output[k], n)

\* Which return was taken.
Verdict ==
  pc = "done" =>
    \/ HasDuplicate(selected) /\ result = DuplicateSelection
    \/ /\ ~HasDuplicate(selected) /\ result.kind = "duplicate_identity"
       /\ result.sequence = at[1] /\ at[1] \in 1..NumSeqs /\ HasDuplicate(sequences[at[1]])
    \/ /\ ~HasDuplicate(selected) /\ at[1] = NumSeqs + 1
       /\ \/ result = Ok(output) /\ Placed = Selected
          \/ result.kind = "incompatible" /\ result.nodes \subseteq Selected

Specified == RankInv /\ ScanClean /\ Greedy /\ Verdict

-----------------------------------------------------------------------------
(* What the specification says of the order it asks for *)

LEMMA LeastNumber ==
  ASSUME NEW S \in SUBSET Nat, S # {}
  PROVE  \E n \in S : \A m \in S : n <= m
<1> DEFINE R == {ss \in Nat \X Nat : ss[1] < ss[2]}
<1>1. IsWellFoundedOn(R, Nat)
  BY NatLessThanWellFounded DEF OpToRel
<1>2. PICK n \in S : \A m \in S : ~(<<m, n>> \in R)
  <2>1. S \subseteq Nat
    OBVIOUS
  <2> HIDE DEF R
  <2> QED
    BY <1>1, <2>1, WFMin
<1>3. ASSUME NEW m \in S PROVE n <= m
  <2>1. m \in Nat /\ n \in Nat /\ (m < n => <<m, n>> \in R)
    BY <1>2
  <2>2. ~(<<m, n>> \in R)
    <3> HIDE DEF R
    <3> QED
      BY <1>2
  <2> QED
    BY <2>1, <2>2
<1> QED
  BY <1>3

\* An order of the selected nodes has each of them at one position.
LEMMA OrderFacts ==
  ASSUME TypeOK, NEW q \in Orders
  PROVE  /\ q \in Seq(Nodes) /\ DOMAIN q = 1..Len(q) /\ Len(q) = Cardinality(Selected)
         /\ Elements(q) = Selected
         /\ \A i, j \in DOMAIN q : q[i] = q[j] => i = j
<1> DEFINE c == Cardinality(Selected)
<1>1. Selected \subseteq Nodes /\ IsFiniteSet(Selected)
  BY InvFacts, FS_Subset, NodesAssumption
<1>2. c \in Nat
  BY <1>1, FS_CardinalityType
<1>3. q \in [1..c -> Selected] /\ ~HasDuplicate(q)
  BY DEF Orders
<1> HIDE DEF c
<1>4. q \in Seq(Nodes) /\ Len(q) = c /\ DOMAIN q = 1..Len(q) /\ Elements(q) \subseteq Selected
  BY <1>1, <1>2, <1>3 DEF Elements
<1>5. Cardinality(Elements(q)) = c
  BY <1>3, <1>4, DistinctLength
<1>6. Elements(q) = Selected
  BY <1>1, <1>4, <1>5, FS_Subset DEF c
<1>7. \A i, j \in DOMAIN q : q[i] = q[j] => i = j
  BY <1>2, <1>3, <1>4 DEF HasDuplicate
<1> QED
  BY <1>4, <1>6, <1>7 DEF c

\* With a reported conflict no order respects all sequences: the first of
\* the reported nodes in such an order would come after another of them.
LEMMA ConflictExcludesOrder ==
  ASSUME TypeOK, ConflictIsReal, result.kind = "incompatible", result.nodes \subseteq Selected,
         NEW q \in Orders, Respects(q)
  PROVE  FALSE
<1> DEFINE W == result.nodes
           P == {i \in DOMAIN q : q[i] \in W}
<1>1. W # {} /\ \A n \in W : \E m \in W : \E s \in 1..NumSeqs : Precedes(sequences[s], m, n)
  BY DEF ConflictIsReal
<1>2. /\ DOMAIN q = 1..Len(q) /\ Len(q) \in Nat /\ Elements(q) = Selected
      /\ \A i, j \in DOMAIN q : q[i] = q[j] => i = j
  BY OrderFacts
<1>3. P # {} /\ P \subseteq Nat
  BY <1>1, <1>2, SMTT(30) DEF Elements
<1>4. PICK i \in P : \A j \in P : i <= j
  BY <1>3, LeastNumber
<1>5. PICK m \in W : \E s \in 1..NumSeqs : Precedes(sequences[s], m, q[i])
  BY <1>1
<1>6. Precedes(q, m, q[i])
  BY <1>5 DEF Respects
<1>7. PICK j, k \in DOMAIN q : j < k /\ q[j] = m /\ q[k] = q[i]
  BY <1>6 DEF Precedes
<1>8. j \in P /\ j < i
  BY <1>2, <1>7
<1> QED
  BY <1>2, <1>4, <1>8

\* A complete output is an order of the selected nodes, respects every
\* sequence, and comes first by rank: where another one first differs from
\* it, that one's node could have been placed too.
LEMMA OutputIsSpecified ==
  ASSUME Inv, Greedy, Placed = Selected
  PROVE  /\ output \in Orders /\ Respects(output)
         /\ \A q \in Orders : Respects(q) /\ q # output => EarlierOrder(output, q)
<1> TypeOK /\ PlacementInv /\ OrderRespected /\ EdgesSound
  BY DEF Inv
<1>1. output \in Seq(Nodes) /\ ~HasDuplicate(output) /\ Elements(output) = Selected
  BY DEF TypeOK, PlacementInv, Placed
<1>2. Len(output) = Cardinality(Selected) /\ Len(output) \in Nat /\ DOMAIN output = 1..Len(output)
  BY <1>1, DistinctLength
<1>3. output \in Orders
  BY <1>1, <1>2 DEF Orders, Elements
<1>4. Respects(output)
  <2> SUFFICES ASSUME NEW s \in 1..NumSeqs, NEW m \in Selected, NEW n \in Selected,
                      Precedes(sequences[s], m, n)
               PROVE  Precedes(output, m, n)
    BY DEF Respects
  <2>1. PICK i, j \in DOMAIN sequences[s] : i < j /\ sequences[s][i] = m /\ sequences[s][j] = n
    BY DEF Precedes
  <2>2. PICK k \in DOMAIN output : output[k] = n
    BY <1>1 DEF Elements
  <2>3. PICK l \in 1..(k - 1) : output[l] = m
    BY <2>1, <2>2 DEF OrderRespected, PlacedBefore
  <2>4. l \in DOMAIN output /\ l < k
    BY <1>2, <2>2, <2>3
  <2> QED
    BY <2>2, <2>3, <2>4 DEF Precedes
<1>5. ASSUME NEW q \in Orders, Respects(q), q # output
      PROVE  EarlierOrder(output, q)
  <2> DEFINE D == {k \in DOMAIN output : output[k] # q[k]}
  <2>1. /\ q \in Seq(Nodes) /\ DOMAIN q = DOMAIN output /\ Elements(q) = Selected
        /\ \A i, j \in DOMAIN q : q[i] = q[j] => i = j
    BY <1>2, <1>5, OrderFacts
  <2>2. D # {} /\ D \subseteq Nat
    BY <1>1, <1>2, <1>5, <2>1
  <2>3. PICK k \in D : \A l \in D : k <= l
    BY <2>2, LeastNumber
  <2>4. k \in DOMAIN output /\ output[k] # q[k] /\ \A l \in 1..(k - 1) : l \in DOMAIN output /\ output[l] = q[l]
    BY <1>2, <2>3
  <2>5. q[k] \in Selected /\ q[k] \in Nodes
    BY <2>1, <2>4, InvFacts DEF Elements
  <2>6. ~PlacedBefore(q[k], k)
    BY <1>2, <2>1, <2>4 DEF PlacedBefore
  <2>7. ASSUME NEW m \in Predecessors(q[k]) PROVE PlacedBefore(m, k)
    <3>1. m \in Nodes /\ <<m, q[k]>> \in edges
      BY DEF Predecessors
    <3>2. m \in Selected /\ \E s \in 1..NumSeqs : Precedes(sequences[s], m, q[k])
      BY <2>5, <3>1 DEF EdgesSound
    <3>3. Precedes(q, m, q[k])
      BY <1>5, <2>5, <3>2 DEF Respects
    <3>4. PICK i, j \in DOMAIN q : i < j /\ q[i] = m /\ q[j] = q[k]
      BY <3>3 DEF Precedes
    <3>5. j = k /\ i \in 1..(k - 1)
      BY <1>2, <2>1, <2>4, <3>4
    <3> QED
      BY <2>4, <3>4, <3>5 DEF PlacedBefore
  <2>8. Available(q[k], k)
    BY <2>5, <2>6, <2>7 DEF Available
  <2>9. FirstMention(output[k], q[k])
    BY <2>4, <2>5, <2>8 DEF Greedy
  <2> QED
    BY <2>4, <2>9 DEF EarlierOrder
<1> QED
  BY <1>3, <1>4, <1>5

LEMMA SpecifiedResult ==
  ASSUME Inv, Specified
  PROVE  ResultIsSpecified
<1> SUFFICES ASSUME pc = "done" PROVE ResultIsSpecified
  BY DEF ResultIsSpecified
<1> DEFINE good == {o \in Orders : Respects(o)}
           bad  == {s \in 1..NumSeqs : HasDuplicate(sequences[s])}
<1> TypeOK /\ ConflictIsReal
  BY DEF Inv
<1> USE BoundsAssumption
<1>1. ASSUME NEW s \in bad PROVE ~(s < at[1])
  <2>1. PICK j, k \in DOMAIN sequences[s] : j < k /\ sequences[s][j] = sequences[s][k]
    BY DEF HasDuplicate
  <2> QED
    BY <2>1 DEF Specified, ScanClean, Scanned
<1>2. CASE HasDuplicate(selected) /\ result = DuplicateSelection
  BY <1>2 DEF ResultIsSpecified
<1>3. CASE /\ ~HasDuplicate(selected) /\ result.kind = "duplicate_identity"
           /\ result.sequence = at[1] /\ at[1] \in 1..NumSeqs /\ HasDuplicate(sequences[at[1]])
  <2>1. at[1] \in bad /\ \A s \in bad : at[1] <= s
    BY <1>1, <1>3
  <2> QED
    BY <1>3, <2>1 DEF ResultIsSpecified
<1>4. CASE ~HasDuplicate(selected) /\ at[1] = NumSeqs + 1 /\ result = Ok(output) /\ Placed = Selected
  <2>1. bad = {}
    BY <1>1, <1>4
  <2>2. output \in good /\ \A q \in good \ {output} : EarlierOrder(output, q)
    BY <1>4, OutputIsSpecified DEF Specified
  <2> QED
    BY <1>4, <2>1, <2>2 DEF ResultIsSpecified
<1>5. CASE ~HasDuplicate(selected) /\ at[1] = NumSeqs + 1
           /\ result.kind = "incompatible" /\ result.nodes \subseteq Selected
  <2>1. bad = {}
    BY <1>1, <1>5
  <2>2. good = {}
    BY <1>5, ConflictExcludesOrder
  <2> QED
    BY <1>5, <2>1, <2>2 DEF ResultIsSpecified
<1> QED
  BY <1>2, <1>3, <1>4, <1>5 DEF Specified, Verdict

-----------------------------------------------------------------------------
(* The four facts hold throughout *)

LEMMA RankingFacts ==
  ASSUME TypeOK, NEW s \in 1..(NumSeqs + 1)
  PROVE  /\ s \in Nat /\ Ranking[s] \in Seq(Nodes)
         /\ Len(Ranking[s]) \in Nat /\ DOMAIN Ranking[s] = 1..Len(Ranking[s])
         /\ Ranking[s] = IF s \in 1..NumSeqs THEN sequences[s] ELSE selected
<1>1. s \in Nat /\ Ranking[s] = IF s \in 1..NumSeqs THEN sequences[s] ELSE selected
  BY BoundsAssumption DEF Ranking
<1>2. Ranking[s] \in Seq(Nodes)
  BY <1>1, InvFacts
<1> QED
  BY <1>1, <1>2

\* The scan passes one position: a selected node there is ranked.
LEMMA RankNode ==
  ASSUME Inv, RankInv, sequences' = sequences, selected' = selected,
         NEW i \in 1..(NumSeqs + 1), NEW p \in DOMAIN Ranking[i],
         at = <<i, p>>, at' = <<i, p + 1>>,
         \/ Ranking[i][p] \in Selected /\ ranked' = Rank(Ranking[i][p])
         \/ Ranking[i][p] \notin Selected /\ ranked' = ranked
  PROVE  RankInv'
<1> USE BoundsAssumption
<1> DEFINE n == Ranking[i][p]
<1> TypeOK
  BY DEF Inv
<1>1. /\ Ranking' = Ranking /\ Selected' = Selected
      /\ \A s, x : Mentions(s, x)' <=> Mentions(s, x)
      /\ \A m, x : FirstMention(m, x)' <=> FirstMention(m, x)
  BY DEF Ranking, Selected, Mentions, FirstMention
<1>2. \A s \in 1..(NumSeqs + 1) : \A j \in DOMAIN Ranking[s] :
         Scanned(s, j)' <=> Scanned(s, j) \/ (s = i /\ j = p)
  BY RankingFacts DEF Scanned
<1>3. \A x : FirstSeen(x) => FirstSeen(x)'
  BY <1>1, <1>2 DEF FirstSeen
<1>4. i \in Nat /\ p \in Nat /\ n \in Nodes /\ ranked \in Seq(Nodes)
  BY RankingFacts DEF TypeOK
<1>5. CASE n \notin Selected \/ n \in Elements(ranked)
  <2>1. ranked' = ranked
    BY <1>5 DEF Rank
  <2>2. \A s \in 1..(NumSeqs + 1) : \A j \in DOMAIN Ranking[s] :
           Scanned(s, j)' /\ Ranking[s][j] \in Selected => Ranking[s][j] \in Elements(ranked)
    BY <1>2, <1>5 DEF RankInv
  <2> QED
    BY <1>1, <1>3, <2>1, <2>2 DEF RankInv
<1>6. CASE n \in Selected /\ n \notin Elements(ranked)
  <2> DEFINE len == Len(ranked)
  <2>1. ranked' = Append(ranked, n)
    BY <1>6 DEF Rank
  <2>2. /\ Elements(ranked') = Elements(ranked) \cup {n}
        /\ len \in Nat /\ DOMAIN ranked = 1..len /\ DOMAIN ranked' = 1..(len + 1)
        /\ ranked'[len + 1] = n /\ \A k \in 1..len : ranked'[k] = ranked[k]
    BY <1>4, <2>1, AppendElements, AppendFacts
  <2>3. \A s \in 1..(NumSeqs + 1) : \A j \in DOMAIN Ranking[s] :
           Scanned(s, j)' /\ Ranking[s][j] \in Selected => Ranking[s][j] \in Elements(ranked')
    BY <1>2, <2>2 DEF RankInv
  <2>4. ASSUME NEW t \in 1..(i - 1) PROVE ~Mentions(t, n)
    <3>1. t \in 1..(NumSeqs + 1) /\ t < i
      BY <1>4
    <3>2. \A j \in DOMAIN Ranking[t] : Scanned(t, j)
      BY <3>1 DEF Scanned
    <3> QED
      BY <1>6, <3>1, <3>2 DEF RankInv, Mentions, Elements
  <2>5. \A x : x = n => FirstSeen(x)'
    <3>1. Scanned(i, p)'
      BY <1>2
    <3> QED
      BY <1>1, <2>4, <3>1 DEF FirstSeen
  <2>6. \A x \in Elements(ranked') : FirstSeen(x)'
    BY <1>3, <2>2, <2>5 DEF RankInv
  <2>7. ASSUME NEW m \in Elements(ranked) PROVE FirstMention(m, n)
    <3>0. PICK s \in 1..(NumSeqs + 1) : \E j \in DOMAIN Ranking[s] :
             Scanned(s, j) /\ Ranking[s][j] = m /\ \A t \in 1..(s - 1) : ~Mentions(t, m)
      BY DEF RankInv, FirstSeen
    <3>1. PICK j \in DOMAIN Ranking[s] :
             Scanned(s, j) /\ Ranking[s][j] = m /\ \A t \in 1..(s - 1) : ~Mentions(t, m)
      BY <3>0
    <3>2. s \in Nat /\ j \in Nat /\ s <= i /\ (s = i => j < p)
      BY <1>4, <3>1, RankingFacts DEF Scanned
    <3>3. \A t \in 1..(s - 1) : ~Mentions(t, m) /\ ~Mentions(t, n)
      BY <1>4, <2>4, <3>1, <3>2
    <3>4. Mentions(s, m)
      BY <3>1 DEF Mentions, Elements
    <3>5. Mentions(s, n) => Precedes(Ranking[s], m, n)
      <4>1. CASE s = i
        BY <3>1, <3>2, <4>1 DEF Precedes
      <4>2. CASE s # i
        BY <1>4, <2>4, <3>2, <4>2
      <4> QED
        BY <4>1, <4>2
    <3> QED
      BY <3>3, <3>4, <3>5 DEF FirstMention
  <2>8. ASSUME NEW k \in DOMAIN ranked', NEW l \in DOMAIN ranked', k < l
        PROVE  FirstMention(ranked'[k], ranked'[l])
    <3>1. CASE l \in 1..len
      <4>1. k \in 1..len
        BY <2>2, <2>8, <3>1
      <4> QED
        BY <2>2, <2>8, <3>1, <4>1 DEF RankInv
    <3>2. CASE l = len + 1
      <4>1. k \in 1..len /\ ranked'[l] = n /\ ranked'[k] = ranked[k]
        BY <2>2, <2>8, <3>2
      <4>2. ranked[k] \in Elements(ranked)
        BY <2>2, <4>1 DEF Elements
      <4> QED
        BY <2>7, <4>1, <4>2
    <3> QED
      BY <2>2, <3>1, <3>2
  <2> QED
    BY <1>1, <2>3, <2>6, <2>8 DEF RankInv
<1> QED
  BY <1>5, <1>6

\* The steps that move the scan, and the others.
LEMMA ScanMoves ==
  ASSUME Inv, [Next]_vars
  PROVE  \/ at' = at /\ ranked' = ranked
         \/ \E i \in 1..NumSeqs, p \in 1..(MaxLen + 1) : ScanNode(i, p) \/ NextSequence(i, p)
         \/ \E k \in 1..(MaxSelected + 1) : RankRest(k)
<1>1. CASE CollectSelection
  BY <1>1 DEF CollectSelection
<1>2. ASSUME NEW i \in 1..NumSeqs, NEW p \in 1..(MaxLen + 1), ScanDuplicate(i, p)
      PROVE  at' = at /\ ranked' = ranked
  BY <1>2 DEF ScanDuplicate
<1>3. ASSUME NEW k \in 1..(MaxSelected + 1), CollectReady(k) PROVE at' = at /\ ranked' = ranked
  BY <1>3 DEF CollectReady
<1>4. ASSUME NEW n \in Nodes, Place(n) PROVE at' = at /\ ranked' = ranked
  BY <1>4 DEF Place
<1>5. CASE Finish \/ UNCHANGED vars
  BY <1>5 DEF Finish, vars
<1> QED
  BY <1>1, <1>2, <1>3, <1>4, <1>5 DEF Next, Scan, Done

LEMMA ScanStep ==
  ASSUME Inv, RankInv, ScanClean, [Next]_vars
  PROVE  RankInv' /\ ScanClean'
<1> USE BoundsAssumption
<1> TypeOK /\ ControlInv
  BY DEF Inv
<1>1. sequences' = sequences /\ selected' = selected /\ Selected' = Selected /\ Ranking' = Ranking
  BY InputsStay DEF Ranking
<1>2. /\ \A s, x : Mentions(s, x)' <=> Mentions(s, x)
      /\ \A m, x : FirstMention(m, x)' <=> FirstMention(m, x)
  BY <1>1 DEF Mentions, FirstMention
<1>3. ASSUME ranked' = ranked,
             \A s \in 1..(NumSeqs + 1) : \A j \in DOMAIN Ranking[s] : Scanned(s, j)' <=> Scanned(s, j)
      PROVE  RankInv' /\ ScanClean'
  <2>1. \A x : FirstSeen(x) => FirstSeen(x)'
    BY <1>1, <1>2, <1>3 DEF FirstSeen
  <2>2. RankInv'
    BY <1>1, <1>2, <1>3, <2>1 DEF RankInv
  <2>3. \A s \in 1..NumSeqs : s \in 1..(NumSeqs + 1) /\ Ranking[s] = sequences[s]
    BY RankingFacts
  <2>4. ScanClean'
    BY <1>1, <1>3, <2>3 DEF ScanClean
  <2> QED
    BY <2>2, <2>4
<1>4. CASE at' = at /\ ranked' = ranked
  BY <1>3, <1>4 DEF Scanned
<1>5. ASSUME NEW i \in 1..NumSeqs, NEW p \in 1..(MaxLen + 1), ScanNode(i, p)
      PROVE  RankInv' /\ ScanClean'
  <2>1. /\ at = <<i, p>> /\ at' = <<i, p + 1>> /\ p \in Nat \ {0} /\ p \in DOMAIN sequences[i]
        /\ \A q \in 1..(p - 1) : sequences[i][q] # sequences[i][p]
        /\ \/ sequences[i][p] \in Selected /\ ranked' = Rank(sequences[i][p])
           \/ sequences[i][p] \notin Selected /\ ranked' = ranked
    BY <1>5, ScanNodeCases DEF ScanNode, Here
  <2>2. i \in 1..(NumSeqs + 1) /\ Ranking[i] = sequences[i]
    BY RankingFacts
  <2>3. RankInv'
    BY <1>1, <2>1, <2>2, RankNode
  <2>4. ASSUME NEW s \in 1..NumSeqs, NEW j \in DOMAIN sequences[s], NEW k \in DOMAIN sequences[s],
               j < k, Scanned(s, k)'
        PROVE  sequences[s][j] # sequences[s][k]
    <3>1. s \in Nat /\ j \in Nat \ {0} /\ k \in Nat
      BY InvFacts
    <3>2. Scanned(s, k) \/ (s = i /\ k = p)
      BY <2>1, <2>4, <3>1 DEF Scanned
    <3>3. CASE Scanned(s, k)
      BY <2>4, <3>3 DEF ScanClean
    <3>4. CASE s = i /\ k = p
      BY <2>1, <2>4, <3>1, <3>4
    <3> QED
      BY <3>2, <3>3, <3>4
  <2>5. ScanClean'
    BY <1>1, <2>4 DEF ScanClean
  <2> QED
    BY <2>3, <2>5
<1>6. ASSUME NEW i \in 1..NumSeqs, NEW p \in 1..(MaxLen + 1), NextSequence(i, p)
      PROVE  RankInv' /\ ScanClean'
  <2>1. /\ ranked' = ranked /\ at = <<i, p>> /\ at' = <<i + 1, 1>>
        /\ p \notin DOMAIN sequences[i] /\ i \in Nat /\ p \in Nat \ {0}
    BY <1>6 DEF NextSequence, Scanning
  <2>2. i \in 1..(NumSeqs + 1) /\ Ranking[i] = sequences[i]
    BY RankingFacts
  <2>3. \A j \in DOMAIN Ranking[i] : j < p
    BY <2>1, <2>2, RankingFacts
  <2>4. \A s \in 1..(NumSeqs + 1) : \A j \in DOMAIN Ranking[s] : Scanned(s, j)' <=> Scanned(s, j)
    BY <2>1, <2>3, RankingFacts DEF Scanned
  <2> QED
    BY <1>3, <2>1, <2>4
<1>7. ASSUME NEW k \in 1..(MaxSelected + 1), RankRest(k)
      PROVE  RankInv' /\ ScanClean'
  <2>1. /\ at = <<NumSeqs + 1, k>> /\ at' = <<NumSeqs + 1, k + 1>> /\ k \in DOMAIN selected
        /\ ranked' = Rank(selected[k]) /\ selected[k] \in Selected
    BY <1>7 DEF RankRest, Selected, Elements
  <2>2. NumSeqs + 1 \in 1..(NumSeqs + 1) /\ Ranking[NumSeqs + 1] = selected
    BY RankingFacts
  <2>3. RankInv'
    BY <1>1, <2>1, <2>2, RankNode
  <2>4. ScanClean'
    BY <1>1, <2>1 DEF ScanClean, Scanned
  <2> QED
    BY <2>3, <2>4
<1> QED
  BY <1>4, <1>5, <1>6, <1>7, ScanMoves

\* The node that is placed is the first of those that could be: what could
\* be placed is ready, and the head of the ready list has the least rank.
LEMMA GreedyStep ==
  ASSUME Inv, RankInv, Greedy, [Next]_vars
  PROVE  Greedy'
<1> TypeOK /\ ControlInv /\ PlacementInv /\ Counted
  BY DEF Inv
<1>1. /\ sequences' = sequences /\ selected' = selected /\ Selected' = Selected
      /\ \A m, x : FirstMention(m, x)' <=> FirstMention(m, x)
  BY InputsStay DEF Ranking, Mentions, FirstMention
<1>2. ASSUME output' = output, edges' = edges PROVE Greedy'
  BY <1>1, <1>2 DEF Greedy, Available, PlacedBefore, Predecessors
<1>3. ASSUME output' = output, output = <<>> PROVE Greedy'
  BY <1>3 DEF Greedy
<1>4. CASE CollectSelection
  BY <1>2, <1>4 DEF CollectSelection
<1>5. ASSUME NEW i \in 1..NumSeqs, NEW p \in 1..(MaxLen + 1), Scan(i, p) PROVE Greedy'
  BY <1>3, <1>5 DEF Scan, ScanDuplicate, ScanNode, NextSequence, Scanning, ControlInv
<1>6. ASSUME NEW k \in 1..(MaxSelected + 1), RankRest(k) \/ CollectReady(k) PROVE Greedy'
  BY <1>2, <1>6 DEF RankRest, CollectReady
<1>7. ASSUME NEW n \in Nodes, Place(n) PROVE Greedy'
  <2> DEFINE len == Len(output)
  <2>1. edges' = edges /\ output' = Append(output, n) /\ pc = "order" /\ IsHead(n)
    BY <1>7 DEF Place
  <2>2. /\ len \in Nat /\ DOMAIN output = 1..len /\ DOMAIN output' = 1..(len + 1)
        /\ output'[len + 1] = n /\ \A k \in 1..len : output'[k] = output[k]
    BY <2>1, AppendFacts DEF TypeOK
  <2>3. \A m : \A k \in 1..(len + 1) : PlacedBefore(m, k)' <=> PlacedBefore(m, k)
    BY <2>2 DEF PlacedBefore
  <2>4. \A m : \A k \in 1..(len + 1) : Available(m, k)' <=> Available(m, k)
    BY <1>1, <2>1, <2>3 DEF Available, Predecessors
  <2>5. ASSUME NEW m \in Nodes, Available(m, len + 1)
        PROVE  m = n \/ FirstMention(n, m)
    <3>1. \A x : PlacedBefore(x, len + 1) <=> x \in Placed
      BY <2>2 DEF PlacedBefore, Placed, Elements
    <3>2. m \in Selected /\ m \notin Placed /\ Predecessors(m) \ Placed = {}
      BY <2>5, <3>1 DEF Available
    <3>3. indegree[m] = 0
      BY <2>1, <3>2, FS_EmptySet DEF Counted
    <3>4. m \in ready
      BY <2>1, <3>2, <3>3 DEF PlacementInv
    <3>5. m = n \/ Precedes(ranked, n, m)
      BY <2>1, <3>4 DEF IsHead
    <3> QED
      BY <3>5 DEF Precedes, RankInv
  <2>6. ASSUME NEW k \in 1..(len + 1), NEW m \in Nodes, Available(m, k)'
        PROVE  m = output'[k] \/ FirstMention(output'[k], m)
    <3>1. Available(m, k)
      BY <2>4, <2>6
    <3>2. CASE k \in 1..len
      BY <2>2, <3>1, <3>2 DEF Greedy
    <3>3. CASE k = len + 1
      BY <2>2, <2>5, <3>1, <3>3
    <3> QED
      BY <2>2, <3>2, <3>3
  <2> QED
    BY <1>1, <2>2, <2>6 DEF Greedy
<1>8. CASE Finish \/ UNCHANGED vars
  BY <1>2, <1>8 DEF Finish, vars
<1> QED
  BY <1>4, <1>5, <1>6, <1>7, <1>8 DEF Next, Done

LEMMA VerdictStep ==
  ASSUME Inv, Verdict, [Next]_vars
  PROVE  Verdict'
<1> TypeOK /\ ControlInv /\ PlacementInv
  BY DEF Inv
<1>1. sequences' = sequences /\ selected' = selected /\ Selected' = Selected
  BY InputsStay
<1>2. CASE CollectSelection
  BY <1>1, <1>2 DEF CollectSelection, Return, Verdict
<1>3. ASSUME NEW i \in 1..NumSeqs, NEW p \in 1..(MaxLen + 1), ScanDuplicate(i, p) PROVE Verdict'
  <2>1. /\ at = <<i, p>> /\ at' = at /\ pc = "scan" /\ p \in DOMAIN sequences[i]
        /\ result' = DuplicateIdentity(i, sequences[i][p])
    BY <1>3 DEF ScanDuplicate, Scanning, Return, Here
  <2>2. result'.kind = "duplicate_identity" /\ result'.sequence = i
    BY <2>1 DEF DuplicateIdentity
  <2>3. HasDuplicate(sequences[i])
    <3>1. PICK q \in 1..(p - 1) : sequences[i][q] = sequences[i][p]
      BY <1>3 DEF ScanDuplicate, Here
    <3>2. q \in DOMAIN sequences[i] /\ q < p
      BY <2>1, <3>1, InvFacts
    <3> QED
      BY <2>1, <3>1, <3>2 DEF HasDuplicate
  <2>4. ~HasDuplicate(selected)
    BY <2>1 DEF ControlInv
  <2> QED
    BY <1>1, <2>1, <2>2, <2>3, <2>4 DEF Verdict
<1>4. ASSUME NEW i \in 1..NumSeqs, NEW p \in 1..(MaxLen + 1), ScanNode(i, p) \/ NextSequence(i, p)
      PROVE  Verdict'
  BY <1>4 DEF ScanNode, NextSequence, Scanning, Verdict
<1>5. ASSUME NEW k \in 1..(MaxSelected + 1), RankRest(k) \/ CollectReady(k) PROVE Verdict'
  BY <1>5 DEF RankRest, CollectReady, Verdict
<1>6. ASSUME NEW n \in Nodes, Place(n) PROVE Verdict'
  BY <1>6 DEF Place, Verdict
<1>7. CASE Finish
  <2>1. at' = at /\ at[1] = NumSeqs + 1 /\ ~HasDuplicate(selected) /\ output' = output
    BY <1>7 DEF Finish, ControlInv
  <2>2. CASE Len(output) = Len(selected)
    <3>1. result' = Ok(output) /\ Placed = Selected
      BY <1>7, <2>2, FinishFacts DEF Finish, Return
    <3> QED
      BY <1>1, <2>1, <3>1 DEF Verdict, Placed
  <2>3. CASE Len(output) # Len(selected)
    <3>1. result' = IncompatibleOrder(Waiting) /\ Waiting \subseteq Selected
      BY <1>7, <2>3 DEF Finish, Return, Waiting
    <3>2. result'.kind = "incompatible" /\ result'.nodes = Waiting
      BY <3>1 DEF IncompatibleOrder
    <3> QED
      BY <1>1, <2>1, <3>1, <3>2 DEF Verdict
  <2> QED
    BY <2>2, <2>3
<1>8. CASE UNCHANGED vars
  BY <1>1, <1>8 DEF vars, Verdict, Placed
<1> QED
  BY <1>2, <1>3, <1>4, <1>5, <1>6, <1>7, <1>8 DEF Next, Scan, Done

LEMMA InitSpecified == Init => Specified
<1> SUFFICES ASSUME Init PROVE Specified
  OBVIOUS
<1> USE BoundsAssumption
<1>1. TypeOK
  BY InitInv DEF Inv
<1>2. at = <<1, 1>> /\ ranked = <<>> /\ output = <<>> /\ pc = "select"
  BY DEF Init
<1>3. \A s \in 1..(NumSeqs + 1) : \A j \in DOMAIN Ranking[s] : ~Scanned(s, j)
  BY <1>1, <1>2, RankingFacts DEF Scanned
<1>4. RankInv
  BY <1>2, <1>3 DEF RankInv, Elements
<1>5. ScanClean
  <2>1. \A s \in 1..NumSeqs : s \in 1..(NumSeqs + 1) /\ Ranking[s] = sequences[s]
    BY <1>1, RankingFacts
  <2> QED
    BY <1>3, <2>1 DEF ScanClean
<1> QED
  BY <1>2, <1>4, <1>5 DEF Specified, Greedy, Verdict

\* merge_sequence_order_constraints returns what its specification asks for:
\* the error for a duplicate, the order that respects every sequence and is
\* first by rank, or an incompatibility exactly when there is no such order.
THEOREM ResultMeetsSpecification == Spec => []ResultIsSpecified
<1>1. Inv /\ Specified /\ [Next]_vars => Specified'
  BY ScanStep, GreedyStep, VerdictStep DEF Specified
<1>2. Inv /\ Specified => ResultIsSpecified
  BY SpecifiedResult
<1>3. QED
  BY <1>1, <1>2, InitSpecified, Invariance, PTL DEF Spec
=============================================================================
