-------------------------- MODULE OwnerMergeProofs --------------------------
(***************************************************************************)
(* What a merge of owners may return, for every set of owners, every       *)
(* fingerprint and every triple of documents.                              *)
(*                                                                         *)
(* The properties speak of the final state; the invariant carries what the *)
(* passes establish on the way: the selection is the decision of every     *)
(* owner and none of them is a conflict (Planned), the baseline passed the *)
(* checks on order and layout (Settled), the output is the rendered        *)
(* selection and a reading of it was accepted (Verified).  The lemmas say  *)
(* what the decision table, the order of the common owners and the layout  *)
(* mean.                                                                   *)
(***************************************************************************)
EXTENDS OwnerMerge, WellFoundedInduction, TLAPS

Revisions == {"base", "ours", "theirs"}

-----------------------------------------------------------------------------
(* Induction on the natural numbers, for sets *)

LEMMA NaturalInduction ==
  ASSUME NEW T \in SUBSET Nat, 0 \in T, \A n \in T : n + 1 \in T
  PROVE  T = Nat
  <1> DEFINE R == {ss \in Nat \X Nat : ss[1] < ss[2]}
             rest == Nat \ T
  <1>1. IsWellFoundedOn(R, Nat)
    BY NatLessThanWellFounded DEF OpToRel
  <1>2. SUFFICES ASSUME rest # {} PROVE FALSE
    OBVIOUS
  <1>3. PICK x \in rest : \A y \in rest : ~(<<y, x>> \in R)
    <2>1. rest \subseteq Nat
      OBVIOUS
    <2> HIDE DEF R, rest
    <2> QED BY <1>1, <1>2, <2>1, WFMin
  <1>4. x \in Nat /\ x # 0 /\ x - 1 \in Nat
    BY <1>3
  <1>5. <<x - 1, x>> \in R
    BY <1>4
  <1>6. x - 1 \in T
    <2> HIDE DEF R
    <2> QED BY <1>3, <1>4, <1>5
  <1>7. x \in T
    BY <1>6, <1>4
  <1> QED BY <1>7, <1>3

-----------------------------------------------------------------------------
(* The order of some of the owners *)

\* A document's owners are numbered and have identities and fingerprints.
LEMMA OwnerFacts ==
  ASSUME NEW d, d.owners \in Seq(Owners)
  PROVE  /\ Len(d.owners) \in Nat /\ DOMAIN d.owners = 1..Len(d.owners)
         /\ \A k \in 1..Len(d.owners) : d.owners[k].id \in Ids /\ d.owners[k].print \in Prints
  <1>1. Len(d.owners) \in Nat /\ DOMAIN d.owners = 1..Len(d.owners)
    OBVIOUS
  <1>2. \A k \in 1..Len(d.owners) : d.owners[k] \in Owners
    BY <1>1
  <1> QED BY <1>1, <1>2 DEF Owners

Before(s, i, j) == \E k, l \in DOMAIN s : k < l /\ s[k] = i /\ s[l] = j

\* The recursion of OrderFor has a solution on the first n owners.
Follows(f, d, ids, n) ==
  f = [k \in 0..n |-> IF k = 0 THEN <<>>
                      ELSE IF d.owners[k].id \in ids THEN Append(f[k - 1], d.owners[k].id)
                      ELSE f[k - 1]]

LEMMA OrderExists ==
  ASSUME NEW d, NEW ids
  PROVE  \A n \in Nat : \E f : Follows(f, d, ids, n)
  <1> DEFINE T == {n \in Nat : \E f : Follows(f, d, ids, n)}
  <1>1. 0 \in T
    <2>1. Follows([k \in 0..0 |-> <<>>], d, ids, 0)
      BY DEF Follows
    <2> QED BY <2>1
  <1>2. ASSUME NEW n \in T PROVE n + 1 \in T
    <2>1. PICK f : Follows(f, d, ids, n)
      BY <1>2
    <2> DEFINE last == IF d.owners[n + 1].id \in ids THEN Append(f[n], d.owners[n + 1].id)
                       ELSE f[n]
               g == [k \in 0..(n + 1) |-> IF k = n + 1 THEN last ELSE f[k]]
    <2>2. \A k \in 0..n : f[k] = (IF k = 0 THEN <<>>
                      ELSE IF d.owners[k].id \in ids THEN Append(f[k - 1], d.owners[k].id)
                      ELSE f[k - 1])
      BY <2>1 DEF Follows
    <2>3. \A k \in 0..(n + 1) : g[k] = (IF k = 0 THEN <<>>
                      ELSE IF d.owners[k].id \in ids THEN Append(g[k - 1], d.owners[k].id)
                      ELSE g[k - 1])
      <3> TAKE k \in 0..(n + 1)
      <3>1. CASE k = n + 1
        <4>1. g[k] = last /\ g[k - 1] = f[n] /\ k # 0
          BY <3>1
        <4> QED BY <4>1, <3>1
      <3>2. CASE k # n + 1
        <4>1. k \in 0..n /\ g[k] = f[k] /\ (k # 0 => g[k - 1] = f[k - 1])
          BY <3>2
        <4> HIDE DEF g
        <4> QED BY <4>1, <2>2
      <3> QED BY <3>1, <3>2
    <2>4. g = [k \in 0..(n + 1) |-> g[k]]
      OBVIOUS
    <2> HIDE DEF g
    <2>5. Follows(g, d, ids, n + 1)
      BY <2>3, <2>4 DEF Follows
    <2> QED BY <2>5
  <1>3. T = Nat
    <2> HIDE DEF T
    <2>1. T \in SUBSET Nat
      BY DEF T
    <2> QED BY <1>1, <1>2, <2>1, NaturalInduction
  <1> QED BY <1>3

\* q lists the first m owners of d that are among ids, in their order.
Kept(q, d, ids, m) ==
  /\ q \in Seq(Ids)
  /\ \A i : (\E k \in DOMAIN q : q[k] = i) <=> (i \in ids /\ \E k \in 1..m : d.owners[k].id = i)
  /\ \A i, j \in ids :
       Before(q, i, j)
         <=> \E k, l \in 1..m : k < l /\ d.owners[k].id = i /\ d.owners[l].id = j

LEMMA KeptStep ==
  ASSUME NEW q, NEW d, NEW ids, NEW m \in Nat, Kept(q, d, ids, m), d.owners[m + 1].id \in Ids
  PROVE  Kept(IF d.owners[m + 1].id \in ids THEN Append(q, d.owners[m + 1].id) ELSE q,
              d, ids, m + 1)
  <1> DEFINE x == d.owners[m + 1].id
  <1>1. 1..(m + 1) = 1..m \cup {m + 1} /\ m + 1 \notin 1..m /\ \A k \in 1..m : k < m + 1
    OBVIOUS
  <1>2. ASSUME NEW i, NEW j
        PROVE  (\E k, l \in 1..(m + 1) : k < l /\ d.owners[k].id = i /\ d.owners[l].id = j)
                 <=> \/ \E k, l \in 1..m : k < l /\ d.owners[k].id = i /\ d.owners[l].id = j
                     \/ j = x /\ \E k \in 1..m : d.owners[k].id = i
    BY <1>1
  <1>3. ASSUME NEW i
        PROVE  (\E k \in 1..(m + 1) : d.owners[k].id = i)
                 <=> (\E k \in 1..m : d.owners[k].id = i) \/ i = x
    BY <1>1
  <1> HIDE DEF x
  <1>4. CASE x \notin ids
    <2>1. ASSUME NEW i \in ids
          PROVE  (\E k \in 1..(m + 1) : d.owners[k].id = i) <=> \E k \in 1..m : d.owners[k].id = i
      BY <1>3, <1>4
    <2>2. ASSUME NEW i \in ids, NEW j \in ids
          PROVE  (\E k, l \in 1..(m + 1) : k < l /\ d.owners[k].id = i /\ d.owners[l].id = j)
                   <=> \E k, l \in 1..m : k < l /\ d.owners[k].id = i /\ d.owners[l].id = j
      BY <1>2, <1>4
    <2>3. Kept(q, d, ids, m + 1)
      <3>1. q \in Seq(Ids)
        BY DEF Kept
      <3>2. ASSUME NEW i
            PROVE  (\E k \in DOMAIN q : q[k] = i)
                     <=> (i \in ids /\ \E k \in 1..(m + 1) : d.owners[k].id = i)
        <4>1. (\E k \in DOMAIN q : q[k] = i) <=> (i \in ids /\ \E k \in 1..m : d.owners[k].id = i)
          BY DEF Kept
        <4> QED BY <2>1, <4>1
      <3>3. ASSUME NEW i \in ids, NEW j \in ids
            PROVE  Before(q, i, j)
                     <=> \E k, l \in 1..(m + 1) : k < l /\ d.owners[k].id = i
                                                         /\ d.owners[l].id = j
        <4>1. Before(q, i, j)
                <=> \E k, l \in 1..m : k < l /\ d.owners[k].id = i /\ d.owners[l].id = j
          BY DEF Kept
        <4> QED BY <2>2, <4>1
      <3> QED BY <3>1, <3>2, <3>3 DEF Kept
    <2> QED BY <2>3, <1>4 DEF x
  <1>5. CASE x \in ids
    <2> DEFINE e == Append(q, x)
    <2>1. q \in Seq(Ids) /\ x \in Ids
      BY DEF Kept, x
    <2>2. e \in Seq(Ids) /\ Len(e) = Len(q) + 1 /\ DOMAIN e = 1..(Len(q) + 1)
          /\ DOMAIN q = 1..Len(q) /\ Len(q) \in Nat
          /\ (\A k \in DOMAIN q : e[k] = q[k]) /\ e[Len(q) + 1] = x
      BY <2>1
    <2> HIDE DEF e
    <2>3. ASSUME NEW i
          PROVE  (\E k \in DOMAIN e : e[k] = i) <=> (\E k \in DOMAIN q : q[k] = i) \/ i = x
      BY <2>2
    <2>4. ASSUME NEW i, NEW j
          PROVE  Before(e, i, j) <=> Before(q, i, j) \/ ((\E k \in DOMAIN q : q[k] = i) /\ j = x)
      BY <2>2 DEF Before
    <2>5. Kept(e, d, ids, m + 1)
      <3>1. ASSUME NEW i
            PROVE  (\E k \in DOMAIN e : e[k] = i)
                     <=> (i \in ids /\ \E k \in 1..(m + 1) : d.owners[k].id = i)
        BY <1>3, <1>5, <2>3 DEF Kept
      <3>2. ASSUME NEW i \in ids, NEW j \in ids
            PROVE  Before(e, i, j)
                     <=> \E k, l \in 1..(m + 1) : k < l /\ d.owners[k].id = i
                                                         /\ d.owners[l].id = j
        <4>1. (\E k \in DOMAIN q : q[k] = i) <=> \E k \in 1..m : d.owners[k].id = i
          BY DEF Kept
        <4>2. Before(q, i, j)
                <=> \E k, l \in 1..m : k < l /\ d.owners[k].id = i /\ d.owners[l].id = j
          BY DEF Kept
        <4>3. Before(e, i, j) <=> Before(q, i, j) \/ ((\E k \in DOMAIN q : q[k] = i) /\ j = x)
          BY <2>4
        <4>4. (\E k, l \in 1..(m + 1) : k < l /\ d.owners[k].id = i /\ d.owners[l].id = j)
                <=> \/ \E k, l \in 1..m : k < l /\ d.owners[k].id = i /\ d.owners[l].id = j
                    \/ j = x /\ \E k \in 1..m : d.owners[k].id = i
          BY <1>2
        <4> QED BY <4>1, <4>2, <4>3, <4>4
      <3> QED BY <3>1, <3>2, <2>2 DEF Kept
    <2> QED BY <2>5, <1>5 DEF e, x
  <1> QED BY <1>4, <1>5

\* What OrderFor returns: the owners among ids, in the order of the document.
LEMMA OrderForFacts ==
  ASSUME NEW d, d.owners \in Seq(Owners), NEW ids
  PROVE  Kept(OrderFor(d, ids), d, ids, Len(d.owners))
  <1> DEFINE n == Len(d.owners)
             f == CHOOSE g : Follows(g, d, ids, n)
             T == {m \in Nat : m <= n => Kept(f[m], d, ids, m)}
  <1>1. n \in Nat /\ \A k \in 1..n : d.owners[k].id \in Ids
    BY OwnerFacts
  <1>3. OrderFor(d, ids) = f[n]
    BY DEF OrderFor, Follows
  <1> HIDE DEF n
  <1>2. Follows(f, d, ids, n)
    <2>1. \E g : Follows(g, d, ids, n)
      BY <1>1, OrderExists
    <2> QED BY <2>1
  <1> HIDE DEF f
  <1>4. \A k \in 0..n : f[k] = (IF k = 0 THEN <<>>
                      ELSE IF d.owners[k].id \in ids THEN Append(f[k - 1], d.owners[k].id)
                      ELSE f[k - 1])
    BY <1>2 DEF Follows
  <1>6. 0 \in T
    <2>1. f[0] = <<>>
      BY <1>1, <1>4
    <2>2. Kept(<<>>, d, ids, 0)
      BY DEF Kept, Before
    <2> QED BY <2>1, <2>2
  <1>7. ASSUME NEW m \in T PROVE m + 1 \in T
    <2> SUFFICES ASSUME m + 1 <= n PROVE Kept(f[m + 1], d, ids, m + 1)
      OBVIOUS
    <2>0. m \in Nat /\ m + 1 \in 1..n /\ m <= n
      BY <1>1
    <2>1. Kept(f[m], d, ids, m)
      BY <1>7, <2>0
    <2>2. f[m + 1] = IF d.owners[m + 1].id \in ids THEN Append(f[m], d.owners[m + 1].id)
                     ELSE f[m]
      <3>1. m + 1 \in 0..n /\ m + 1 # 0 /\ (m + 1) - 1 = m
        BY <2>0
      <3> QED BY <3>1, <1>4
    <2> QED BY <2>0, <2>1, <2>2, <1>1, KeptStep
  <1>8. n \in T
    <2>1. T \in SUBSET Nat
      OBVIOUS
    <2> HIDE DEF T
    <2> QED BY <1>1, <1>6, <1>7, <2>1, NaturalInduction
  <1>9. Kept(f[n], d, ids, n)
    BY <1>8, <1>1
  <1> QED BY <1>3, <1>9 DEF n

\* Documents in which the owners among ids come alike have them in one order.
LEMMA SameOrder ==
  ASSUME NEW d, NEW e, d.owners \in Seq(Owners), e.owners \in Seq(Owners), NEW ids,
         OrderFor(d, ids) = OrderFor(e, ids), NEW i \in ids, NEW j \in ids
  PROVE  Earlier(d, i, j) <=> Earlier(e, i, j)
  <1>1. Kept(OrderFor(d, ids), d, ids, Len(d.owners))
        /\ Kept(OrderFor(e, ids), e, ids, Len(e.owners))
    BY OrderForFacts
  <1>2. Before(OrderFor(d, ids), i, j) <=> Earlier(d, i, j)
    <2>1. Before(OrderFor(d, ids), i, j)
            <=> \E k, l \in 1..Len(d.owners) : k < l /\ d.owners[k].id = i /\ d.owners[l].id = j
      BY <1>1 DEF Kept
    <2>2. DOMAIN d.owners = 1..Len(d.owners)
      BY OwnerFacts
    <2> QED BY <2>1, <2>2 DEF Earlier
  <1>3. Before(OrderFor(e, ids), i, j) <=> Earlier(e, i, j)
    <2>1. Before(OrderFor(e, ids), i, j)
            <=> \E k, l \in 1..Len(e.owners) : k < l /\ e.owners[k].id = i /\ e.owners[l].id = j
      BY <1>1 DEF Kept
    <2>2. DOMAIN e.owners = 1..Len(e.owners)
      BY OwnerFacts
    <2> QED BY <2>1, <2>2 DEF Earlier
  <1> QED BY <1>2, <1>3

-----------------------------------------------------------------------------
(* Fingerprints and decisions *)

LEMMA PrintFacts ==
  ASSUME NEW d, d.owners \in Seq(Owners), NEW i
  PROVE  /\ IdsOf(d) \subseteq Ids
         /\ i \in IdsOf(d) => PrintIn(d, i) \in Prints
         /\ i \notin IdsOf(d) => PrintIn(d, i) = NoOwner
  <1>1. IdsOf(d) \subseteq Ids
    BY OwnerFacts DEF IdsOf
  <1>2. ASSUME i \in IdsOf(d) PROVE PrintIn(d, i) \in Prints
    <2> DEFINE owners == {d.owners[k] : k \in DOMAIN d.owners}
               o == CHOOSE o \in owners : o.id = i
    <2>1. \E x \in owners : x.id = i
      BY <1>2 DEF IdsOf
    <2>2. o \in owners
      BY <2>1
    <2>3. o.print \in Prints
      BY <2>2, OwnerFacts
    <2> QED BY <1>2, <2>3 DEF PrintIn
  <1> QED BY <1>1, <1>2 DEF PrintIn

LEMMA InputFacts ==
  ASSUME in \in Inputs, NEW r \in Revisions
  PROVE  /\ in[r].owners \in Seq(Owners)
         /\ in[r].gaps \in Seq(Gaps)
         /\ Len(in[r].gaps) = Len(in[r].owners) + 1
  BY OwnerAssumption DEF Revisions

\* The whole lines of the gaps are a text for each gap.
LEMMA WholeLinesFacts ==
  ASSUME NEW gaps \in Seq(Gaps)
  PROVE  /\ WholeLines(gaps) \in Seq(Seq(Words)) /\ Len(WholeLines(gaps)) = Len(gaps)
         /\ \A k \in 1..Len(gaps) : WholeLines(gaps)[k] = gaps[k].lines
  <1>1. Len(gaps) \in Nat /\ DOMAIN gaps = 1..Len(gaps) /\ \A k \in 1..Len(gaps) : gaps[k] \in Gaps
    OBVIOUS
  <1>2. \A k \in 1..Len(gaps) : gaps[k].lines \in Seq(Words)
    BY <1>1 DEF Gaps
  <1>3. WholeLines(gaps) = [k \in 1..Len(gaps) |-> gaps[k].lines]
    BY <1>1 DEF WholeLines
  <1> DEFINE T == Seq(Words)
             n == Len(gaps)
             w == WholeLines(gaps)
  <1>4. w \in [1..n -> T] /\ n \in Nat
    BY <1>1, <1>2, <1>3
  <1>5. w \in Seq(T) /\ Len(w) = n
    <2> HIDE DEF w, n, T
    <2> QED BY <1>4
  <1> QED BY <1>3, <1>5

\* classify_owner is the three-way choice: what it keeps is the merged view
\* of the owner, what it deletes is gone in that view, and it reports a
\* conflict exactly for a clash.
LEMMA DecisionTable ==
  ASSUME NEW b \in Prints \cup {NoOwner}, NEW o \in Prints \cup {NoOwner},
         NEW t \in Prints \cup {NoOwner}, b # NoOwner \/ o # NoOwner \/ t # NoOwner
  PROVE  /\ Decide(b, o, t) \in {"ours", "theirs", "delete", "conflict"}
         /\ Decide(b, o, t) = "conflict" <=> Clash(b, o, t)
         /\ Decide(b, o, t) = "ours" => o # NoOwner /\ Merged(b, o, t) = o
         /\ Decide(b, o, t) = "theirs" => t # NoOwner /\ Merged(b, o, t) = t
         /\ Decide(b, o, t) = "delete" => Merged(b, o, t) = NoOwner
  <1> USE DEF Decide, Clash, Merged, Changed
  <1>1. CASE b # NoOwner /\ o # NoOwner /\ t # NoOwner
    BY <1>1
  <1>2. CASE b # NoOwner /\ o # NoOwner /\ t = NoOwner
    BY <1>2
  <1>3. CASE b # NoOwner /\ o = NoOwner /\ t # NoOwner
    BY <1>3
  <1>4. CASE b # NoOwner /\ o = NoOwner /\ t = NoOwner
    BY <1>4
  <1>5. CASE b = NoOwner /\ o # NoOwner /\ t # NoOwner
    BY <1>5
  <1>6. CASE b = NoOwner /\ o # NoOwner /\ t = NoOwner
    BY <1>6
  <1>7. CASE b = NoOwner /\ o = NoOwner /\ t # NoOwner
    BY <1>7
  <1> QED BY <1>1, <1>2, <1>3, <1>4, <1>5, <1>6, <1>7

\* The three views of an owner, and the tip it is merged to.
View(r, i) == PrintIn(in[r], i)
Clashes(i) == Clash(View("base", i), View("ours", i), View("theirs", i))
Result(i) == Merged(View("base", i), View("ours", i), View("theirs", i))

LEMMA DecisionFacts ==
  ASSUME in \in Inputs, NEW i
  PROVE  /\ AllIds \subseteq Ids
         /\ i \notin AllIds => ~Clashes(i) /\ Result(i) = NoOwner
         /\ i \in AllIds =>
              /\ Decision(i) \in {"ours", "theirs", "delete", "conflict"}
              /\ Decision(i) = "conflict" <=> Clashes(i)
              /\ Decision(i) = "ours" => i \in IdsOf(in.ours) /\ Result(i) = View("ours", i)
              /\ Decision(i) = "theirs" => i \in IdsOf(in.theirs) /\ Result(i) = View("theirs", i)
              /\ Decision(i) = "delete" => Result(i) = NoOwner
  <1>1. \A r \in Revisions : in[r].owners \in Seq(Owners)
    BY InputFacts
  <1>2. \A r \in Revisions :
          /\ IdsOf(in[r]) \subseteq Ids
          /\ i \in IdsOf(in[r]) => View(r, i) \in Prints
          /\ i \notin IdsOf(in[r]) => View(r, i) = NoOwner
    BY <1>1, PrintFacts DEF View
  <1>3. in.base = in["base"] /\ in.ours = in["ours"] /\ in.theirs = in["theirs"]
    OBVIOUS
  <1>4. /\ i \in IdsOf(in.base) <=> View("base", i) # NoOwner
        /\ i \in IdsOf(in.ours) <=> View("ours", i) # NoOwner
        /\ i \in IdsOf(in.theirs) <=> View("theirs", i) # NoOwner
        /\ \A r \in Revisions : View(r, i) \in Prints \cup {NoOwner}
    BY <1>2, <1>3, OwnerAssumption DEF Revisions
  <1>5. AllIds \subseteq Ids
    BY <1>2, <1>3 DEF AllIds, Revisions
  <1>6. i \notin AllIds => ~Clashes(i) /\ Result(i) = NoOwner
    BY <1>4 DEF AllIds, Clashes, Result, Clash, Merged, Changed
  <1>7. Decision(i) = Decide(View("base", i), View("ours", i), View("theirs", i))
    BY <1>3 DEF Decision, View
  <1> QED BY <1>4, <1>5, <1>6, <1>7, DecisionTable DEF AllIds, Clashes, Result, Revisions

-----------------------------------------------------------------------------
(* What the passes hand on *)

Clashing == {i \in AllIds : Decision(i) = "conflict"}
Decided == {i \in AllIds : Decision(i) \in {"ours", "theirs"}}

Planned == Clashing = {} /\ selected = [i \in Decided |-> Decision(i)]
Settled == Planned /\ PlanError = "none" /\ baseline = ChosenBaseline

\* The owners of the output, in order.
OutputIds == Order(in[baseline]) \o Added

\* q is s and then t.
Joins(q, s, t) ==
  /\ Len(q) = Len(s) + Len(t) /\ DOMAIN q = 1..(Len(s) + Len(t))
  /\ \A k \in 1..Len(s) : q[k] = s[k]
  /\ \A k \in 1..Len(t) : q[Len(s) + k] = t[k]
  /\ \A k \in 1..(Len(s) + Len(t)) :
       k \in 1..Len(s) \/ \E l \in 1..Len(t) : k = Len(s) + l /\ q[k] = t[l]

LEMMA ConcatFacts ==
  ASSUME NEW S, NEW s \in Seq(S), NEW t \in Seq(S)
  PROVE  s \o t \in Seq(S) /\ Joins(s \o t, s, t)
  <1>1. /\ s \o t \in Seq(S) /\ Len(s \o t) = Len(s) + Len(t)
        /\ Len(s) \in Nat /\ Len(t) \in Nat
    OBVIOUS
  <1>2. DOMAIN (s \o t) = 1..(Len(s) + Len(t))
    BY <1>1
  <1>3. \A k \in 1..Len(s) : (s \o t)[k] = s[k]
    OBVIOUS
  <1>4. \A k \in 1..Len(t) : (s \o t)[Len(s) + k] = t[k]
    OBVIOUS
  <1>5. ASSUME NEW k \in 1..(Len(s) + Len(t)), k \notin 1..Len(s)
        PROVE  \E l \in 1..Len(t) : k = Len(s) + l /\ (s \o t)[k] = t[l]
    <2>1. k - Len(s) \in 1..Len(t) /\ k = Len(s) + (k - Len(s))
      BY <1>1, <1>5
    <2> QED BY <2>1, <1>4
  <1> QED BY <1>1, <1>2, <1>3, <1>4, <1>5 DEF Joins

LEMMA OrderFacts ==
  ASSUME NEW d, d.owners \in Seq(Owners)
  PROVE  /\ Order(d) \in Seq(Ids) /\ Len(Order(d)) = Len(d.owners)
         /\ DOMAIN Order(d) = DOMAIN d.owners
         /\ \A k \in 1..Len(d.owners) : Order(d)[k] = d.owners[k].id
         /\ \A i : i \in IdsOf(d) <=> \E k \in 1..Len(d.owners) : Order(d)[k] = i
  <1>1. Len(d.owners) \in Nat /\ DOMAIN d.owners = 1..Len(d.owners)
        /\ \A k \in 1..Len(d.owners) : d.owners[k].id \in Ids
    BY OwnerFacts
  <1>2. Order(d) = [k \in 1..Len(d.owners) |-> d.owners[k].id]
    BY <1>1 DEF Order
  <1>3. Order(d) \in [1..Len(d.owners) -> Ids]
    BY <1>1, <1>2
  <1>4. Order(d) \in Seq(Ids) /\ Len(Order(d)) = Len(d.owners)
    BY <1>1, <1>3
  <1> QED BY <1>1, <1>2, <1>4 DEF IdsOf

\* A plan without error has a baseline, and the owners of the baseline and
\* the added ones are the selected ones.
LEMMA SettledFacts ==
  ASSUME in \in Inputs, Settled
  PROVE  /\ baseline \in {"ours", "theirs"}
         /\ SelectedIds = Decided /\ \A i \in SelectedIds : selected[i] = Decision(i)
         /\ Added \in Seq(Ids)
         /\ \A k \in DOMAIN Added : Added[k] \notin Stable
         /\ \A i : i \in SelectedIds
                     <=> i \in IdsOf(in[baseline]) \/ \E k \in DOMAIN Added : Added[k] = i
  <1>1. baseline = ChosenBaseline /\ baseline \in {"ours", "theirs"}
    BY DEF Settled, PlanError, ChosenBaseline
  <1>2. SelectedIds = Decided /\ \A i \in SelectedIds : selected[i] = Decision(i)
    BY DEF Settled, Planned, SelectedIds
  <1>3. in.base = in["base"] /\ in.ours = in["ours"] /\ in.theirs = in["theirs"]
    OBVIOUS
  <1>4. CASE ~CombinedAdditions
    <2>1. Added = <<>> /\ SelectedIds = IdsOf(in[baseline])
      BY <1>1, <1>3, <1>4 DEF Added, ChosenBaseline
    <2>2. Added \in Seq(Ids) /\ DOMAIN Added = {}
      BY <2>1
    <2> QED BY <1>1, <1>2, <2>1, <2>2
  <1>5. CASE CombinedAdditions
    <2> DEFINE new == {i \in SelectedIds \ IdsOf(in.ours) : selected[i] = "theirs"}
    <2>1. baseline = "ours" /\ IdsOf(in.ours) \subseteq SelectedIds
      BY <1>1, <1>5 DEF ChosenBaseline, CombinedAdditions
    <2>2. Added = OrderFor(in.theirs, new) /\ in.theirs.owners \in Seq(Owners)
      BY <1>3, <1>5, InputFacts DEF Added, Revisions
    <2>3. Kept(Added, in.theirs, new, Len(in.theirs.owners))
      BY <2>2, OrderForFacts
    <2>4. new = SelectedIds \ IdsOf(in.ours)
      BY <1>2, DecisionFacts DEF Decided
    <2>5. \A i \in new : i \in IdsOf(in.theirs)
      BY <1>2, DecisionFacts DEF Decided
    <2> HIDE DEF new
    <2>6. Added \in Seq(Ids)
          /\ \A i : (\E k \in DOMAIN Added : Added[k] = i) <=> i \in new
      BY <2>2, <2>3, <2>5, OwnerFacts DEF Kept, IdsOf
    <2>7. \A k \in DOMAIN Added : Added[k] \notin Stable
      BY <2>4, <2>6 DEF Stable
    <2> QED BY <1>1, <1>2, <1>3, <2>1, <2>4, <2>6, <2>7
  <1> QED BY <1>4, <1>5

LEMMA RenderedFacts ==
  ASSUME in \in Inputs, Settled
  PROVE  /\ Rendered.owners \in Seq([id : Ids, print : Prints \cup {NoOwner}])
         /\ Len(Rendered.owners) = Len(in[baseline].owners) + Len(Added)
         /\ \A k \in 1..Len(in[baseline].owners) : Rendered.owners[k].id = in[baseline].owners[k].id
         /\ \A k \in 1..Len(Rendered.owners) : Rendered.owners[k].id = OutputIds[k]
         /\ \A k \in 1..Len(Rendered.owners) : Rendered.owners[k] = Taken(OutputIds[k])
         /\ IdsOf(Rendered) = SelectedIds
  <1> DEFINE n == Len(in[baseline].owners)
  <1>1. baseline \in Revisions /\ in[baseline].owners \in Seq(Owners) /\ n \in Nat
    BY SettledFacts, InputFacts, OwnerFacts DEF Revisions
  <1>2. Order(in[baseline]) \in Seq(Ids) /\ Len(Order(in[baseline])) = n
        /\ (\A k \in 1..n : Order(in[baseline])[k] = in[baseline].owners[k].id)
        /\ \A i : i \in IdsOf(in[baseline]) <=> \E k \in 1..n : Order(in[baseline])[k] = i
    BY <1>1, OrderFacts
  <1>3. Added \in Seq(Ids) /\ Len(Added) \in Nat /\ DOMAIN Added = 1..Len(Added)
    BY SettledFacts
  <1>4. /\ OutputIds \in Seq(Ids) /\ Len(OutputIds) = n + Len(Added)
        /\ DOMAIN OutputIds = 1..(n + Len(Added))
        /\ \A k \in 1..n : OutputIds[k] = Order(in[baseline])[k]
        /\ \A k \in 1..Len(Added) : OutputIds[n + k] = Added[k]
        /\ \A k \in 1..(n + Len(Added)) :
             k \in 1..n \/ \E l \in 1..Len(Added) : k = n + l /\ OutputIds[k] = Added[l]
    <2> DEFINE s == Order(in[baseline])
    <2>1. s \in Seq(Ids) /\ Added \in Seq(Ids) /\ OutputIds = s \o Added /\ Len(s) = n
      BY <1>2, <1>3 DEF OutputIds
    <2> HIDE DEF s, n
    <2>2. OutputIds \in Seq(Ids) /\ Joins(OutputIds, s, Added)
      BY <2>1, ConcatFacts
    <2> QED BY <2>1, <2>2 DEF s, Joins
  <1>5. \A i : i \in SelectedIds <=> \E k \in DOMAIN OutputIds : OutputIds[k] = i
    <2> HIDE DEF n
    <2> TAKE i
    <2>1. i \in SelectedIds
            <=> i \in IdsOf(in[baseline]) \/ \E k \in DOMAIN Added : Added[k] = i
      BY SettledFacts
    <2>2. ASSUME i \in IdsOf(in[baseline]) PROVE \E k \in DOMAIN OutputIds : OutputIds[k] = i
      <3>1. PICK k \in 1..n : Order(in[baseline])[k] = i
        BY <1>2, <2>2
      <3>2. k \in DOMAIN OutputIds
        BY <1>1, <1>3, <1>4
      <3> QED BY <3>1, <3>2, <1>4
    <2>3. ASSUME NEW k \in DOMAIN Added, Added[k] = i
          PROVE  \E l \in DOMAIN OutputIds : OutputIds[l] = i
      <3>1. n + k \in DOMAIN OutputIds
        BY <1>1, <1>3, <1>4
      <3> QED BY <3>1, <2>3, <1>3, <1>4
    <2>4. ASSUME NEW k \in DOMAIN OutputIds, OutputIds[k] = i
          PROVE  i \in IdsOf(in[baseline]) \/ \E l \in DOMAIN Added : Added[l] = i
      BY <2>4, <1>2, <1>3, <1>4
    <2> QED BY <2>1, <2>2, <2>3, <2>4
  <1>6. Rendered.owners = [k \in 1..(n + Len(Added)) |-> Taken(OutputIds[k])]
    BY <1>4 DEF Rendered, Expected, OutputIds
  <1>7. \A k \in DOMAIN OutputIds :
          Taken(OutputIds[k]) \in [id : Ids, print : Prints \cup {NoOwner}]
    <2> TAKE k \in DOMAIN OutputIds
    <2> DEFINE i == OutputIds[k]
    <2>1. i \in SelectedIds /\ i \in Ids
      BY <1>4, <1>5
    <2>2. selected[i] \in Revisions
      BY <2>1, SettledFacts DEF Decided, Revisions
    <2>3. PrintIn(in[selected[i]], i) \in Prints \cup {NoOwner}
      BY <2>2, InputFacts, PrintFacts
    <2> HIDE DEF i
    <2> QED BY <2>1, <2>3 DEF Taken, i
  <1> DEFINE owners == Rendered.owners
             m == n + Len(Added)
             R == [id : Ids, print : Prints \cup {NoOwner}]
  <1>8. m \in Nat /\ DOMAIN OutputIds = 1..m
    BY <1>1, <1>3, <1>4
  <1> HIDE DEF m, n, R
  <1>9. owners \in [1..m -> R]
    BY <1>6, <1>7, <1>8 DEF m, R
  <1> HIDE DEF owners
  <1>10. owners \in Seq(R) /\ Len(owners) = m /\ DOMAIN owners = 1..m
    BY <1>8, <1>9
  <1>11. \A k \in 1..m : owners[k] = Taken(OutputIds[k]) /\ owners[k].id = OutputIds[k]
    BY <1>6, <1>8 DEF m, owners, Taken
  <1>12. \A k \in 1..n : owners[k].id = in[baseline].owners[k].id
    <2>1. \A k \in 1..n : k \in 1..m
      BY <1>1, <1>3 DEF m
    <2> QED BY <2>1, <1>2, <1>4, <1>11
  <1>13. IdsOf(Rendered) = SelectedIds
    <2>1. IdsOf(Rendered) = {owners[k].id : k \in 1..m}
      BY <1>10 DEF IdsOf, owners
    <2> QED BY <2>1, <1>5, <1>8, <1>11
  <1> QED BY <1>10, <1>11, <1>12, <1>13 DEF owners, m, n, R

\* The output has every owner as the tip that was chosen for it has it.
LEMMA RenderedPrints ==
  ASSUME in \in Inputs, Settled, NEW i
  PROVE  PrintIn(Rendered, i) = Result(i)
  <1> DEFINE owners == Rendered.owners
             all == {owners[k] : k \in DOMAIN owners}
  <1>1. /\ IdsOf(Rendered) = SelectedIds /\ SelectedIds = Decided
        /\ \A j \in SelectedIds : selected[j] = Decision(j)
    BY RenderedFacts, SettledFacts
  <1>2. CASE i \notin SelectedIds
    <2>1. Result(i) = NoOwner
      BY <1>1, <1>2, DecisionFacts DEF Settled, Planned, Clashing, Decided
    <2> QED BY <1>1, <1>2, <2>1 DEF PrintIn
  <1>3. CASE i \in SelectedIds
    <2>1. \E o \in all : o.id = i
      BY <1>1, <1>3 DEF IdsOf
    <2>2. \A o \in all : o = Taken(o.id)
      <3>1. DOMAIN owners = 1..Len(owners)
        BY RenderedFacts
      <3>2. \A k \in 1..Len(owners) : owners[k] = Taken(OutputIds[k]) /\ owners[k].id = OutputIds[k]
        BY RenderedFacts
      <3> HIDE DEF owners
      <3> QED BY <3>1, <3>2
    <2> HIDE DEF all
    <2>3. (CHOOSE o \in all : o.id = i) = Taken(i)
      <3> DEFINE c == CHOOSE o \in all : o.id = i
      <3>1. c \in all /\ c.id = i
        BY <2>1
      <3> HIDE DEF c
      <3>2. c = Taken(i)
        BY <3>1, <2>2
      <3> QED BY <3>2 DEF c
    <2>4. PrintIn(Rendered, i) = (CHOOSE o \in all : o.id = i).print
      BY <1>1, <1>3 DEF PrintIn, all
    <2>5. PrintIn(Rendered, i) = View(selected[i], i)
      <3>1. PrintIn(Rendered, i) = Taken(i).print
        BY <2>3, <2>4
      <3>2. Taken(i).print = PrintIn(in[selected[i]], i)
        BY DEF Taken
      <3> QED BY <3>1, <3>2 DEF View
    <2>6. Result(i) = View(selected[i], i)
      BY <1>1, <1>3, DecisionFacts DEF Decided
    <2> QED BY <2>5, <2>6
  <1> QED BY <1>2, <1>3

\* The output has the gaps of the baseline, of the last one the lines and the
\* tail, and then one gap without lines after each added owner.
LEMMA RenderedGaps ==
  ASSUME in \in Inputs, Settled
  PROVE  LET n == Len(in[baseline].gaps)
         IN  /\ n \in Nat /\ Len(Added) \in Nat
             /\ Len(Rendered.gaps) = n + Len(Added)
             /\ DOMAIN Rendered.gaps = 1..(n + Len(Added))
             /\ \A k \in 1..n : Rendered.gaps[k].lines = in[baseline].gaps[k].lines
  <1> DEFINE gaps == in[baseline].gaps
             n == Len(gaps)
             kept == [gaps EXCEPT ![n].head = AddedHead(1)]
             more == [k \in DOMAIN Added |-> AddedGap(k)]
             S == {kept[k] : k \in 1..n} \cup {more[k] : k \in DOMAIN Added}
  <1>1. baseline \in Revisions /\ Added \in Seq(Ids)
    BY SettledFacts DEF Revisions
  <1>2. Len(Added) \in Nat /\ DOMAIN Added = 1..Len(Added)
    BY <1>1
  <1>3. gaps \in Seq(Gaps)
    BY <1>1, InputFacts
  <1>4. n \in Nat /\ DOMAIN gaps = 1..n /\ \A k \in 1..n : gaps[k] \in Gaps
    <2> HIDE DEF gaps
    <2> QED BY <1>3
  <1>5. Rendered.gaps = kept \o more
    BY DEF Rendered
  <1> HIDE DEF gaps
  <1>6. kept = [k \in 1..n |-> kept[k]] /\ more = [k \in 1..Len(Added) |-> more[k]]
    BY <1>2, <1>4
  <1>7. \A k \in 1..n : kept[k].lines = gaps[k].lines
    BY <1>4 DEF Gaps
  <1> HIDE DEF kept, more, n
  <1>8. kept \in [1..n -> S] /\ more \in [1..Len(Added) -> S]
    BY <1>2, <1>6
  <1> HIDE DEF S
  <1>9. kept \in Seq(S) /\ Len(kept) = n /\ more \in Seq(S) /\ Len(more) = Len(Added)
    BY <1>2, <1>4, <1>8
  <1>10. Joins(kept \o more, kept, more)
    BY <1>9, ConcatFacts
  <1>11. Len(kept \o more) = n + Len(Added)
    BY <1>9, <1>10 DEF Joins
  <1>12. \A k \in 1..n : (kept \o more)[k].lines = gaps[k].lines
    BY <1>7, <1>9, <1>10 DEF Joins
  <1>13. DOMAIN (kept \o more) = 1..(n + Len(Added))
    BY <1>9, <1>10 DEF Joins
  <1> QED BY <1>2, <1>4, <1>5, <1>11, <1>12, <1>13 DEF n, gaps

\* The layout is a matter of the order of the owners and of the gaps.
LEMMA LayoutDepends ==
  ASSUME NEW d, NEW e, NEW ids, Order(d) = Order(e), d.gaps = e.gaps
  PROVE  LayoutFor(d, ids) = LayoutFor(e, ids)
  BY DEF LayoutFor

LEMMA RemovalShortens ==
  ASSUME NEW S, NEW s \in Seq(S), NEW k \in DOMAIN s
  PROVE  RemoveAt(s, k) # s
  <1>1. Len(s) \in Nat /\ k \in 1..Len(s)
    OBVIOUS
  <1>2. SubSeq(s, 1, k - 1) \in Seq(S) /\ Len(SubSeq(s, 1, k - 1)) = k - 1
    BY <1>1
  <1>3. SubSeq(s, k + 1, Len(s)) \in Seq(S) /\ Len(SubSeq(s, k + 1, Len(s))) = Len(s) - k
    BY <1>1
  <1>4. Len(RemoveAt(s, k)) = Len(s) - 1
    BY <1>1, <1>2, <1>3, SMTT(30) DEF RemoveAt
  <1> QED BY <1>1, <1>4

\* A reading that is accepted has the owners and the gaps of the output.
LEMMA AcceptedReading ==
  ASSUME in \in Inputs, Settled, output = Rendered,
         NEW d \in {output} \cup Misread(output), Accepted(d)
  PROVE  d.owners = output.owners /\ d.gaps = output.gaps
  <1>1. d.owners = output.owners
    BY DEF Accepted, Rendered
  <1>2. output = [owners |-> output.owners, gaps |-> output.gaps, flaw |-> output.flaw]
    BY DEF Rendered
  <1>3. CASE d = output
    BY <1>3
  <1>4. CASE \E f \in {"invalid", "shared"} : d = [output EXCEPT !.flaw = f]
    BY <1>2, <1>4
  <1>5. CASE \E k \in DOMAIN output.owners, p \in Prints : d = [output EXCEPT !.owners[k].print = p]
    BY <1>1, <1>2, <1>5
  <1>6. ASSUME NEW k \in DOMAIN output.owners, d = Engulfed(output, k)
        PROVE  FALSE
    <2>1. d.owners = RemoveAt(output.owners, k)
      BY <1>2, <1>6 DEF Engulfed
    <2>2. output.owners \in Seq([id : Ids, print : Prints \cup {NoOwner}])
      BY RenderedFacts
    <2> QED BY <1>1, <2>1, <2>2, RemovalShortens
  <1> QED BY <1>1, <1>3, <1>4, <1>5, <1>6 DEF Misread

\* Around the owners that all three documents have, the output is laid out
\* as its baseline, and in every gap where the owners are the same.
LayoutKept ==
  /\ LayoutFor(output, Stable) = LayoutFor(in[baseline], Stable)
  /\ MembershipChanged \/ output.gaps = in[baseline].gaps

LEMMA AcceptedLayout ==
  ASSUME in \in Inputs, Settled, output = Rendered,
         NEW d \in {output} \cup Misread(output), Accepted(d)
  PROVE  LayoutKept
  <1>1. d.owners = output.owners /\ d.gaps = output.gaps
    BY AcceptedReading
  <1>2. CASE MembershipChanged
    <2>1. LayoutFor(d, Stable) = LayoutFor(in[baseline], Stable)
      BY <1>2 DEF Accepted
    <2>2. LayoutFor(d, Stable) = LayoutFor(output, Stable)
      BY <1>1, LayoutDepends DEF Order
    <2> QED BY <1>2, <2>1, <2>2 DEF LayoutKept
  <1>3. CASE ~MembershipChanged
    <2>1. output.gaps = in[baseline].gaps
      BY <1>1, <1>3 DEF Accepted
    <2> DEFINE n == Len(in[baseline].owners)
    <2>2. baseline \in Revisions
      BY SettledFacts DEF Revisions
    <2>3. in[baseline].owners \in Seq(Owners) /\ n \in Nat
      BY <2>2, InputFacts, OwnerFacts
    <2>4. Len(Added) = 0
      <3>1. Len(output.gaps) = Len(in[baseline].gaps)
        BY <2>1
      <3> QED BY <3>1, RenderedGaps
    <2>5. Len(output.owners) = n /\ DOMAIN output.owners = 1..n
          /\ \A k \in 1..n : output.owners[k].id = in[baseline].owners[k].id
      BY <2>3, <2>4, RenderedFacts
    <2>6. DOMAIN in[baseline].owners = 1..n
      BY <2>3, OwnerFacts
    <2>7. Order(output) = Order(in[baseline])
      BY <2>5, <2>6 DEF Order
    <2> QED BY <2>1, <2>5, <2>7, LayoutDepends DEF LayoutKept
  <1> QED BY <1>2, <1>3

-----------------------------------------------------------------------------
(* The text of a layout *)

LEMMA JoinedText ==
  ASSUME NEW S, NEW s \in Seq(S), NEW t \in Seq(S)
  PROVE  s \o t \in Seq(S) /\ ToSet(s \o t) = ToSet(s) \cup ToSet(t)
  <1>1. s \o t \in Seq(S) /\ Joins(s \o t, s, t)
    BY ConcatFacts
  <1>2. Len(s) \in Nat /\ Len(t) \in Nat /\ DOMAIN s = 1..Len(s) /\ DOMAIN t = 1..Len(t)
    OBVIOUS
  <1>3. DOMAIN (s \o t) = 1..(Len(s) + Len(t))
    BY <1>1 DEF Joins
  <1> DEFINE q == s \o t
  <1> HIDE DEF q
  <1>4. Joins(q, s, t) /\ DOMAIN q = 1..(Len(s) + Len(t))
    BY <1>1, <1>3 DEF q
  <1>5. ASSUME NEW k \in DOMAIN q PROVE q[k] \in ToSet(s) \cup ToSet(t)
    <2>1. k \in 1..(Len(s) + Len(t))
      BY <1>4
    <2>2. CASE k \in 1..Len(s)
      BY <1>2, <1>4, <2>2 DEF Joins, ToSet
    <2>3. CASE \E l \in 1..Len(t) : k = Len(s) + l /\ q[k] = t[l]
      BY <1>2, <2>3 DEF ToSet
    <2> QED BY <1>4, <2>1, <2>2, <2>3 DEF Joins
  <1>6. ASSUME NEW k \in DOMAIN s PROVE s[k] \in ToSet(q)
    <2>1. k \in DOMAIN q /\ q[k] = s[k]
      BY <1>2, <1>4 DEF Joins
    <2> QED BY <2>1 DEF ToSet
  <1>7. ASSUME NEW k \in DOMAIN t PROVE t[k] \in ToSet(q)
    <2>1. Len(s) + k \in DOMAIN q /\ q[Len(s) + k] = t[k]
      BY <1>2, <1>4 DEF Joins
    <2> QED BY <2>1 DEF ToSet
  <1>8. ToSet(q) = ToSet(s) \cup ToSet(t)
    <2>1. ToSet(q) \subseteq ToSet(s) \cup ToSet(t)
      BY <1>5 DEF ToSet
    <2>2. ToSet(s) \subseteq ToSet(q) /\ ToSet(t) \subseteq ToSet(q)
      BY <1>6, <1>7 DEF ToSet
    <2> QED BY <2>1, <2>2
  <1> QED BY <1>1, <1>8 DEF q

LEMMA AppendedText ==
  ASSUME NEW S, NEW texts \in Seq(S), NEW x \in S
  PROVE  Append(texts, x) \in Seq(S) /\ Texts(Append(texts, x)) = Texts(texts) \cup ToSet(x)
  <1> DEFINE q == Append(texts, x)
             n == Len(texts)
  <1>1. q \in Seq(S) /\ n \in Nat /\ DOMAIN texts = 1..n /\ DOMAIN q = 1..(n + 1)
    OBVIOUS
  <1>2. q[n + 1] = x /\ \A k \in 1..n : q[k] = texts[k]
    OBVIOUS
  <1> HIDE DEF q, n
  <1>3. \A k \in DOMAIN q : k = n + 1 \/ (k \in DOMAIN texts /\ q[k] = texts[k])
    BY <1>1, <1>2
  <1>4. n + 1 \in DOMAIN q /\ \A k \in DOMAIN texts : k \in DOMAIN q /\ q[k] = texts[k]
    BY <1>1, <1>2
  <1>5. Texts(q) \subseteq Texts(texts) \cup ToSet(x)
    BY <1>2, <1>3 DEF Texts
  <1>6. Texts(texts) \cup ToSet(x) \subseteq Texts(q)
    BY <1>2, <1>4 DEF Texts
  <1> QED BY <1>1, <1>5, <1>6 DEF q

\* One owner's worth of layout_segments_for_ids, and its run over the first n.
Started == [segments |-> <<>>, segment |-> <<>>, trailing |-> FALSE]
Passed(before, i, gap, ids) ==
  LET text == before.segment \o gap
  IN  IF i \in ids
      THEN [segments |-> Append(before.segments, text), segment |-> <<>>, trailing |-> FALSE]
      ELSE [segments |-> before.segments, segment |-> text,
            trailing |-> before.segments # <<>>]
Scans(f, order, gaps, ids, n) ==
  f = [k \in 0..n |-> IF k = 0 THEN Started ELSE Passed(f[k - 1], order[k], gaps[k], ids)]

LEMMA ScanExists ==
  ASSUME NEW order, NEW gaps, NEW ids
  PROVE  \A n \in Nat : \E f : Scans(f, order, gaps, ids, n)
  <1> DEFINE T == {n \in Nat : \E f : Scans(f, order, gaps, ids, n)}
  <1>1. 0 \in T
    <2>1. Scans([k \in 0..0 |-> Started], order, gaps, ids, 0)
      BY DEF Scans
    <2> QED BY <2>1
  <1>2. ASSUME NEW n \in T PROVE n + 1 \in T
    <2>1. PICK f : Scans(f, order, gaps, ids, n)
      BY <1>2
    <2> DEFINE g == [k \in 0..(n + 1) |->
                       IF k = n + 1 THEN Passed(f[n], order[n + 1], gaps[n + 1], ids) ELSE f[k]]
    <2>2. \A k \in 0..n : f[k] = (IF k = 0 THEN Started ELSE Passed(f[k - 1], order[k], gaps[k], ids))
      BY <2>1 DEF Scans
    <2>3. \A k \in 0..(n + 1) : g[k] = (IF k = 0 THEN Started ELSE Passed(g[k - 1], order[k], gaps[k], ids))
      <3> TAKE k \in 0..(n + 1)
      <3>1. CASE k = n + 1
        <4>1. g[k] = Passed(f[n], order[n + 1], gaps[n + 1], ids) /\ g[k - 1] = f[n] /\ k # 0
          BY <3>1
        <4> QED BY <4>1, <3>1
      <3>2. CASE k # n + 1
        <4>1. k \in 0..n /\ g[k] = f[k] /\ (k # 0 => g[k - 1] = f[k - 1])
          BY <3>2
        <4> HIDE DEF g
        <4> QED BY <4>1, <2>2
      <3> QED BY <3>1, <3>2
    <2>4. g = [k \in 0..(n + 1) |-> g[k]]
      OBVIOUS
    <2> HIDE DEF g
    <2>5. Scans(g, order, gaps, ids, n + 1)
      BY <2>3, <2>4 DEF Scans
    <2> QED BY <2>5
  <1>3. T = Nat
    <2> HIDE DEF T
    <2>1. T \in SUBSET Nat
      BY DEF T
    <2> QED BY <1>1, <1>2, <2>1, NaturalInduction
  <1> QED BY <1>3

ScanRuns(f, order, gaps, ids, n) ==
  /\ f[0] = Started
  /\ \A k \in 0..n : k # 0 => f[k] = Passed(f[k - 1], order[k], gaps[k], ids)

LEMMA ScanValues ==
  ASSUME NEW order, NEW gaps, NEW ids, NEW n \in Nat, NEW f, Scans(f, order, gaps, ids, n)
  PROVE  ScanRuns(f, order, gaps, ids, n)
  <1>1. \A k \in 0..n : f[k] = IF k = 0 THEN Started ELSE Passed(f[k - 1], order[k], gaps[k], ids)
    BY Zenon DEF Scans
  <1>2. 0 \in 0..n
    OBVIOUS
  <1> QED BY <1>1, <1>2 DEF ScanRuns

\* After k owners the text passed is in the segments or still being gathered,
\* and in the segments where an owner of ids has followed it; no other text is.
Gathers(c, order, gaps, ids, k) ==
  /\ c.segments \in Seq(Seq(Words)) /\ c.segment \in Seq(Words)
  /\ \A j \in 1..k : ToSet(gaps[j]) \subseteq Texts(c.segments) \cup ToSet(c.segment)
  /\ \A j \in 1..k : \A l \in j..k : order[l] \in ids => ToSet(gaps[j]) \subseteq Texts(c.segments)
  /\ Texts(c.segments) \cup ToSet(c.segment) \subseteq Texts(gaps)

LEMMA GathersStep ==
  ASSUME NEW gaps \in Seq(Seq(Words)), NEW order, NEW ids, NEW c, NEW k \in Nat,
         k + 1 \in DOMAIN gaps, Gathers(c, order, gaps, ids, k)
  PROVE  Gathers(Passed(c, order[k + 1], gaps[k + 1], ids), order, gaps, ids, k + 1)
  <1> DEFINE text == c.segment \o gaps[k + 1]
             e == Passed(c, order[k + 1], gaps[k + 1], ids)
  <1>1. gaps[k + 1] \in Seq(Words) /\ c.segments \in Seq(Seq(Words)) /\ c.segment \in Seq(Words)
    BY DEF Gathers
  <1>2. text \in Seq(Words) /\ ToSet(text) = ToSet(c.segment) \cup ToSet(gaps[k + 1])
    BY <1>1, JoinedText
  <1>3. ToSet(gaps[k + 1]) \subseteq Texts(gaps)
    BY DEF Texts
  <1>4. Texts(c.segments) \cup ToSet(c.segment) \subseteq Texts(gaps)
    BY DEF Gathers
  <1>5. \A j \in 1..k : ToSet(gaps[j]) \subseteq Texts(c.segments) \cup ToSet(c.segment)
    BY DEF Gathers
  <1>6. \A j \in 1..k : \A l \in j..k : order[l] \in ids => ToSet(gaps[j]) \subseteq Texts(c.segments)
    BY DEF Gathers
  <1>7. \A j \in 1..(k + 1) : j \in 1..k \/ j = k + 1
    OBVIOUS
  <1>8. CASE order[k + 1] \in ids
    <2>1. e.segments = Append(c.segments, text) /\ e.segment = <<>>
      BY <1>8 DEF Passed
    <2>2. e.segments \in Seq(Seq(Words)) /\ Texts(e.segments) = Texts(c.segments) \cup ToSet(text)
      <3> HIDE DEF text, e
      <3> QED BY <1>1, <1>2, <2>1, AppendedText
    <2>3. e.segment \in Seq(Words) /\ ToSet(e.segment) = {}
      <3> HIDE DEF e
      <3> QED BY <2>1 DEF ToSet
    <2> HIDE DEF e, text
    <2>4. \A j \in 1..(k + 1) : ToSet(gaps[j]) \subseteq Texts(e.segments)
      BY <1>2, <1>5, <1>7, <2>2
    <2>5. Texts(e.segments) \cup ToSet(e.segment) \subseteq Texts(gaps)
      BY <1>2, <1>3, <1>4, <2>2, <2>3
    <2>6. Gathers(e, order, gaps, ids, k + 1)
      BY <2>2, <2>3, <2>4, <2>5 DEF Gathers
    <2> QED BY <2>6 DEF e
  <1>9. CASE order[k + 1] \notin ids
    <2>1. e.segments = c.segments /\ e.segment = text
      BY <1>9 DEF Passed
    <2> HIDE DEF e, text
    <2>2. \A j \in 1..(k + 1) : ToSet(gaps[j]) \subseteq Texts(e.segments) \cup ToSet(e.segment)
      BY <1>2, <1>5, <1>7, <2>1
    <2>3. ASSUME NEW j \in 1..(k + 1), NEW l \in j..(k + 1), order[l] \in ids
          PROVE  ToSet(gaps[j]) \subseteq Texts(e.segments)
      <3>1. l # k + 1
        BY <1>9, <2>3
      <3>2. j \in 1..k /\ l \in j..k
        BY <3>1
      <3> QED BY <1>6, <2>1, <2>3, <3>2
    <2>4. Texts(e.segments) \cup ToSet(e.segment) \subseteq Texts(gaps)
      BY <1>2, <1>3, <1>4, <2>1
    <2>5. Gathers(e, order, gaps, ids, k + 1)
      BY <1>1, <1>2, <2>1, <2>2, <2>3, <2>4 DEF Gathers
    <2> QED BY <2>5 DEF e
  <1> QED BY <1>8, <1>9

\* A layout is made of the gaps, and has those before an owner of ids and the
\* last one.
LEMMA LayoutText ==
  ASSUME NEW gaps \in Seq(Seq(Words)), NEW S, NEW order \in Seq(S), NEW ids,
         Len(gaps) = Len(order) + 1
  PROVE  LET q == LayoutSegments(order, gaps, ids)
         IN  /\ Texts(q) \subseteq Texts(gaps)
             /\ \A j \in 1..Len(gaps) :
                  (j = Len(gaps) \/ \E l \in j..Len(order) : order[l] \in ids)
                    => ToSet(gaps[j]) \subseteq Texts(q)
  <1> DEFINE n == Len(order)
             scan == CHOOSE f : Scans(f, order, gaps, ids, n)
             q == LayoutSegments(order, gaps, ids)
             last == IF scan[n].trailing THEN gaps[n + 1] ELSE scan[n].segment \o gaps[n + 1]
  <1>1. n \in Nat /\ Len(gaps) = n + 1 /\ DOMAIN gaps = 1..(n + 1)
    OBVIOUS
  <1>2. q = Append(scan[n].segments, last)
    BY DEF LayoutSegments, Scans, Started, Passed
  <1>3. Scans(scan, order, gaps, ids, n)
    <2>1. \E f : Scans(f, order, gaps, ids, n)
      BY <1>1, ScanExists
    <2> QED BY <2>1
  <1> HIDE DEF n, scan, q, last
  <1>4. scan[0] = Started
        /\ \A k \in 0..n : k # 0 => scan[k] = Passed(scan[k - 1], order[k], gaps[k], ids)
    <2>1. n \in Nat
      BY <1>1
    <2>2. ScanRuns(scan, order, gaps, ids, n)
      BY <1>3, <2>1, ScanValues
    <2> QED BY <2>2 DEF ScanRuns
  <1> DEFINE T == {k \in Nat : k \in 0..n => Gathers(scan[k], order, gaps, ids, k)}
  <1>5. 0 \in T
    <2>1. Started.segments = <<>> /\ Started.segment = <<>>
      BY DEF Started
    <2>2. Texts(<<>>) = {} /\ ToSet(<<>>) = {}
      BY DEF Texts, ToSet
    <2>3. <<>> \in Seq(Seq(Words)) /\ <<>> \in Seq(Words)
      OBVIOUS
    <2>4. Gathers(Started, order, gaps, ids, 0)
      BY <2>1, <2>2, <2>3 DEF Gathers
    <2> QED BY <1>4, <2>4
  <1>6. ASSUME NEW k \in T PROVE k + 1 \in T
    <2> SUFFICES ASSUME k + 1 \in 0..n PROVE Gathers(scan[k + 1], order, gaps, ids, k + 1)
      OBVIOUS
    <2>1. k \in 0..n /\ k + 1 \in DOMAIN gaps
      BY <1>1
    <2>2. Gathers(scan[k], order, gaps, ids, k)
      BY <1>6, <2>1
    <2>3. scan[k + 1] = Passed(scan[k], order[k + 1], gaps[k + 1], ids)
      <3>1. k + 1 # 0 /\ (k + 1) - 1 = k
        OBVIOUS
      <3> QED BY <1>4, <3>1
    <2> QED BY <2>1, <2>2, <2>3, GathersStep
  <1>7. Gathers(scan[n], order, gaps, ids, n)
    <2>1. T = Nat
      <3> HIDE DEF T
      <3>1. T \in SUBSET Nat
        BY DEF T
      <3> QED BY <1>5, <1>6, <3>1, NaturalInduction
    <2>2. n \in T
      <3> HIDE DEF T
      <3> QED BY <1>1, <2>1
    <2>3. n \in 0..n
      BY <1>1
    <2> QED BY <2>2, <2>3
  <1> DEFINE c == scan[n]
  <1> HIDE DEF c, T
  <1>8. c.segments \in Seq(Seq(Words)) /\ c.segment \in Seq(Words) /\ gaps[n + 1] \in Seq(Words)
    BY <1>1, <1>7 DEF Gathers, c
  <1>9. last \in Seq(Words) /\ ToSet(last) \subseteq ToSet(c.segment) \cup ToSet(gaps[n + 1])
        /\ ToSet(gaps[n + 1]) \subseteq ToSet(last)
    BY <1>8, JoinedText DEF c, last
  <1>10. ToSet(gaps[n + 1]) \subseteq Texts(gaps)
    BY <1>1 DEF Texts
  <1>11. Texts(q) = Texts(c.segments) \cup ToSet(last)
    <2> HIDE DEF last
    <2> QED BY <1>2, <1>8, <1>9, AppendedText DEF c
  <1> HIDE DEF last
  <1>12. Texts(q) \subseteq Texts(gaps)
    BY <1>7, <1>9, <1>10, <1>11 DEF Gathers, c
  <1>13. ASSUME NEW j \in 1..Len(gaps), j = Len(gaps) PROVE ToSet(gaps[j]) \subseteq Texts(q)
    BY <1>1, <1>9, <1>11, <1>13
  <1>14. ASSUME NEW j \in 1..Len(gaps), NEW l \in j..n, order[l] \in ids
         PROVE  ToSet(gaps[j]) \subseteq Texts(q)
    <2>1. j \in 1..n
      BY <1>1
    <2>2. ToSet(gaps[j]) \subseteq Texts(c.segments)
      BY <1>7, <1>14, <2>1 DEF Gathers, c
    <2> QED BY <1>11, <2>2
  <1> QED BY <1>12, <1>13, <1>14 DEF q, n

-----------------------------------------------------------------------------
(* The invariant *)

Verified == Settled /\ output = Rendered /\ LayoutKept
Whole == WholeSource # "none" /\ output = in[WholeSource]

\* How the merge may have ended.
Ended ==
  /\ outcome.kind = "clean" => Whole \/ Verified
  /\ outcome.kind = "conflict" => outcome.ids = Clashing /\ Clashing # {}

OwnerInv ==
  /\ in \in Inputs
  /\ TypeOK
  /\ pc # "done" => outcome.kind = "running"
  /\ pc \in {"plan", "render", "verify"} => Planned
  /\ pc \in {"render", "verify"} => Settled
  /\ pc = "verify" => output = Rendered
  /\ pc = "done" => Ended

LEMMA PlannedStays == ASSUME UNCHANGED <<in, selected>> PROVE Planned <=> Planned'
  BY DEF Planned, Clashing, Decided, AllIds, Decision

LEMMA SettledStays == ASSUME UNCHANGED <<in, selected, baseline>> PROVE Settled <=> Settled'
  <1>1. (Planned <=> Planned') /\ SelectedIds' = SelectedIds /\ Stable' = Stable
        /\ (MembershipChanged <=> MembershipChanged')
    BY PlannedStays DEF SelectedIds, Stable, MembershipChanged
  <1>2. ChosenBaseline' = ChosenBaseline /\ (OrdersAgree <=> OrdersAgree')
        /\ (OrderChanged <=> OrderChanged')
    BY <1>1 DEF ChosenBaseline, CombinedAdditions, OrdersAgree, OrderChanged
  <1>3. LayoutMatches <=> LayoutMatches'
    BY <1>1, <1>2 DEF LayoutMatches
  <1>4. PlanError' = PlanError
    BY <1>1, <1>2, <1>3 DEF PlanError, Source
  <1> QED BY <1>1, <1>2, <1>4 DEF Settled

LEMMA RenderedStays == ASSUME UNCHANGED <<in, selected, baseline>> PROVE Rendered' = Rendered
  <1>1. SelectedIds' = SelectedIds
    BY DEF SelectedIds
  <1>2. Added' = Added
    BY <1>1 DEF Added, CombinedAdditions
  <1>3. Expected' = Expected
    BY <1>2 DEF Expected, Taken
  <1>4. \A k : AddedHead(k)' = AddedHead(k)
    BY <1>2 DEF AddedHead, HeadOf
  <1>5. \A k : AddedGap(k)' = AddedGap(k)
    BY <1>2, <1>4 DEF AddedGap, TailOf
  <1> QED BY <1>2, <1>3, <1>4, <1>5 DEF Rendered

\* What the merge writes is a document.
WellFormed(d) == IdsOf(d) \subseteq Ids /\ Len(d.gaps) = Len(d.owners) + 1

LEMMA NothingWellFormed == WellFormed(Nothing)
  BY DEF WellFormed, Nothing, IdsOf

LEMMA InputWellFormed == ASSUME in \in Inputs, NEW r \in Revisions PROVE WellFormed(in[r])
  BY InputFacts, PrintFacts DEF WellFormed

LEMMA RenderedWellFormed == ASSUME in \in Inputs, Settled PROVE WellFormed(Rendered)
  <1>1. baseline \in Revisions
    BY SettledFacts DEF Revisions
  <1>2. /\ Len(in[baseline].gaps) = Len(in[baseline].owners) + 1
        /\ Len(in[baseline].owners) \in Nat
    BY <1>1, InputFacts, OwnerFacts
  <1>3. Len(Rendered.gaps) = (Len(in[baseline].owners) + 1) + Len(Added) /\ Len(Added) \in Nat
    BY <1>2, RenderedGaps
  <1>4. Len(Rendered.owners) = Len(in[baseline].owners) + Len(Added)
    BY RenderedFacts
  <1>8. Len(Rendered.gaps) = Len(Rendered.owners) + 1
    BY <1>2, <1>3, <1>4
  <1>9. IdsOf(Rendered) \subseteq Ids
    <2>1. IdsOf(Rendered) = Decided
      BY RenderedFacts, SettledFacts
    <2>2. AllIds \subseteq Ids
      BY DecisionFacts
    <2> QED BY <2>1, <2>2 DEF Decided
  <1> QED BY <1>8, <1>9 DEF WellFormed

\* The type invariant, but for the control.
Typed ==
  /\ SelectedIds \subseteq Ids /\ \A i \in SelectedIds : selected[i] \in {"ours", "theirs"}
  /\ baseline \in {"none", "ours", "theirs"}
  /\ WellFormed(output)

LEMMA TypedTypeOK ==
  ASSUME in \in Inputs, Typed, outcome.kind \in {"running", "clean", "conflict", "error"},
         pc \in {"validate", "whole", "classify", "plan", "render", "verify", "done"}
  PROVE  TypeOK
  <1>1. \A r \in {"base", "ours", "theirs"} : Len(in[r].gaps) = Len(in[r].owners) + 1
    BY InputFacts DEF Revisions
  <1> QED BY <1>1 DEF Typed, TypeOK, WellFormed

LEMMA InitInv == ASSUME Init PROVE OwnerInv
  <1>1. in \in Inputs /\ pc = "validate" /\ outcome.kind = "running"
    BY DEF Init
  <1>2. Typed
    BY NothingWellFormed DEF Init, Typed, SelectedIds
  <1> QED BY <1>1, <1>2, TypedTypeOK DEF OwnerInv

\* A step that returns keeps the inputs and the types, and ends as it may.
LEMMA ReturnInv ==
  ASSUME OwnerInv, in' = in, Typed', NEW o, Return(o),
         o.kind \in {"clean", "conflict", "error"}, Ended'
  PROVE  OwnerInv'
  <1>1. pc' = "done" /\ in' \in Inputs /\ outcome'.kind \in {"running", "clean", "conflict", "error"}
    BY DEF Return, OwnerInv
  <1>2. TypeOK'
    BY <1>1 DEF OwnerInv, Typed, WellFormed, TypeOK
  <1> QED BY <1>1, <1>2 DEF OwnerInv

\* The same for a step that goes on.
LEMMA GoesOnInv ==
  ASSUME OwnerInv, in' = in, Typed', UNCHANGED outcome, pc # "done",
         pc' \in {"whole", "classify", "plan", "render", "verify"},
         pc' \in {"plan", "render", "verify"} => Planned',
         pc' \in {"render", "verify"} => Settled',
         pc' = "verify" => output' = Rendered'
  PROVE  OwnerInv'
  <1>1. TypeOK'
    BY DEF OwnerInv, Typed, WellFormed, TypeOK
  <1> QED BY <1>1 DEF OwnerInv

\* Steps that leave the selection, the baseline and the output alone.
LEMMA TypedStays ==
  ASSUME OwnerInv, UNCHANGED <<selected, baseline, output>>
  PROVE  Typed /\ Typed'
  BY DEF OwnerInv, TypeOK, Typed, WellFormed, SelectedIds

LEMMA ValidateInv == ASSUME OwnerInv, Validate PROVE OwnerInv'
  <1>1. Typed' /\ in' = in
    BY TypedStays DEF Validate
  <1>2. CASE Return(Refused("ambiguity"))
    BY <1>1, <1>2, ReturnInv DEF Return, Refused, Ended
  <1>3. CASE pc' = "whole" /\ UNCHANGED outcome
    BY <1>1, <1>3, GoesOnInv DEF Validate
  <1> QED BY <1>2, <1>3 DEF Validate

LEMMA SelectWholeInv == ASSUME OwnerInv, SelectWhole PROVE OwnerInv'
  <1>1. in' = in /\ in \in Inputs /\ UNCHANGED <<selected, baseline>> /\ pc = "whole"
    BY DEF SelectWhole, OwnerInv
  <1>2. CASE WholeSource = "none"
    <2>1. Typed' /\ pc' = "classify" /\ UNCHANGED outcome
      BY <1>2, TypedStays DEF SelectWhole
    <2> QED BY <1>1, <2>1, GoesOnInv
  <1>3. CASE WholeSource # "none"
    <2>1. Return(Clean) /\ output' = in[WholeSource] /\ WholeSource' = WholeSource
      BY <1>1, <1>3 DEF SelectWhole, WholeSource
    <2>2. WholeSource \in Revisions
      BY <1>3 DEF WholeSource, Revisions
    <2>3. WellFormed(output')
      BY <1>1, <2>1, <2>2, InputWellFormed
    <2>4. Typed'
      BY <1>1, <2>3 DEF Typed, WellFormed, SelectedIds, OwnerInv, TypeOK
    <2>5. Ended'
      BY <1>1, <1>3, <2>1 DEF Ended, Whole, Return, Clean
    <2> QED BY <1>1, <2>1, <2>4, <2>5, ReturnInv DEF Clean
  <1> QED BY <1>2, <1>3

LEMMA ClassifyInv == ASSUME OwnerInv, ClassifyOwners PROVE OwnerInv'
  <1>1. in' = in /\ in \in Inputs /\ UNCHANGED <<baseline, output>> /\ pc = "classify"
    BY DEF ClassifyOwners, OwnerInv
  <1>2. Clashing' = Clashing /\ Decided' = Decided /\ \A i : Decision(i)' = Decision(i)
    BY <1>1 DEF Clashing, Decided, AllIds, Decision
  <1>3. CASE Clashing # {}
    <2>1. Return(Conflicts(Clashing)) /\ UNCHANGED selected
      BY <1>3 DEF ClassifyOwners, Clashing
    <2>2. Typed'
      BY <1>1, <2>1, TypedStays
    <2>3. Ended'
      BY <1>2, <1>3, <2>1 DEF Ended, Return, Conflicts
    <2> QED BY <1>1, <2>1, <2>2, <2>3, ReturnInv DEF Conflicts
  <1>4. CASE Clashing = {}
    <2>1. selected' = [i \in Decided |-> Decision(i)] /\ pc' = "plan" /\ UNCHANGED outcome
      BY <1>4 DEF ClassifyOwners, Clashing, Decided
    <2>2. Planned'
      BY <1>2, <1>4, <2>1 DEF Planned
    <2>3. Decided \subseteq Ids
      <3>1. AllIds \subseteq Ids
        BY <1>1, DecisionFacts
      <3> QED BY <3>1 DEF Decided
    <2>4. SelectedIds' = Decided /\ \A i \in SelectedIds' : selected'[i] \in {"ours", "theirs"}
      BY <2>1 DEF SelectedIds, Decided
    <2>5. Typed'
      BY <1>1, <2>3, <2>4 DEF Typed, WellFormed, OwnerInv, TypeOK
    <2> QED BY <1>1, <2>1, <2>2, <2>5, GoesOnInv
  <1> QED BY <1>3, <1>4

LEMMA PlanInv == ASSUME OwnerInv, Plan PROVE OwnerInv'
  <1>1. in' = in /\ in \in Inputs /\ UNCHANGED <<selected, output>> /\ pc = "plan" /\ Planned
    BY DEF Plan, OwnerInv
  <1>2. CASE PlanError = "none"
    <2>1. baseline' = ChosenBaseline /\ pc' = "render" /\ UNCHANGED outcome
      BY <1>2 DEF Plan
    <2>2. SelectedIds' = SelectedIds /\ Stable' = Stable /\ (MembershipChanged <=> MembershipChanged')
      BY <1>1 DEF SelectedIds, Stable, MembershipChanged
    <2>3. ChosenBaseline' = ChosenBaseline /\ (OrdersAgree <=> OrdersAgree')
          /\ (OrderChanged <=> OrderChanged')
      BY <1>1, <2>2 DEF ChosenBaseline, CombinedAdditions, OrdersAgree, OrderChanged
    <2>4. LayoutMatches <=> LayoutMatches'
      BY <1>1, <2>2, <2>3 DEF LayoutMatches
    <2>5. PlanError' = PlanError
      BY <1>1, <2>2, <2>3, <2>4 DEF PlanError, Source
    <2>6. Planned' /\ Settled'
      BY <1>1, <1>2, <2>1, <2>3, <2>5, PlannedStays DEF Settled
    <2>7. Typed'
      BY <1>1, <2>1, <2>2 DEF Typed, WellFormed, OwnerInv, TypeOK, ChosenBaseline
    <2> QED BY <1>1, <2>1, <2>6, <2>7, GoesOnInv
  <1>3. CASE PlanError # "none"
    <2>1. Return(Refused(PlanError)) /\ UNCHANGED baseline
      BY <1>3 DEF Plan
    <2>2. Typed'
      BY <1>1, <2>1, TypedStays
    <2> QED BY <1>1, <2>1, <2>2, ReturnInv DEF Return, Refused, Ended
  <1> QED BY <1>2, <1>3

LEMMA RenderInv == ASSUME OwnerInv, Render PROVE OwnerInv'
  <1>1. /\ in' = in /\ in \in Inputs /\ UNCHANGED <<selected, baseline, outcome>> /\ pc = "render"
        /\ Planned /\ Settled /\ output' = Rendered /\ pc' = "verify"
    BY DEF Render, OwnerInv
  <1>2. Rendered' = Rendered /\ Settled' /\ Planned'
    BY <1>1, RenderedStays, SettledStays, PlannedStays
  <1>3. WellFormed(output')
    BY <1>1, RenderedWellFormed
  <1>4. Typed'
    BY <1>1, <1>3 DEF Typed, WellFormed, SelectedIds, OwnerInv, TypeOK
  <1> QED BY <1>1, <1>2, <1>4, GoesOnInv

LEMMA VerifyInv ==
  ASSUME OwnerInv,
         VerifyFails \/ \E d \in {output} \cup Misread(output) : VerifyReads(d)
  PROVE  OwnerInv'
  <1>1. /\ in' = in /\ in \in Inputs /\ UNCHANGED <<selected, baseline>> /\ pc = "verify"
        /\ Settled /\ output = Rendered
    BY DEF VerifyFails, VerifyReads, OwnerInv
  <1>2. CASE Return(Refused("configuration")) /\ output' = Nothing
    <2>1. Typed'
      BY <1>1, <1>2, NothingWellFormed DEF Typed, WellFormed, SelectedIds, OwnerInv, TypeOK
    <2> QED BY <1>1, <1>2, <2>1, ReturnInv DEF Return, Refused, Ended
  <1>3. ASSUME NEW d \in {output} \cup Misread(output), Accepted(d), Return(Clean),
               UNCHANGED output
        PROVE  OwnerInv'
    <2>1. LayoutKept
      BY <1>1, <1>3, AcceptedLayout
    <2>2. LayoutKept' /\ Settled' /\ output' = Rendered'
      BY <1>1, <1>3, <2>1, SettledStays, RenderedStays DEF LayoutKept, Stable, MembershipChanged
    <2>3. Ended'
      BY <1>3, <2>2 DEF Ended, Verified, Return, Clean
    <2>4. Typed'
      BY <1>1, <1>3, TypedStays
    <2> QED BY <1>1, <1>3, <2>3, <2>4, ReturnInv DEF Clean
  <1> QED BY <1>2, <1>3 DEF VerifyFails, VerifyReads

LEMMA NextInv == ASSUME OwnerInv, [Next]_vars PROVE OwnerInv'
  <1>1. CASE UNCHANGED vars
    <2> USE <1>1 DEF vars
    <2>1. (Planned <=> Planned') /\ (Settled <=> Settled') /\ Rendered' = Rendered
      BY PlannedStays, SettledStays, RenderedStays
    <2>2. (Whole <=> Whole') /\ (Verified <=> Verified') /\ Clashing' = Clashing
      BY <2>1 DEF Whole, WholeSource, Verified, LayoutKept, Stable, MembershipChanged,
                  Clashing, AllIds, Decision
    <2>3. Ended <=> Ended'
      BY <2>2 DEF Ended
    <2>4. TypeOK <=> TypeOK'
      BY DEF TypeOK, SelectedIds
    <2> QED BY <2>1, <2>3, <2>4 DEF OwnerInv
  <1> QED BY <1>1, ValidateInv, SelectWholeInv, ClassifyInv, PlanInv, RenderInv, VerifyInv
          DEF Next, Done

\* The invariant holds in every state of a merge.
THEOREM OwnerMergeInvariance == Spec => []OwnerInv
  BY InitInv, NextInv, PTL DEF Spec

\* Type correctness.
THEOREM OwnerMergeTypeCorrectness == Spec => []TypeOK
  <1>1. OwnerInv => TypeOK
    BY DEF OwnerInv
  <1> QED BY <1>1, OwnerMergeInvariance, PTL

-----------------------------------------------------------------------------
(* What a merge may return *)

\* When two of the documents agree, the third one's view is the merged one.
LEMMA WholeFacts ==
  ASSUME Whole
  PROVE  /\ output = in.ours \/ output = in.theirs
         /\ \/ in.ours = in.theirs /\ output = in.ours
            \/ in.base = in.theirs /\ output = in.ours
            \/ in.base = in.ours /\ output = in.theirs
  BY DEF Whole, WholeSource

LEMMA CleanOwners == OwnerInv => CleanAppliesBothTips
  <1> SUFFICES ASSUME OwnerInv, outcome.kind = "clean", NEW i \in Ids
               PROVE  ~Clashes(i) /\ PrintIn(output, i) = Result(i)
    BY DEF CleanAppliesBothTips, Clashes, Result, View
  <1>1. pc = "done" /\ in \in Inputs /\ (Whole \/ Verified)
    BY DEF OwnerInv, Ended
  <1>2. CASE Whole
    BY <1>2, WholeFacts DEF Clashes, Result, View, Clash, Merged, Changed
  <1>3. CASE Verified
    <2>1. PrintIn(output, i) = Result(i)
      BY <1>1, <1>3, RenderedPrints DEF Verified
    <2>2. ~Clashes(i)
      BY <1>1, <1>3, DecisionFacts DEF Verified, Settled, Planned, Clashing
    <2> QED BY <2>1, <2>2
  <1> QED BY <1>1, <1>2, <1>3

\* A clean merge of owners takes every edit, addition and deletion of either
\* tip and nothing else, for every number of owners and fingerprints.
THEOREM CleanMergesApplyBothTips == Spec => []CleanAppliesBothTips
  BY OwnerMergeInvariance, CleanOwners, PTL

LEMMA ExactConflicts == OwnerInv => ConflictsAreExact
  <1> SUFFICES ASSUME OwnerInv PROVE ConflictsAreExact
    OBVIOUS
  <1>1. in \in Inputs
    BY DEF OwnerInv
  <1>2. Clashing = {i \in Ids : Clashes(i)}
    <2>1. AllIds \subseteq Ids
      BY <1>1, DecisionFacts
    <2>2. ASSUME NEW i \in Ids PROVE Clashes(i) <=> i \in AllIds /\ Decision(i) = "conflict"
      BY <1>1, DecisionFacts
    <2> QED BY <2>1, <2>2 DEF Clashing
  <1>3. {i \in Ids : Clash(PrintIn(in.base, i), PrintIn(in.ours, i), PrintIn(in.theirs, i))}
          = Clashing
    BY <1>2 DEF Clashes, View
  <1>4. outcome.kind = "conflict" => outcome.ids = Clashing /\ Clashing # {}
    BY DEF OwnerInv, Ended
  <1>5. pc \in {"plan", "render", "verify"} => Clashing = {}
    BY DEF OwnerInv, Planned
  <1>6. ASSUME outcome.kind = "clean" PROVE Clashing = {}
    <2>1. CASE Whole
      BY <2>1, <1>2, WholeFacts DEF Clashes, View, Clash, Changed
    <2>2. CASE Verified
      BY <2>2 DEF Verified, Settled, Planned
    <2> QED BY <1>6, <2>1, <2>2 DEF OwnerInv, Ended
  <1> QED BY <1>3, <1>4, <1>5, <1>6 DEF ConflictsAreExact

\* The merge reports a conflict for exactly the owners that the tips changed
\* in different ways, and gets no further with one.
THEOREM ReportedConflictsAreExact == Spec => []ConflictsAreExact
  BY OwnerMergeInvariance, ExactConflicts, PTL

\* The output has the common owners in the order of its baseline.
LEMMA BaselineOrder ==
  ASSUME in \in Inputs, Settled, NEW i \in Stable, NEW j \in Stable
  PROVE  Earlier(Rendered, i, j) <=> Earlier(in[baseline], i, j)
  <1> DEFINE n == Len(in[baseline].owners)
             m == Len(Added)
             owners == Rendered.owners
  <1>1. baseline \in Revisions /\ in[baseline].owners \in Seq(Owners) /\ n \in Nat
        /\ DOMAIN in[baseline].owners = 1..n
    BY SettledFacts, InputFacts, OwnerFacts DEF Revisions
  <1>2. Added \in Seq(Ids) /\ m \in Nat /\ DOMAIN Added = 1..m
        /\ \A k \in 1..m : Added[k] \notin Stable
    BY SettledFacts
  <1>3. Len(owners) = n + m /\ DOMAIN owners = 1..(n + m)
        /\ \A k \in 1..n : owners[k].id = in[baseline].owners[k].id
    BY RenderedFacts
  <1>4. \A k \in 1..(n + m) : owners[k].id \in Stable => k \in 1..n
    <2> SUFFICES ASSUME NEW k \in 1..(n + m), k \notin 1..n PROVE owners[k].id \notin Stable
      OBVIOUS
    <2>1. Order(in[baseline]) \in Seq(Ids) /\ Len(Order(in[baseline])) = n
      BY <1>1, OrderFacts
    <2>2. Joins(OutputIds, Order(in[baseline]), Added)
      BY <1>2, <2>1, ConcatFacts DEF OutputIds
    <2>3. \E l \in 1..m : OutputIds[k] = Added[l]
      BY <2>1, <2>2 DEF Joins
    <2>4. owners[k].id = OutputIds[k]
      BY <1>3, RenderedFacts
    <2> QED BY <1>2, <2>3, <2>4
  <1> HIDE DEF n, m, owners
  <1>5. Earlier(Rendered, i, j) <=> \E k, l \in 1..(n + m) : k < l /\ owners[k].id = i /\ owners[l].id = j
    BY <1>3 DEF Earlier, owners
  <1>6. Earlier(in[baseline], i, j)
          <=> \E k, l \in 1..n : k < l /\ in[baseline].owners[k].id = i /\ in[baseline].owners[l].id = j
    BY <1>1 DEF Earlier
  <1>7. \A k \in 1..n : k \in 1..(n + m)
    BY <1>1, <1>2
  <1> QED BY <1>3, <1>4, <1>5, <1>6, <1>7

LEMMA CleanOrders == OwnerInv => CleanKeepsReorderings
  <1> SUFFICES ASSUME OwnerInv, outcome.kind = "clean", NEW i \in Stable, NEW j \in Stable
               PROVE  Earlier(output, i, j)
                        <=> Merged(Earlier(in.base, i, j), Earlier(in.ours, i, j),
                                   Earlier(in.theirs, i, j))
    BY DEF CleanKeepsReorderings
  <1>1. in \in Inputs /\ (Whole \/ Verified)
    BY DEF OwnerInv, Ended
  <1>2. CASE Whole
    BY <1>2, WholeFacts DEF Merged, Changed
  <1>3. CASE Verified
    <2>1. Earlier(output, i, j) <=> Earlier(in[baseline], i, j)
      BY <1>1, <1>3, BaselineOrder DEF Verified
    <2>2. baseline \in {"ours", "theirs"} /\ OrdersAgree
      BY <1>1, <1>3, SettledFacts DEF Verified, Settled, PlanError
    <2>3. in["ours"].owners \in Seq(Owners) /\ in["theirs"].owners \in Seq(Owners)
      BY <1>1, InputFacts DEF Revisions
    <2>4. OrderFor(in.ours, Stable) = OrderFor(in.theirs, Stable)
      BY <2>2 DEF OrdersAgree
    <2>5. Earlier(in.ours, i, j) <=> Earlier(in.theirs, i, j)
      BY <2>3, <2>4, SameOrder
    <2> QED BY <2>1, <2>2, <2>5 DEF Merged, Changed
  <1> QED BY <1>1, <1>2, <1>3

\* A clean merge has the owners that all three documents have in the order of
\* the tip that reordered them.
THEOREM CleanMergesKeepReorderings == Spec => []CleanKeepsReorderings
  BY OwnerMergeInvariance, CleanOrders, PTL

LEMMA CleanLayouts == OwnerInv => CleanKeepsLayout
  <1> DEFINE L(d) == LayoutFor(d, Stable)
  <1> SUFFICES ASSUME OwnerInv, outcome.kind = "clean"
               PROVE  L(output) = Merged(L(in.base), L(in.ours), L(in.theirs))
    BY DEF CleanKeepsLayout
  <1>1. in \in Inputs /\ (Whole \/ Verified)
    BY DEF OwnerInv, Ended
  <1>2. CASE Whole
    BY <1>2, WholeFacts DEF Merged, Changed
  <1>3. CASE Verified
    <2>1. L(output) = L(in[baseline]) /\ baseline \in {"ours", "theirs"} /\ LayoutMatches
      BY <1>1, <1>3, SettledFacts DEF Verified, LayoutKept, Settled, PlanError
    <2>2. L(in.ours) = L(in.theirs)
      <3>1. CASE MembershipChanged
        BY <2>1, <3>1 DEF LayoutMatches
      <3>2. CASE ~MembershipChanged
        <4>1. in.ours.gaps = in.theirs.gaps /\ Order(in.ours) = Order(in.theirs)
          BY <2>1, <3>2 DEF LayoutMatches, MembershipChanged
        <4>2. in["ours"].owners \in Seq(Owners) /\ in["theirs"].owners \in Seq(Owners)
          BY <1>1, InputFacts DEF Revisions
        <4>3. Len(in.ours.owners) = Len(in.theirs.owners)
          BY <4>1, <4>2, OrderFacts
        <4> QED BY <4>1, <4>3, LayoutDepends
      <3> QED BY <3>1, <3>2
    <2> QED BY <2>1, <2>2 DEF Merged, Changed
  <1> QED BY <1>1, <1>2, <1>3

\* A clean merge has the whole lines around the common owners as the tip that
\* changed them does, whatever the reading of the output looked like.
THEOREM CleanMergesKeepLayout == Spec => []CleanKeepsLayout
  BY OwnerMergeInvariance, CleanLayouts, PTL

LEMMA CleanTexts == OwnerInv => AddedTextKept
  <1> DEFINE Known == Texts(WholeLines(in.base.gaps)) \cup Texts(WholeLines(output.gaps))
             KnownLine == LineTexts(in.base.gaps) \cup LineTexts(output.gaps)
  <1> SUFFICES ASSUME OwnerInv, outcome.kind = "clean", NEW r \in {"ours", "theirs"}
               PROVE  /\ \A k \in DOMAIN in[r].gaps :
                           \/ ToSet(in[r].gaps[k].lines) \subseteq Known
                           \/ MembershipChanged /\ BeforeTrailingOwner(in[r], k)
                      /\ LineTexts(in[r].gaps) \subseteq KnownLine \/ MembershipChanged
    BY DEF AddedTextKept
  <1>1. in \in Inputs /\ (Whole \/ Verified)
    BY DEF OwnerInv, Ended
  <1>2. \A k \in DOMAIN in[r].gaps : ToSet(in[r].gaps[k].lines) \subseteq Texts(WholeLines(in[r].gaps))
    BY DEF Texts, WholeLines
  <1>3. CASE Whole
    <2>1. in[r] = in.base \/ in[r] = output
      BY <1>3 DEF Whole, WholeSource
    <2>2. Texts(WholeLines(in[r].gaps)) \subseteq Known /\ LineTexts(in[r].gaps) \subseteq KnownLine
      BY <2>1
    <2> QED BY <1>2, <2>2
  <1>4. CASE Verified
    <2>1. baseline \in {"ours", "theirs"} /\ LayoutMatches /\ LayoutKept
      BY <1>1, <1>4, SettledFacts DEF Verified, Settled, PlanError
    <2>2. CASE ~MembershipChanged
      <3>1. in[r].gaps = in[baseline].gaps /\ output.gaps = in[baseline].gaps
        BY <2>1, <2>2 DEF LayoutMatches, LayoutKept
      <3>2. Texts(WholeLines(in[r].gaps)) \subseteq Known /\ LineTexts(in[r].gaps) \subseteq KnownLine
        BY <3>1
      <3> QED BY <1>2, <3>2
    <2>3. CASE MembershipChanged
      <3>1. \A x \in {"ours", "theirs"} :
              /\ in[x].owners \in Seq(Owners) /\ in[x].gaps \in Seq(Gaps)
              /\ Len(in[x].gaps) = Len(in[x].owners) + 1
              /\ Order(in[x]) \in Seq(Ids) /\ Len(Order(in[x])) = Len(in[x].owners)
              /\ \A l \in 1..Len(in[x].owners) : Order(in[x])[l] = in[x].owners[l].id
        BY <1>1, InputFacts, OrderFacts DEF Revisions
      <3>2. \A x \in {"ours", "theirs"} :
              /\ WholeLines(in[x].gaps) \in Seq(Seq(Words))
              /\ Len(WholeLines(in[x].gaps)) = Len(in[x].gaps)
              /\ \A k \in 1..Len(in[x].gaps) : WholeLines(in[x].gaps)[k] = in[x].gaps[k].lines
        BY <3>1, WholeLinesFacts
      <3>3. Texts(WholeLines(in[baseline].gaps)) \subseteq Texts(WholeLines(output.gaps))
        <4>1. output = Rendered /\ DOMAIN in[baseline].gaps = 1..Len(in[baseline].gaps)
          BY <1>4, <2>1, <3>1 DEF Verified
        <4>2. \A l \in DOMAIN in[baseline].gaps :
                l \in DOMAIN output.gaps /\ output.gaps[l].lines = in[baseline].gaps[l].lines
          BY <1>1, <1>4, <4>1, RenderedGaps DEF Verified
        <4> QED BY <4>2 DEF Texts, WholeLines
      <3>4. Texts(LayoutFor(in[baseline], Stable)) \subseteq Texts(WholeLines(in[baseline].gaps))
        BY <2>1, <3>1, <3>2, LayoutText DEF LayoutFor
      <3>5. LayoutFor(in[r], Stable) = LayoutFor(in[baseline], Stable)
        BY <2>1, <2>3 DEF LayoutMatches
      <3> SUFFICES ASSUME NEW k \in DOMAIN in[r].gaps, ~BeforeTrailingOwner(in[r], k)
                   PROVE  ToSet(in[r].gaps[k].lines) \subseteq Known
        BY <2>3
      <3> DEFINE n == Len(in[r].owners)
      <3>6. n \in Nat /\ DOMAIN in[r].owners = 1..n /\ k \in 1..Len(in[r].gaps)
        BY <3>1, OwnerFacts, SMTT(30)
      <3>7. k = Len(in[r].gaps) \/ \E l \in k..n : in[r].owners[l].id \in Stable
        <4>1. CASE k \in 1..n
          BY <3>6, <4>1 DEF BeforeTrailingOwner
        <4>2. CASE k \notin 1..n
          BY <3>1, <3>6, <4>2, SMTT(30)
        <4> QED BY <4>1, <4>2
      <3>8. k = Len(in[r].gaps) \/ \E l \in k..Len(Order(in[r])) : Order(in[r])[l] \in Stable
        <4>1. \A l \in k..n : l \in 1..n
          BY <3>6
        <4> QED BY <3>1, <3>7, <4>1
      <3>9. ToSet(WholeLines(in[r].gaps)[k]) \subseteq Texts(LayoutFor(in[r], Stable))
        <4> DEFINE w == WholeLines(in[r].gaps)
                   o == Order(in[r])
        <4>1. w \in Seq(Seq(Words)) /\ o \in Seq(Ids) /\ Len(w) = Len(o) + 1 /\ k \in 1..Len(w)
          BY <3>1, <3>2, <3>6
        <4>2. k = Len(w) \/ \E l \in k..Len(o) : o[l] \in Stable
          BY <3>2, <3>8
        <4>3. LayoutFor(in[r], Stable) = LayoutSegments(o, w, Stable)
          BY DEF LayoutFor
        <4> HIDE DEF w, o
        <4>4. ToSet(w[k]) \subseteq Texts(LayoutSegments(o, w, Stable))
          BY <4>1, <4>2, LayoutText
        <4> QED BY <4>3, <4>4 DEF w
      <3>10. WholeLines(in[r].gaps)[k] = in[r].gaps[k].lines
        BY <3>2, <3>6
      <3> QED BY <3>3, <3>4, <3>5, <3>9, <3>10
    <2> QED BY <2>2, <2>3
  <1> QED BY <1>1, <1>3, <1>4

\* Text that a tip adds between owners reaches a clean output, but for the
\* lines before trailing owners that layout_segments_for_ids leaves out and,
\* where owners come or go, the text beside an owner on its own lines.
THEOREM AddedTextIsKept == Spec => []AddedTextKept
  BY OwnerMergeInvariance, CleanTexts, PTL

=============================================================================
